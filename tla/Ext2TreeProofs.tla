---------------------------- MODULE Ext2TreeProofs ---------------------------
(***************************************************************************)
(* The directories of the file system, for every size of the volume, every *)
(* set of names and any number of kills.                                   *)
(*                                                                         *)
(* A volume is in order (Tree) when its directories are tiled by entries,  *)
(* name distinct allocated inodes, each once, and lead back up; what the   *)
(* routines of Ext2Disk may do to such a volume is said of the two disks   *)
(* alone (GrowDir, ShrinkDir, BesideTree).  A run is in order (InOrder)    *)
(* when every disk it can end with is, and has changed one name of the     *)
(* current directory at most (Fine); every command is such a run, unless   *)
(* it records one of the mishaps that damage a directory.  So Sound is     *)
(* inductive, and most safety properties of Ext2Fs follow from it.         *)
(*                                                                         *)
(* All of a volume is accounted for (Exact) when the bitmaps hold what its *)
(* directories lead to and nothing else, its directories are counted, and  *)
(* their sizes are those of their entries.  In the middle of a command it  *)
(* is not, so this is said of whole commands: of the disks before and      *)
(* after (GrowExact, ShrinkExact, SameExact), with what the routines take  *)
(* and give back as long as nothing fails (Still).  So Accounted is        *)
(* inductive too.                                                          *)
(***************************************************************************)
EXTENDS Ext2FsProofs

-----------------------------------------------------------------------------
(* A volume in order.                                                       *)

Places(d, i) == 0..(d.inode_table[i].i_blocks - 1)
BlockOf(d, i, x) == d.inode_table[i].i_block[x]

\* Where the x-th block of directory i holds entries other than the first two
\* of the directory.
Spots(d, i, x) == Walk(BlockAt(d, i, x)) \ (IF x = 0 THEN {0, 8} ELSE {})

NameAt(d, i, x, p) == At(BlockAt(d, i, x), p).name
InodeAt(d, i, x, p) == At(BlockAt(d, i, x), p).inode

\* Where ".." of directory i leads.
Up(d, i) == At(BlockAt(d, i, 0), 8).inode

\* The inodes of L and their blocks are allocated, each block once.
Allocated(d, L) ==
    /\ L \subseteq d.inode_bitmap
    /\ \A i \in L : \A x \in Places(d, i) : BlockOf(d, i, x) \in d.block_bitmap
    /\ \A i, j \in L : \A x \in Places(d, i), y \in Places(d, j) :
          BlockOf(d, i, x) = BlockOf(d, j, y) => i = j /\ x = y

\* The entry at byte p of the x-th block of directory i names one of L, and a
\* directory it names leads back to i.
EntryInOrder(d, L, i, x, p) ==
    /\ NameAt(d, i, x, p) \in Names /\ InodeAt(d, i, x, p) \in L \ {ROOT}
    /\ IsDir(d, InodeAt(d, i, x, p)) => Up(d, InodeAt(d, i, x, p)) = i

\* The blocks of directory i are tiled by entries in order, after "." and ".."
\* in the first, and no name is there twice.
DirInOrder(d, L, i) ==
    /\ 0 \in Places(d, i)
    /\ \A x \in Places(d, i) : BlockAt(d, i, x) \in Image /\ Tiled(BlockAt(d, i, x))
    /\ Header(BlockAt(d, i, 0), i, Up(d, i))
    /\ \A x \in Places(d, i) : \A p \in Spots(d, i, x) : EntryInOrder(d, L, i, x, p)
    /\ \A x, y \in Places(d, i) : \A p \in Spots(d, i, x), q \in Spots(d, i, y) :
          NameAt(d, i, x, p) = NameAt(d, i, y, q) => x = y /\ p = q

DirsOf(d, L) == {i \in L : IsDir(d, i)}

\* No inode is named twice by the directories of L.
NamedOnce(d, L) ==
    \A i, j \in DirsOf(d, L) : \A x \in Places(d, i), y \in Places(d, j) :
       \A p \in Spots(d, i, x), q \in Spots(d, j, y) :
          InodeAt(d, i, x, p) = InodeAt(d, j, y, q) => i = j /\ x = y /\ p = q

\* The inodes of L are allocated, and what their directories name is in L.
Tree(d, L) ==
    /\ L \subseteq Inode /\ ROOT \in DirsOf(d, L) /\ Up(d, ROOT) = ROOT
    /\ Allocated(d, L)
    /\ \A i \in DirsOf(d, L) : DirInOrder(d, L, i)
    /\ NamedOnce(d, L)

-----------------------------------------------------------------------------

\* The blocks of an inode are those at its places.
LEMMA PlacesType ==
    ASSUME NEW d \in Disk, NEW i \in Inode, NEW x \in Places(d, i)
    PROVE  /\ BlockOf(d, i, x) \in Block /\ BlockAt(d, i, x) \in Content
           /\ BlockAt(d, i, x) = d.data[BlockOf(d, i, x)]
           /\ x \in 0..(NDIRECT - 1) /\ x \in Nat
<1>1. d.inode_table[i] \in InodeEntry
  BY DEF Disk
<1>2. QED
  BY <1>1, BlockAtType, VolumeAssumption DEF Places, BlockOf, BlockAt, InodeEntry

\* What Live is: the least set of inodes with the root that is closed under
\* the names of its directories, if there is one.
LEMMA LiveLeast ==
    ASSUME NEW d, NEW L \in SUBSET Inode, ROOT \in L, \A i \in L : Children(d, i) \subseteq L
    PROVE  /\ ROOT \in Live(d) /\ Live(d) \subseteq L
           /\ \A i \in Live(d) : Children(d, i) \subseteq Live(d)
           /\ \A S \in SUBSET Inode :
                 (ROOT \in S /\ \A i \in S : Children(d, i) \subseteq S) => Live(d) \subseteq S
<1> DEFINE kids == [i \in Inode |-> Children(d, i)]
           Closed(S) == ROOT \in S /\ \A i \in S : kids[i] \subseteq S
<1>1. Live(d) = {i \in Inode : \A S \in SUBSET Inode : Closed(S) => i \in S}
  BY DEF Live
<1>2. \A S \in SUBSET Inode :
         Closed(S) <=> ROOT \in S /\ \A i \in S : Children(d, i) \subseteq S
  <2>1. \A i \in Inode : kids[i] = Children(d, i)
    OBVIOUS
  <2> HIDE DEF kids
  <2>2. QED
    BY <2>1
<1>3. ROOT \in Inode
  BY Volume
<1> HIDE DEF kids, Closed
<1>4. Closed(L)
  BY <1>2
<1>5. ASSUME NEW i \in Live(d), NEW k \in Children(d, i) PROVE k \in Live(d)
  <2>1. ASSUME NEW S \in SUBSET Inode, Closed(S) PROVE k \in S
    <3>1. i \in S
      BY <1>1, <2>1
    <3>2. QED
      BY <1>2, <2>1, <3>1, <1>5
  <2>2. k \in Inode
    BY <1>4, <2>1
  <2>3. QED
    BY <1>1, <2>1, <2>2
<1>6. QED
  BY <1>1, <1>2, <1>3, <1>4, <1>5

\* The entries of a directory in order are those at its spots: "." and ".."
\* are no names a user gives.
LEMMA SpotEntries ==
    ASSUME NEW d \in Disk, NEW L, NEW i \in Inode, IsDir(d, i), DirInOrder(d, L, i)
    PROVE  \A e : e \in EntriesOf(d, i) <=>
             \E x \in Places(d, i) : \E p \in Spots(d, i, x) :
                e = <<BlockOf(d, i, x), At(BlockAt(d, i, x), p)>>
<1>1. ASSUME NEW x \in Places(d, i)
      PROVE  /\ BlockAt(d, i, x) = d.data[BlockOf(d, i, x)]
             /\ \A s : s \in Listing(BlockAt(d, i, x)) <=>
                  \E p \in Spots(d, i, x) : s = At(BlockAt(d, i, x), p)
  <2> DEFINE img == BlockAt(d, i, x)
  <2>1. img \in Image /\ Tiled(img) /\ img # FileBytes
    BY TiledWalk DEF DirInOrder
  <2>2. \A p \in Walk(img) : At(img, p).inode # 0
    BY <2>1, TiledWalk, SizesAssumption
  <2>3. \A p \in Spots(d, i, x) : At(img, p).name \in Names
    BY DEF DirInOrder, EntryInOrder, NameAt
  <2>4. ASSUME NEW p \in Walk(img), p \notin Spots(d, i, x) PROVE At(img, p).name \notin Names
    <3>1. x = 0 /\ p \in {0, 8}
      BY <2>4 DEF Spots
    <3>2. At(img, 0).name = "." /\ At(img, 8).name = ".."
      BY <3>1 DEF DirInOrder, Header
    <3>3. QED
      BY <3>1, <3>2, NamesAssumption
  <2>5. Spots(d, i, x) \subseteq Walk(img)
    BY DEF Spots
  <2>6. \A s : s \in Listing(img) <=> \E p \in Walk(img) : At(img, p).name \in Names /\ s = At(img, p)
    BY <2>1, <2>2 DEF Listing
  <2>7. BlockAt(d, i, x) = d.data[BlockOf(d, i, x)]
    BY DEF BlockAt, BlockOf
  <2>8. QED
    BY <2>3, <2>4, <2>5, <2>6, <2>7
<1>2. BlocksOf(d, i) = {BlockOf(d, i, x) : x \in Places(d, i)}
  BY DEF BlocksOf, BlockOf, Places
<1>3. EntriesOf(d, i) = UNION {{b} \X Listing(d.data[b]) : b \in BlocksOf(d, i)}
  BY DEF EntriesOf
<1>4. \A e : e \in EntriesOf(d, i) <=>
               \E x \in Places(d, i) : e \in {BlockOf(d, i, x)} \X Listing(BlockAt(d, i, x))
  BY <1>1, <1>2, <1>3
<1>5. \A e, b, S : e \in {b} \X S <=> \E s \in S : e = <<b, s>>
  OBVIOUS
<1>6. TAKE e
<1>7. ASSUME e \in EntriesOf(d, i)
      PROVE  \E x \in Places(d, i) : \E p \in Spots(d, i, x) :
                e = <<BlockOf(d, i, x), At(BlockAt(d, i, x), p)>>
  <2>1. PICK x \in Places(d, i) : e \in {BlockOf(d, i, x)} \X Listing(BlockAt(d, i, x))
    BY <1>4, <1>7
  <2>2. PICK s \in Listing(BlockAt(d, i, x)) : e = <<BlockOf(d, i, x), s>>
    BY <1>5, <2>1
  <2>3. QED
    BY <1>1, <2>2
<1>8. ASSUME NEW x \in Places(d, i), NEW p \in Spots(d, i, x),
             e = <<BlockOf(d, i, x), At(BlockAt(d, i, x), p)>>
      PROVE  e \in EntriesOf(d, i)
  <2>1. At(BlockAt(d, i, x), p) \in Listing(BlockAt(d, i, x))
    BY <1>1
  <2>2. e \in {BlockOf(d, i, x)} \X Listing(BlockAt(d, i, x))
    BY <1>5, <1>8, <2>1
  <2>3. QED
    BY <1>4, <2>2
<1>9. QED
  BY <1>7, <1>8

\* So the inodes a directory in order names are those at its spots.
LEMMA SpotChildren ==
    ASSUME NEW d \in Disk, NEW L, NEW i \in Inode, IsDir(d, i), DirInOrder(d, L, i)
    PROVE  \A k : k \in Children(d, i) <=>
             \E x \in Places(d, i) : \E p \in Spots(d, i, x) : k = InodeAt(d, i, x, p)
<1>1. \A e : e \in EntriesOf(d, i) <=>
             \E x \in Places(d, i) : \E p \in Spots(d, i, x) :
                e = <<BlockOf(d, i, x), At(BlockAt(d, i, x), p)>>
  BY SpotEntries
<1>2. TAKE k
<1>3. ASSUME k \in Children(d, i)
      PROVE  \E x \in Places(d, i) : \E p \in Spots(d, i, x) : k = InodeAt(d, i, x, p)
  <2>1. PICK e \in EntriesOf(d, i) : k = e[2].inode
    BY <1>3 DEF Children
  <2>2. PICK x \in Places(d, i) :
                \E p \in Spots(d, i, x) : e = <<BlockOf(d, i, x), At(BlockAt(d, i, x), p)>>
    BY <1>1, <2>1
  <2>3. QED
    BY <2>1, <2>2 DEF InodeAt
<1>4. ASSUME NEW x \in Places(d, i), NEW p \in Spots(d, i, x), k = InodeAt(d, i, x, p)
      PROVE  k \in Children(d, i)
  <2> DEFINE e == <<BlockOf(d, i, x), At(BlockAt(d, i, x), p)>>
  <2>1. e \in EntriesOf(d, i)
    BY <1>1
  <2>2. k = e[2].inode
    BY <1>4 DEF InodeAt
  <2> HIDE DEF e
  <2>3. QED
    BY <2>1, <2>2 DEF Children
<1>5. QED
  BY <1>3, <1>4

\* What the directories of a volume in order name is in order.
LEMMA TreeClosed ==
    ASSUME NEW d \in Disk, NEW L, Tree(d, L)
    PROVE  ROOT \in L /\ \A i \in L : Children(d, i) \subseteq L
<1>1. ROOT \in L
  BY DEF Tree, DirsOf
<1>2. ASSUME NEW i \in L PROVE Children(d, i) \subseteq L
  <2>1. CASE IsDir(d, i)
    <3>1. DirInOrder(d, L, i) /\ i \in Inode
      BY <2>1 DEF Tree, DirsOf
    <3>2. QED
      BY <2>1, <3>1, SpotChildren DEF DirInOrder, EntryInOrder
  <2>2. CASE ~IsDir(d, i)
    BY <2>2 DEF Children, EntriesOf
  <2>3. QED
    BY <2>1, <2>2
<1>3. QED
  BY <1>1, <1>2

\* A volume in order is so already with the inodes that a path leads to.
LEMMA TreeLive ==
    ASSUME NEW d \in Disk, NEW L, Tree(d, L)
    PROVE  /\ Tree(d, Live(d)) /\ Live(d) \subseteq L
           /\ \A S \in SUBSET Inode :
                 (ROOT \in S /\ \A i \in S : Children(d, i) \subseteq S) => Live(d) \subseteq S
<1>1. L \in SUBSET Inode /\ ROOT \in L /\ \A i \in L : Children(d, i) \subseteq L
  BY TreeClosed DEF Tree
<1>2. /\ ROOT \in Live(d) /\ Live(d) \subseteq L
      /\ \A i \in Live(d) : Children(d, i) \subseteq Live(d)
      /\ \A S \in SUBSET Inode :
            (ROOT \in S /\ \A i \in S : Children(d, i) \subseteq S) => Live(d) \subseteq S
  BY <1>1, LiveLeast
<1> DEFINE M == Live(d)
<1>3. M \subseteq Inode /\ ROOT \in DirsOf(d, M) /\ Up(d, ROOT) = ROOT
  BY <1>2 DEF Tree, DirsOf
<1>4. Allocated(d, M)
  BY <1>2 DEF Tree, Allocated
<1>5. ASSUME NEW i \in DirsOf(d, M) PROVE DirInOrder(d, M, i)
  <2>1. i \in M /\ IsDir(d, i) /\ DirInOrder(d, L, i) /\ i \in Inode
    BY <1>2, <1>5 DEF Tree, DirsOf
  <2>2. \A x \in Places(d, i) : \A p \in Spots(d, i, x) : InodeAt(d, i, x, p) \in M
    BY <1>2, <2>1, SpotChildren
  <2>3. QED
    BY <2>1, <2>2 DEF DirInOrder, EntryInOrder
<1>6. NamedOnce(d, M)
  <2>1. DirsOf(d, M) \subseteq DirsOf(d, L)
    BY <1>2 DEF DirsOf
  <2>2. QED
    BY <2>1 DEF Tree, NamedOnce
<1>7. QED
  BY <1>2, <1>3, <1>4, <1>5, <1>6 DEF Tree

\* Every inode that a path leads to, but the root, is named by a directory
\* other than itself that a path leads to.
LEMMA NamedBySome ==
    ASSUME NEW d \in Disk, NEW L, Tree(d, L), NEW k \in Live(d) \ {ROOT}
    PROVE  \E j \in DirsOf(d, Live(d)) \ {k} : \E x \in Places(d, j) : \E p \in Spots(d, j, x) :
              InodeAt(d, j, x, p) = k
<1> DEFINE S == Live(d) \ {k}
<1>1. Tree(d, Live(d)) /\ ~(Live(d) \subseteq S) /\ S \in SUBSET Inode /\ ROOT \in S
  BY TreeLive, TreeClosed DEF Tree
<1>2. PICK j \in S : ~(Children(d, j) \subseteq S)
  BY <1>1, TreeLive
<1>3. k \in Children(d, j)
  BY <1>1, <1>2, TreeClosed
<1>4. IsDir(d, j)
  BY <1>3 DEF Children, EntriesOf
<1>5. j \in DirsOf(d, Live(d)) /\ DirInOrder(d, Live(d), j) /\ j \in Inode
  BY <1>1, <1>2, <1>4 DEF Tree, DirsOf
<1>6. QED
  BY <1>2, <1>3, <1>4, <1>5, SpotChildren

-----------------------------------------------------------------------------
(* What a volume in order keeps of its promises.                            *)

\* Of the volume: everything a path leads to is allocated, and once.
LEMMA TreeAllocates ==
    ASSUME disk \in Disk, Tree(disk, Live(disk))
    PROVE  ReachableIsAllocated /\ BlocksOwnedOnce
<1> DEFINE L == Live(disk)
           owners == {o \in L \X (0..(NDIRECT - 1)) : o[2] < entry(o[1]).i_blocks}
           block(o) == entry(o[1]).i_block[o[2]]
<1>1. Allocated(disk, L) /\ L \subseteq Inode
  BY DEF Tree
<1>2. \A i \in L : BlocksOf(disk, i) = {BlockOf(disk, i, x) : x \in Places(disk, i)}
  BY DEF BlocksOf, BlockOf, Places
<1>3. ReachableIsAllocated
  BY <1>1, <1>2 DEF Allocated, ReachableIsAllocated
<1>4. ASSUME NEW o \in owners, NEW p \in owners, block(o) = block(p)
      PROVE  o = p
  <2> HIDE DEF L
  <2>1. /\ o = <<o[1], o[2]>> /\ o[1] \in L /\ o[2] \in 0..(NDIRECT - 1)
        /\ p = <<p[1], p[2]>> /\ p[1] \in L /\ p[2] \in 0..(NDIRECT - 1)
        /\ o[2] < entry(o[1]).i_blocks /\ p[2] < entry(p[1]).i_blocks
    OBVIOUS
  <2>2. disk.inode_table[o[1]] \in InodeEntry /\ disk.inode_table[p[1]] \in InodeEntry
    <3>1. o[1] \in Inode /\ p[1] \in Inode
      BY <1>1, <2>1
    <3>2. \A i \in Inode : disk.inode_table[i] \in InodeEntry
      BY DEF Disk
    <3>3. QED
      BY <3>1, <3>2
  <2>3. o[2] \in Places(disk, o[1]) /\ p[2] \in Places(disk, p[1])
    <3>1. disk.inode_table[o[1]].i_blocks \in Nat /\ disk.inode_table[p[1]].i_blocks \in Nat
      BY <2>2, VolumeAssumption DEF InodeEntry
    <3>2. QED
      BY <2>1, <3>1 DEF Places, entry
  <2>4. BlockOf(disk, o[1], o[2]) = BlockOf(disk, p[1], p[2])
    BY <1>4 DEF BlockOf, entry
  <2>5. o[1] = p[1] /\ o[2] = p[2]
    BY <1>1, <2>1, <2>3, <2>4 DEF Allocated
  <2>6. QED
    BY <2>1, <2>5
<1>5. BlocksOwnedOnce
  BY <1>4 DEF BlocksOwnedOnce
<1>6. QED
  BY <1>3, <1>5

\* Of the directories: names are told apart, and ".." leads to where the
\* directory is named.
LEMMA TreeShapes ==
    ASSUME disk \in Disk, Tree(disk, Live(disk))
    PROVE  TreeShape
<1> DEFINE L == Live(disk)
           dirs == {i \in L : IsDir(disk, i)}
           naming(i) == UNION {{j} \X {e \in EntriesOf(disk, j) : e[2].inode = i} : j \in dirs}
<1>1. /\ L \subseteq Inode /\ dirs = DirsOf(disk, L) /\ NamedOnce(disk, L)
      /\ \A i \in dirs : i \in Inode /\ IsDir(disk, i) /\ DirInOrder(disk, L, i)
  BY DEF Tree, DirsOf
<1>2. \A j \in dirs : \A e :
         e \in EntriesOf(disk, j) <=>
             \E x \in Places(disk, j) : \E p \in Spots(disk, j, x) :
                e = <<BlockOf(disk, j, x), At(BlockAt(disk, j, x), p)>>
  BY <1>1, SpotEntries
<1>3. ASSUME NEW i \in dirs, NEW e \in EntriesOf(disk, i), NEW f \in EntriesOf(disk, i),
             e[2].name = f[2].name
      PROVE  e = f
  <2>1. PICK x \in Places(disk, i) : \E p \in Spots(disk, i, x) :
                e = <<BlockOf(disk, i, x), At(BlockAt(disk, i, x), p)>>
    BY <1>2
  <2>2. PICK y \in Places(disk, i) : \E q \in Spots(disk, i, y) :
                f = <<BlockOf(disk, i, y), At(BlockAt(disk, i, y), q)>>
    BY <1>2
  <2>3. PICK p \in Spots(disk, i, x) : e = <<BlockOf(disk, i, x), At(BlockAt(disk, i, x), p)>>
    BY <2>1
  <2>4. PICK q \in Spots(disk, i, y) : f = <<BlockOf(disk, i, y), At(BlockAt(disk, i, y), q)>>
    BY <2>2
  <2>5. NameAt(disk, i, x, p) = NameAt(disk, i, y, q)
    BY <1>3, <2>3, <2>4 DEF NameAt
  <2>6. x = y /\ p = q
    BY <1>1, <2>5 DEF DirInOrder
  <2>7. QED
    BY <2>3, <2>4, <2>6
<1>4. ASSUME NEW k \in L \ {ROOT} PROVE Cardinality(naming(k)) = 1
  <2>1. PICK j \in dirs : \E x \in Places(disk, j) : \E p \in Spots(disk, j, x) :
              InodeAt(disk, j, x, p) = k
    BY <1>1, <1>4, NamedBySome
  <2>2. PICK x \in Places(disk, j) : \E p \in Spots(disk, j, x) : InodeAt(disk, j, x, p) = k
    BY <2>1
  <2>3. PICK p \in Spots(disk, j, x) : InodeAt(disk, j, x, p) = k
    BY <2>2
  <2> DEFINE e == <<BlockOf(disk, j, x), At(BlockAt(disk, j, x), p)>>
  <2>4. e \in EntriesOf(disk, j) /\ e[2].inode = k
    BY <1>2, <2>3 DEF InodeAt
  <2>5. ASSUME NEW i \in dirs, NEW f \in EntriesOf(disk, i), f[2].inode = k
        PROVE  i = j /\ f = e
    <3>1. PICK y \in Places(disk, i) : \E q \in Spots(disk, i, y) :
                f = <<BlockOf(disk, i, y), At(BlockAt(disk, i, y), q)>>
      BY <1>2
    <3>2. PICK q \in Spots(disk, i, y) : f = <<BlockOf(disk, i, y), At(BlockAt(disk, i, y), q)>>
      BY <3>1
    <3>3. InodeAt(disk, i, y, q) = InodeAt(disk, j, x, p)
      BY <2>3, <2>5, <3>2 DEF InodeAt
    <3>4. i = j /\ x = y /\ p = q
      BY <1>1, <3>3 DEF NamedOnce
    <3>5. QED
      BY <3>2, <3>4
  <2> HIDE DEF e
  <2>6. naming(k) = {<<j, e>>}
    <3> HIDE DEF dirs
    <3>1. \A t : t \in naming(k) <=> \E i \in dirs : \E f \in EntriesOf(disk, i) :
                    f[2].inode = k /\ t = <<i, f>>
      OBVIOUS
    <3> HIDE DEF naming
    <3>2. \A t : t \in naming(k) <=> t = <<j, e>>
      BY <2>4, <2>5, <3>1
    <3>3. QED
      BY <3>2
  <2>7. QED
    BY <2>6, FS_Singleton
<1>5. ASSUME NEW j \in dirs, NEW i \in dirs, i \in Children(disk, j)
      PROVE  At(BlockAt(disk, i, 0), 0).inode = i /\ At(BlockAt(disk, i, 0), 8).inode = j
  <2>1. PICK x \in Places(disk, j) : \E p \in Spots(disk, j, x) : i = InodeAt(disk, j, x, p)
    BY <1>1, <1>5, SpotChildren
  <2>2. PICK p \in Spots(disk, j, x) : i = InodeAt(disk, j, x, p)
    BY <2>1
  <2>3. Up(disk, i) = j
    BY <1>1, <2>2 DEF DirInOrder, EntryInOrder
  <2>4. QED
    BY <1>1, <2>3 DEF DirInOrder, Header, Up
<1>6. QED
  BY <1>3, <1>4, <1>5 DEF TreeShape

-----------------------------------------------------------------------------
(* What keeps a volume in order.                                            *)

\* If i is a directory it holds on disk e what it holds on disk d.
SameDir(d, e, i) ==
    /\ IsDir(e, i) <=> IsDir(d, i)
    /\ IsDir(d, i) => /\ Places(e, i) = Places(d, i)
                      /\ \A x \in Places(d, i) : /\ BlockOf(e, i, x) = BlockOf(d, i, x)
                                                 /\ BlockAt(e, i, x) = BlockAt(d, i, x)

\* So do the directories of L.
SameDirs(d, e, L) == \A i \in L : SameDir(d, e, i)

\* Disk e differs from disk d beside the inodes of L and their blocks only.
Beside(d, e, L) ==
    /\ L \subseteq e.inode_bitmap
    /\ \A i \in L :
          /\ e.inode_table[i].type = d.inode_table[i].type
          /\ e.inode_table[i].i_blocks = d.inode_table[i].i_blocks
          /\ e.inode_table[i].i_block = d.inode_table[i].i_block
          /\ \A x \in Places(d, i) : /\ BlockOf(d, i, x) \in e.block_bitmap
                                     /\ BlockAt(e, i, x) = BlockAt(d, i, x)

\* Nothing else matters for the directories.
LEMMA SameDirsTree ==
    ASSUME NEW d, NEW e, NEW L, Tree(d, L), SameDirs(d, e, L), Allocated(e, L)
    PROVE  Tree(e, L)
<1>1. DirsOf(e, L) = DirsOf(d, L)
  BY DEF DirsOf, SameDirs, SameDir
<1>2. ASSUME NEW i \in DirsOf(d, L)
      PROVE  /\ Places(e, i) = Places(d, i) /\ 0 \in Places(d, i)
             /\ \A x \in Places(d, i) : /\ BlockAt(e, i, x) = BlockAt(d, i, x)
                                        /\ Spots(e, i, x) = Spots(d, i, x)
                                        /\ \A p : NameAt(e, i, x, p) = NameAt(d, i, x, p)
                                        /\ \A p : InodeAt(e, i, x, p) = InodeAt(d, i, x, p)
             /\ Up(e, i) = Up(d, i)
  <2>1. i \in L /\ IsDir(d, i) /\ 0 \in Places(d, i)
    BY DEF DirsOf, Tree, DirInOrder
  <2>2. Places(e, i) = Places(d, i) /\ \A x \in Places(d, i) : BlockAt(e, i, x) = BlockAt(d, i, x)
    BY <2>1 DEF SameDirs, SameDir
  <2>3. QED
    BY <2>1, <2>2 DEF Spots, NameAt, InodeAt, Up
<1>3. ASSUME NEW i \in DirsOf(d, L) PROVE DirInOrder(e, L, i)
  <2>1. DirInOrder(d, L, i)
    BY DEF Tree
  <2>2. ASSUME NEW x \in Places(d, i), NEW p \in Spots(d, i, x)
        PROVE  EntryInOrder(e, L, i, x, p)
    <3>1. EntryInOrder(d, L, i, x, p)
      BY <2>1 DEF DirInOrder
    <3>2. LET k == InodeAt(d, i, x, p)
          IN  k \in L /\ (IsDir(e, k) => IsDir(d, k) /\ Up(e, k) = Up(d, k))
      BY <1>2, <3>1 DEF EntryInOrder, SameDirs, SameDir, DirsOf
    <3>3. QED
      BY <1>2, <3>1, <3>2 DEF EntryInOrder
  <2>3. QED
    BY <1>2, <2>1, <2>2 DEF DirInOrder
<1>4. NamedOnce(e, L)
  BY <1>1, <1>2 DEF Tree, NamedOnce
<1>5. QED
  BY <1>1, <1>2, <1>3, <1>4 DEF Tree

\* Nor does what is written beside them.
LEMMA BesideTree ==
    ASSUME NEW d, NEW e, NEW L, Tree(d, L), Beside(d, e, L)
    PROVE  SameDirs(d, e, L) /\ Tree(e, L)
<1>1. ASSUME NEW i \in L
      PROVE  /\ Places(e, i) = Places(d, i) /\ \A x : BlockOf(e, i, x) = BlockOf(d, i, x)
             /\ IsDir(e, i) <=> IsDir(d, i)
  BY DEF Beside, Places, BlockOf, IsDir
<1>2. SameDirs(d, e, L)
  BY <1>1 DEF SameDirs, SameDir, Beside
<1>3. Allocated(e, L)
  BY <1>1 DEF Allocated, Beside, Tree
<1>4. QED
  BY <1>2, <1>3, SameDirsTree

\* What stays alike in two steps stays alike from the first to the last.
LEMMA SameDirsTransitive ==
    ASSUME NEW d, NEW e, NEW f, NEW L, SameDirs(d, e, L), SameDirs(e, f, L)
    PROVE  SameDirs(d, f, L)
BY DEF SameDirs, SameDir

\* The blocks of directory c on disk e are tiled, and the first begins with the
\* entries of c itself and of the directory that was above it on disk d.
Rewritten(d, e, c) ==
    /\ IsDir(e, c) /\ 0 \in Places(e, c)
    /\ \A x \in Places(e, c) : BlockAt(e, c, x) \in Image /\ Tiled(BlockAt(e, c, x))
    /\ Header(BlockAt(e, c, 0), c, Up(d, c))

\* The entry of directory c at byte p of its x-th block is on disk d as on e.
Kept(d, e, c, x, p) ==
    /\ x \in Places(d, c) /\ p \in Spots(d, c, x)
    /\ NameAt(e, c, x, p) = NameAt(d, c, x, p) /\ InodeAt(e, c, x, p) = InodeAt(d, c, x, p)

\* Directory i is found on disk e as on disk d, entry by entry.
SameAt(d, e, i) ==
    /\ IsDir(e, i) /\ Places(e, i) = Places(d, i) /\ 0 \in Places(d, i)
    /\ \A x \in Places(d, i) : /\ BlockAt(e, i, x) = BlockAt(d, i, x)
                               /\ Spots(e, i, x) = Spots(d, i, x)
                               /\ \A p : NameAt(e, i, x, p) = NameAt(d, i, x, p)
                               /\ \A p : InodeAt(e, i, x, p) = InodeAt(d, i, x, p)
    /\ Up(e, i) = Up(d, i)

\* So are the directories that are not rewritten.
LEMMA OthersSame ==
    ASSUME NEW d, NEW e, NEW L, Tree(d, L), NEW i \in DirsOf(d, L), SameDir(d, e, i)
    PROVE  SameAt(d, e, i)
<1>1. i \in L /\ IsDir(d, i) /\ 0 \in Places(d, i)
  BY DEF DirsOf, Tree, DirInOrder
<1>2. /\ IsDir(e, i) /\ Places(e, i) = Places(d, i)
      /\ \A x \in Places(d, i) : BlockAt(e, i, x) = BlockAt(d, i, x)
  BY <1>1 DEF SameDirs, SameDir
<1>3. QED
  BY <1>1, <1>2 DEF Spots, NameAt, InodeAt, Up, SameAt

\* A directory that gets one entry more, for an inode that is not in use.
LEMMA GrowDir ==
    ASSUME NEW d, NEW e, NEW L, NEW c, NEW k \in Inode \ L, NEW name \in Names,
           Tree(d, L), c \in DirsOf(d, L), SameDirs(d, e, L \ {c}),
           Rewritten(d, e, c), Allocated(e, L \cup {k}),
           \A x \in Places(d, c) : \A p \in Spots(d, c, x) : NameAt(d, c, x, p) # name,
           NEW X, NEW P,
           \A x \in Places(e, c) : \A p \in Spots(e, c, x) :
              \/ Kept(d, e, c, x, p)
              \/ x = X /\ p = P /\ NameAt(e, c, x, p) = name /\ InodeAt(e, c, x, p) = k,
           IsDir(e, k) => Places(e, k) = {0} /\ BlockAt(e, k, 0) = DirImage(k, c)
    PROVE  Tree(e, L \cup {k})
<1> DEFINE M == L \cup {k}
           others == DirsOf(d, L) \ {c}
           new(x, p) == x = X /\ p = P /\ NameAt(e, c, x, p) = name /\ InodeAt(e, c, x, p) = k
<1>1. c \in L /\ c # k /\ IsDir(d, c) /\ L \subseteq Inode /\ DirInOrder(d, L, c)
  BY DEF Tree, DirsOf
<1>2. ASSUME NEW i \in others
      PROVE  SameAt(d, e, i) /\ DirInOrder(d, L, i) /\ i \in L
  <2>1. i \in DirsOf(d, L) /\ i # c
    OBVIOUS
  <2>2. DirInOrder(d, L, i)
    BY <2>1 DEF Tree
  <2>3. i \in L
    BY <2>1 DEF DirsOf
  <2>4. SameAt(d, e, i)
    <3>1. SameDir(d, e, i)
      BY <2>1, <2>3 DEF SameDirs
    <3>2. QED
      BY <2>1, <3>1, OthersSame
  <2>5. QED
    BY <2>2, <2>3, <2>4
<1>3. Up(e, c) = Up(d, c)
  BY DEF Rewritten, Header, Up
<1>4. \A i \in L : (IsDir(e, i) <=> IsDir(d, i)) /\ (IsDir(d, i) => Up(e, i) = Up(d, i))
  BY <1>1, <1>2, <1>3 DEF SameDirs, SameDir, DirsOf, Rewritten, SameAt
<1>5. /\ DirsOf(e, M) \ {k} = DirsOf(d, L) /\ (k \in DirsOf(e, M) <=> IsDir(e, k))
      /\ M \subseteq Inode
  BY <1>1, <1>4 DEF DirsOf
<1>6. ASSUME IsDir(e, k)
      PROVE  DirInOrder(e, M, k) /\ Up(e, k) = c /\ Places(e, k) = {0} /\ Spots(e, k, 0) = {}
  <2> DEFINE img == DirImage(k, c)
  <2>1. Places(e, k) = {0} /\ BlockAt(e, k, 0) = img
    BY <1>6
  <2>2. Tiled(img) /\ Walk(img) = {0, 8} /\ Header(img, k, c)
    BY <1>1, DirImageOrder DEF Inode
  <2>3. img \in Image
    BY <1>1, NewBlockType DEF Inode, AllNames
  <2> HIDE DEF img
  <2>4. Up(e, k) = c
    BY <2>1, <2>2 DEF Up, Header
  <2>5. Spots(e, k, 0) = {}
    BY <2>1, <2>2 DEF Spots
  <2>6. QED
    BY <2>1, <2>2, <2>3, <2>4, <2>5 DEF DirInOrder
<1>7. ASSUME NEW i \in others PROVE DirInOrder(e, M, i)
  <2>1. ASSUME NEW x \in Places(d, i), NEW p \in Spots(d, i, x)
        PROVE  EntryInOrder(e, M, i, x, p)
    <3>1. EntryInOrder(d, L, i, x, p)
      BY <1>2 DEF DirInOrder
    <3>2. QED
      BY <1>2, <1>4, <3>1 DEF EntryInOrder, SameAt
  <2>2. ASSUME NEW x \in Places(e, i), NEW y \in Places(e, i),
               NEW p \in Spots(e, i, x), NEW q \in Spots(e, i, y),
               NameAt(e, i, x, p) = NameAt(e, i, y, q)
        PROVE  x = y /\ p = q
    <3>1. /\ x \in Places(d, i) /\ y \in Places(d, i)
          /\ p \in Spots(d, i, x) /\ q \in Spots(d, i, y)
          /\ NameAt(d, i, x, p) = NameAt(d, i, y, q)
      BY <1>2, <2>2 DEF SameAt
    <3>2. QED
      BY <1>2, <3>1 DEF DirInOrder
  <2>3. /\ 0 \in Places(e, i) /\ Header(BlockAt(e, i, 0), i, Up(e, i))
        /\ \A x \in Places(e, i) : BlockAt(e, i, x) \in Image /\ Tiled(BlockAt(e, i, x))
    BY <1>2 DEF DirInOrder, SameAt
  <2>4. \A x \in Places(e, i) : \A p \in Spots(e, i, x) : EntryInOrder(e, M, i, x, p)
    BY <1>2, <2>1 DEF SameAt
  <2>5. QED
    BY <2>2, <2>3, <2>4 DEF DirInOrder
<1>8. DirInOrder(e, M, c)
  <2>1. ASSUME NEW x \in Places(e, c), NEW p \in Spots(e, c, x)
        PROVE  EntryInOrder(e, M, c, x, p)
    <3>1. CASE Kept(d, e, c, x, p)
      <4>1. EntryInOrder(d, L, c, x, p)
        BY <1>1, <3>1 DEF Kept, DirInOrder
      <4>2. QED
        BY <1>4, <3>1, <4>1 DEF EntryInOrder, Kept
    <3>2. CASE new(x, p)
      <4>1. k # ROOT
        BY DEF Tree, DirsOf
      <4>2. QED
        BY <1>6, <3>2, <4>1 DEF EntryInOrder
    <3>3. QED
      BY <3>1, <3>2
  <2>2. ASSUME NEW x \in Places(e, c), NEW y \in Places(e, c),
               NEW p \in Spots(e, c, x), NEW q \in Spots(e, c, y),
               NameAt(e, c, x, p) = NameAt(e, c, y, q)
        PROVE  x = y /\ p = q
    <3>1. Kept(d, e, c, x, p) \/ new(x, p)
      OBVIOUS
    <3>2. Kept(d, e, c, y, q) \/ new(y, q)
      OBVIOUS
    <3>3. CASE Kept(d, e, c, x, p) /\ Kept(d, e, c, y, q)
      <4>1. /\ x \in Places(d, c) /\ y \in Places(d, c)
            /\ p \in Spots(d, c, x) /\ q \in Spots(d, c, y)
            /\ NameAt(d, c, x, p) = NameAt(d, c, y, q)
        BY <2>2, <3>3 DEF Kept
      <4>2. QED
        BY <1>1, <4>1 DEF DirInOrder
    <3>4. QED
      BY <2>2, <3>1, <3>2, <3>3 DEF Kept
  <2>3. QED
    BY <1>3, <2>1, <2>2 DEF DirInOrder, Rewritten
<1>9. NamedOnce(e, M)
  <2>1. ASSUME NEW i \in DirsOf(e, M), NEW x \in Places(e, i), NEW p \in Spots(e, i, x)
        PROVE  /\ i \in DirsOf(d, L)
               /\ \/ Kept(d, e, i, x, p)
                  \/ i = c /\ new(x, p)
    <3>1. i # k
      BY <1>6, <2>1, <1>5
    <3>2. i \in DirsOf(d, L)
      BY <1>5, <3>1
    <3>3. CASE i = c
      BY <2>1, <3>2, <3>3
    <3>4. CASE i # c
      BY <1>2, <2>1, <3>2, <3>4 DEF Kept, SameAt
    <3>5. QED
      BY <3>2, <3>3, <3>4
  <2>2. ASSUME NEW i \in DirsOf(d, L), NEW x, NEW p, Kept(d, e, i, x, p)
        PROVE  InodeAt(e, i, x, p) \in L
    BY <2>2 DEF Kept, Tree, DirInOrder, EntryInOrder
  <2>3. ASSUME NEW i \in DirsOf(e, M), NEW j \in DirsOf(e, M),
               NEW x \in Places(e, i), NEW y \in Places(e, j),
               NEW p \in Spots(e, i, x), NEW q \in Spots(e, j, y),
               InodeAt(e, i, x, p) = InodeAt(e, j, y, q)
        PROVE  i = j /\ x = y /\ p = q
    <3>1. i \in DirsOf(d, L) /\ j \in DirsOf(d, L)
      BY <2>1
    <3>2. Kept(d, e, i, x, p) \/ (i = c /\ new(x, p))
      BY <2>1
    <3>3. Kept(d, e, j, y, q) \/ (j = c /\ new(y, q))
      BY <2>1
    <3>4. CASE Kept(d, e, i, x, p) /\ Kept(d, e, j, y, q)
      <4>1. /\ x \in Places(d, i) /\ y \in Places(d, j)
            /\ p \in Spots(d, i, x) /\ q \in Spots(d, j, y)
            /\ InodeAt(d, i, x, p) = InodeAt(d, j, y, q)
        BY <2>3, <3>4 DEF Kept
      <4>2. NamedOnce(d, L)
        BY DEF Tree
      <4>3. QED
        BY <3>1, <4>1, <4>2 DEF NamedOnce
    <3>5. QED
      BY <2>2, <2>3, <3>1, <3>2, <3>3, <3>4
  <2>4. QED
    BY <2>3 DEF NamedOnce
<1>10. \A i \in DirsOf(e, M) : DirInOrder(e, M, i)
  BY <1>5, <1>6, <1>7, <1>8
<1>11. ROOT \in DirsOf(e, M) /\ Up(e, ROOT) = ROOT
  BY <1>4, <1>5 DEF Tree, DirsOf
<1>12. QED
  BY <1>5, <1>9, <1>10, <1>11 DEF Tree

\* A directory that loses an entry, and with it the inode it named.
LEMMA ShrinkDir ==
    ASSUME NEW d, NEW e, NEW L, NEW c, NEW k, k # ROOT, k # c,
           Tree(d, L), c \in DirsOf(d, L), SameDirs(d, e, L \ {c}),
           Rewritten(d, e, c), Allocated(e, L \ {k}),
           \A x \in Places(e, c) : \A p \in Spots(e, c, x) :
              Kept(d, e, c, x, p) /\ InodeAt(e, c, x, p) # k,
           \E x \in Places(d, c) : \E p \in Spots(d, c, x) : InodeAt(d, c, x, p) = k
    PROVE  Tree(e, L \ {k})
<1> DEFINE M == L \ {k}
           others == DirsOf(d, M) \ {c}
<1>1. c \in L /\ IsDir(d, c) /\ L \subseteq Inode /\ DirInOrder(d, L, c) /\ c \in M
  BY DEF Tree, DirsOf
<1>2. ASSUME NEW i \in others
      PROVE  SameAt(d, e, i) /\ DirInOrder(d, L, i) /\ i \in M
  <2>1. i \in DirsOf(d, L) /\ i # c
    BY DEF DirsOf
  <2>2. DirInOrder(d, L, i)
    BY <2>1 DEF Tree
  <2>3. i \in L /\ i # k
    BY DEF DirsOf
  <2>4. SameAt(d, e, i)
    <3>1. SameDir(d, e, i)
      BY <2>1, <2>3 DEF SameDirs
    <3>2. QED
      BY <2>1, <3>1, OthersSame
  <2>5. QED
    BY <2>2, <2>3, <2>4
<1>3. Up(e, c) = Up(d, c)
  BY DEF Rewritten, Header, Up
<1>4. \A i \in M : (IsDir(e, i) <=> IsDir(d, i)) /\ (IsDir(d, i) => Up(e, i) = Up(d, i))
  BY <1>1, <1>2, <1>3 DEF SameDirs, SameDir, DirsOf, Rewritten, SameAt
<1>5. DirsOf(e, M) = DirsOf(d, M) /\ DirsOf(d, M) \subseteq DirsOf(d, L) /\ c \in DirsOf(d, M)
  BY <1>1, <1>4 DEF DirsOf
<1>6. ASSUME NEW i \in DirsOf(d, M), NEW x \in Places(e, i), NEW p \in Spots(e, i, x)
      PROVE  Kept(d, e, i, x, p) /\ InodeAt(e, i, x, p) # k
  <2>1. CASE i = c
    BY <1>6, <2>1
  <2>2. CASE i # c
    <3>1. Kept(d, e, i, x, p)
      <4>1. SameAt(d, e, i)
        BY <1>2, <2>2
      <4>2. QED
        BY <1>6, <4>1 DEF Kept, SameAt
    <3>2. PICK y \in Places(d, c) : \E q \in Spots(d, c, y) : InodeAt(d, c, y, q) = k
      OBVIOUS
    <3>3. PICK q \in Spots(d, c, y) : InodeAt(d, c, y, q) = k
      BY <3>2
    <3>4. NamedOnce(d, L) /\ i \in DirsOf(d, L)
      BY <1>5 DEF Tree
    <3>5. InodeAt(d, i, x, p) # k
      BY <2>2, <3>1, <3>3, <3>4 DEF NamedOnce, Kept
    <3>6. QED
      BY <3>1, <3>5 DEF Kept
  <2>3. QED
    BY <2>1, <2>2
<1>7. ASSUME NEW i \in DirsOf(d, M) PROVE DirInOrder(e, M, i)
  <2>1. DirInOrder(d, L, i)
    BY <1>1, <1>2
  <2>2. ASSUME NEW x \in Places(e, i), NEW p \in Spots(e, i, x)
        PROVE  EntryInOrder(e, M, i, x, p)
    <3>1. Kept(d, e, i, x, p) /\ InodeAt(e, i, x, p) # k
      BY <1>6
    <3>2. EntryInOrder(d, L, i, x, p)
      BY <2>1, <3>1 DEF Kept, DirInOrder
    <3>3. QED
      BY <1>4, <3>1, <3>2 DEF EntryInOrder, Kept
  <2>3. ASSUME NEW x \in Places(e, i), NEW y \in Places(e, i),
               NEW p \in Spots(e, i, x), NEW q \in Spots(e, i, y),
               NameAt(e, i, x, p) = NameAt(e, i, y, q)
        PROVE  x = y /\ p = q
    <3>1. Kept(d, e, i, x, p) /\ Kept(d, e, i, y, q)
      BY <1>6
    <3>2. /\ x \in Places(d, i) /\ y \in Places(d, i)
          /\ p \in Spots(d, i, x) /\ q \in Spots(d, i, y)
          /\ NameAt(d, i, x, p) = NameAt(d, i, y, q)
      BY <2>3, <3>1 DEF Kept
    <3>3. QED
      BY <2>1, <3>2 DEF DirInOrder
  <2>4. /\ 0 \in Places(e, i) /\ Header(BlockAt(e, i, 0), i, Up(e, i))
        /\ \A x \in Places(e, i) : BlockAt(e, i, x) \in Image /\ Tiled(BlockAt(e, i, x))
    <3>1. CASE i = c
      BY <1>3, <3>1 DEF Rewritten
    <3>2. CASE i # c
      BY <1>2, <2>1, <3>2 DEF DirInOrder, SameAt
    <3>3. QED
      BY <3>1, <3>2
  <2>5. QED
    BY <2>2, <2>3, <2>4 DEF DirInOrder
<1>8. NamedOnce(e, M)
  <2>1. ASSUME NEW i \in DirsOf(e, M), NEW j \in DirsOf(e, M),
               NEW x \in Places(e, i), NEW y \in Places(e, j),
               NEW p \in Spots(e, i, x), NEW q \in Spots(e, j, y),
               InodeAt(e, i, x, p) = InodeAt(e, j, y, q)
        PROVE  i = j /\ x = y /\ p = q
    <3>1. Kept(d, e, i, x, p) /\ Kept(d, e, j, y, q)
      BY <1>5, <1>6
    <3>2. /\ x \in Places(d, i) /\ y \in Places(d, j)
          /\ p \in Spots(d, i, x) /\ q \in Spots(d, j, y)
          /\ InodeAt(d, i, x, p) = InodeAt(d, j, y, q)
      BY <2>1, <3>1 DEF Kept
    <3>3. NamedOnce(d, L) /\ i \in DirsOf(d, L) /\ j \in DirsOf(d, L)
      BY <1>5 DEF Tree
    <3>4. QED
      BY <3>2, <3>3 DEF NamedOnce
  <2>2. QED
    BY <2>1 DEF NamedOnce
<1>9. ROOT \in DirsOf(e, M) /\ Up(e, ROOT) = ROOT
  BY <1>4, <1>5 DEF Tree, DirsOf
<1>10. QED
  BY <1>1, <1>5, <1>7, <1>8, <1>9 DEF Tree

-----------------------------------------------------------------------------
(* What the writes of the program do to a volume in order.                  *)

\* Block b is allocated and in no use by the inodes of L.
Spare(d, L, b) ==
    b \in d.block_bitmap /\ \A i \in L : \A x \in Places(d, i) : BlockOf(d, i, x) # b

\* On disk e inode i has one block more than on disk d: the n-th, which is b.
Lengthened(d, e, i, n, b) ==
    /\ e \in Disk /\ e.data = d.data
    /\ e.inode_bitmap = d.inode_bitmap /\ e.block_bitmap = d.block_bitmap
    /\ n \in Nat /\ n \notin Places(d, i)
    /\ Places(e, i) = Places(d, i) \cup {n}
    /\ BlockOf(e, i, n) = b /\ \A x \in Places(d, i) : BlockOf(e, i, x) = BlockOf(d, i, x)
    /\ \A j \in Inode : IsDir(e, j) <=> IsDir(d, j)
    /\ \A j \in Inode \ {i} : /\ Places(e, j) = Places(d, j)
                              /\ \A x : BlockOf(e, j, x) = BlockOf(d, j, x)

\* The inode that add_file_block and the first write of a file store.
LEMMA AddBlock ==
    ASSUME NEW d \in Disk, NEW i \in Inode, NEW b \in Block, NEW n,
           n = d.inode_table[i].i_blocks, n # NDIRECT, NEW e,
           e = [d EXCEPT !.inode_table[i] = [d.inode_table[i] EXCEPT
                                               !.i_block[n] = b, !.i_blocks = n + 1]]
    PROVE  Lengthened(d, e, i, n, b)
<1> DEFINE old == d.inode_table[i]
           at  == [old.i_block EXCEPT ![n] = b]
           new == [old EXCEPT !.i_block = at, !.i_blocks = n + 1]
<1>1. old \in InodeEntry
  BY DEF Disk
<1>2. n \in 0..(NDIRECT - 1) /\ n \in Nat /\ n + 1 \in 0..NDIRECT
  BY <1>1, VolumeAssumption DEF InodeEntry
<1>3. /\ at \in [0..(NDIRECT - 1) -> Block] /\ at[n] = b
      /\ \A x \in 0..(NDIRECT - 1) : x # n => at[x] = old.i_block[x]
  BY <1>1, <1>2 DEF InodeEntry
<1>4. e = [d EXCEPT !.inode_table[i] = new]
  OBVIOUS
<1> HIDE DEF at
<1>5. new \in InodeEntry /\ new.i_block = at /\ new.i_blocks = n + 1 /\ new.type = old.type
  BY <1>1, <1>2, <1>3 DEF InodeEntry
<1> HIDE DEF new
<1>6. /\ e \in Disk /\ e.data = d.data
      /\ e.inode_bitmap = d.inode_bitmap /\ e.block_bitmap = d.block_bitmap
      /\ e.inode_table[i] = new /\ \A j \in Inode \ {i} : e.inode_table[j] = d.inode_table[j]
  <2>1. e.inode_table = [d.inode_table EXCEPT ![i] = new] /\ d.inode_table \in [Inode -> InodeEntry]
    BY <1>4 DEF Disk
  <2>2. e.inode_table \in [Inode -> InodeEntry]
    BY <1>5, <2>1
  <2>3. e.inode_table[i] = new /\ \A j \in Inode \ {i} : e.inode_table[j] = d.inode_table[j]
    BY <2>1
  <2>4. e = [d EXCEPT !.inode_table = e.inode_table]
    BY <1>4, <2>1
  <2> HIDE <1>4
  <2>5. e \in Disk /\ e.data = d.data
        /\ e.inode_bitmap = d.inode_bitmap /\ e.block_bitmap = d.block_bitmap
    BY <2>2, <2>4 DEF Disk
  <2>6. QED
    BY <2>3, <2>5
<1>7. Places(d, i) = 0..(n - 1) /\ Places(e, i) = 0..n
  BY <1>2, <1>5, <1>6 DEF Places
<1>8. n \notin Places(d, i) /\ Places(e, i) = Places(d, i) \cup {n}
  BY <1>2, <1>7
<1>9. BlockOf(e, i, n) = b /\ \A x \in Places(d, i) : BlockOf(e, i, x) = BlockOf(d, i, x)
  <2>1. \A x : BlockOf(e, i, x) = at[x] /\ BlockOf(d, i, x) = old.i_block[x]
    BY <1>5, <1>6 DEF BlockOf
  <2>2. \A x \in Places(d, i) : x \in 0..(NDIRECT - 1) /\ x # n
    BY <1>2, <1>7, VolumeAssumption
  <2>3. QED
    BY <1>3, <2>1, <2>2
<1>10. \A j \in Inode \ {i} : /\ Places(e, j) = Places(d, j)
                              /\ \A x : BlockOf(e, j, x) = BlockOf(d, j, x)
  BY <1>6 DEF Places, BlockOf
<1>11. \A j \in Inode : IsDir(e, j) <=> IsDir(d, j)
  BY <1>5, <1>6 DEF IsDir
<1>12. QED
  BY <1>2, <1>6, <1>8, <1>9, <1>10, <1>11 DEF Lengthened

\* It owns no block of another inode.
LEMMA LengthenedAllocated ==
    ASSUME NEW d, NEW e, NEW i, NEW n, NEW b, Lengthened(d, e, i, n, b),
           NEW L, L \subseteq Inode, i \in L, Allocated(d, L), Spare(d, L, b)
    PROVE  Allocated(e, L)
<1>1. L \subseteq e.inode_bitmap
  BY DEF Allocated, Lengthened
<1>2. ASSUME NEW j \in L, NEW x \in Places(e, j)
      PROVE  \/ j = i /\ x = n /\ BlockOf(e, j, x) = b
             \/ x \in Places(d, j) /\ BlockOf(e, j, x) = BlockOf(d, j, x)
  <2>1. CASE j = i
    BY <1>2, <2>1 DEF Lengthened
  <2>2. CASE j # i
    BY <1>2, <2>2 DEF Lengthened
  <2>3. QED
    BY <2>1, <2>2
<1>3. ASSUME NEW j \in L, NEW x \in Places(e, j) PROVE BlockOf(e, j, x) \in e.block_bitmap
  <2>1. e.block_bitmap = d.block_bitmap
    BY DEF Lengthened
  <2>2. QED
    BY <1>2, <2>1 DEF Allocated, Spare
<1>4. ASSUME NEW j \in L, NEW k \in L, NEW x \in Places(e, j), NEW y \in Places(e, k),
             BlockOf(e, j, x) = BlockOf(e, k, y)
      PROVE  j = k /\ x = y
  <2>1. \/ j = i /\ x = n /\ BlockOf(e, j, x) = b
        \/ x \in Places(d, j) /\ BlockOf(e, j, x) = BlockOf(d, j, x)
    BY <1>2
  <2>2. \/ k = i /\ y = n /\ BlockOf(e, k, y) = b
        \/ y \in Places(d, k) /\ BlockOf(e, k, y) = BlockOf(d, k, y)
    BY <1>2
  <2>3. QED
    BY <1>4, <2>1, <2>2 DEF Allocated, Spare
<1>5. QED
  BY <1>1, <1>3, <1>4 DEF Allocated

\* A file that gets one block more disturbs nothing.
LEMMA FileGrows ==
    ASSUME NEW d \in Disk, NEW L, Tree(d, L), NEW i \in L, ~IsDir(d, i), NEW n, NEW b,
           Spare(d, L, b), NEW e, Lengthened(d, e, i, n, b)
    PROVE  SameDirs(d, e, L) /\ Tree(e, L)
<1>1. L \subseteq Inode /\ Allocated(d, L)
  BY DEF Tree
<1>2. Allocated(e, L)
  BY <1>1, LengthenedAllocated
<1>3. ASSUME NEW j \in L PROVE SameDir(d, e, j)
  <2>1. IsDir(e, j) <=> IsDir(d, j)
    BY <1>1 DEF Lengthened
  <2>2. ASSUME IsDir(d, j)
        PROVE  Places(e, j) = Places(d, j) /\ \A x : /\ BlockOf(e, j, x) = BlockOf(d, j, x)
                                                     /\ BlockAt(e, j, x) = BlockAt(d, j, x)
    <3>1. j \in Inode \ {i} /\ e.data = d.data
      BY <1>1, <2>2 DEF Lengthened
    <3>2. Places(e, j) = Places(d, j) /\ \A x : BlockOf(e, j, x) = BlockOf(d, j, x)
      BY <3>1 DEF Lengthened
    <3>3. QED
      BY <3>1, <3>2 DEF BlockAt, BlockOf
  <2>3. QED
    BY <2>1, <2>2 DEF SameDir
<1>4. SameDirs(d, e, L)
  BY <1>3 DEF SameDirs
<1>5. QED
  BY <1>2, <1>4, SameDirsTree

\* What a block that is written leaves as it was.
LEMMA PutData ==
    ASSUME NEW d \in Disk, NEW b \in Block, NEW content \in Content, NEW e,
           e = [d EXCEPT !.data[b] = content]
    PROVE  /\ e \in Disk /\ e.data[b] = content
           /\ e.inode_table = d.inode_table
           /\ e.inode_bitmap = d.inode_bitmap /\ e.block_bitmap = d.block_bitmap
           /\ \A i : /\ Places(e, i) = Places(d, i) /\ (IsDir(e, i) <=> IsDir(d, i))
                     /\ \A x : /\ BlockOf(e, i, x) = BlockOf(d, i, x)
                               /\ BlockOf(d, i, x) = b => BlockAt(e, i, x) = content
                               /\ BlockOf(d, i, x) \in Block \ {b} => BlockAt(e, i, x) = BlockAt(d, i, x)
           /\ \A L : Allocated(d, L) => Allocated(e, L)
<1>1. /\ e \in Disk /\ e.data[b] = content
      /\ e.inode_table = d.inode_table
      /\ e.inode_bitmap = d.inode_bitmap /\ e.block_bitmap = d.block_bitmap
      /\ \A a \in Block \ {b} : e.data[a] = d.data[a]
  BY DEF Disk
<1>2. \A i : /\ Places(e, i) = Places(d, i) /\ (IsDir(e, i) <=> IsDir(d, i))
             /\ \A x : BlockOf(e, i, x) = BlockOf(d, i, x)
  BY <1>1 DEF Places, IsDir, BlockOf
<1>3. \A i, x : /\ BlockOf(d, i, x) = b => BlockAt(e, i, x) = content
                /\ BlockOf(d, i, x) \in Block \ {b} => BlockAt(e, i, x) = BlockAt(d, i, x)
  BY <1>1 DEF BlockAt, BlockOf
<1>4. \A L : Allocated(d, L) => Allocated(e, L)
  BY <1>1, <1>2 DEF Allocated
<1>5. QED
  BY <1>1, <1>2, <1>3, <1>4

\* Writing a block that is no directory's disturbs nothing.
LEMMA FileFilled ==
    ASSUME NEW d \in Disk, NEW L, Tree(d, L), NEW b \in Block, NEW content \in Content,
           \A i \in DirsOf(d, L) : \A x \in Places(d, i) : BlockOf(d, i, x) # b,
           NEW e, e = [d EXCEPT !.data[b] = content]
    PROVE  SameDirs(d, e, L) /\ Tree(e, L)
<1>1. L \subseteq Inode /\ Allocated(d, L)
  BY DEF Tree
<1>2. Allocated(e, L)
  BY <1>1, PutData
<1>3. ASSUME NEW j \in L PROVE SameDir(d, e, j)
  <2>1. IsDir(e, j) <=> IsDir(d, j)
    BY PutData
  <2>2. ASSUME IsDir(d, j), NEW x \in Places(d, j)
        PROVE  BlockOf(e, j, x) = BlockOf(d, j, x) /\ BlockAt(e, j, x) = BlockAt(d, j, x)
    <3>1. j \in Inode /\ j \in DirsOf(d, L)
      BY <1>1, <2>2 DEF DirsOf
    <3>2. BlockOf(d, j, x) \in Block \ {b}
      BY <3>1, PlacesType
    <3>3. QED
      BY <3>2, PutData
  <2>3. Places(e, j) = Places(d, j)
    BY PutData
  <2>4. QED
    BY <2>1, <2>2, <2>3 DEF SameDir
<1>4. SameDirs(d, e, L)
  BY <1>3 DEF SameDirs
<1>5. QED
  BY <1>2, <1>4, SameDirsTree

\* Directory c names on disk e what it names on disk d, but for one name.
OneName(d, e, c) ==
    \E a : \A t : t # a => (t \in NamesOf(d, c) <=> t \in NamesOf(e, c))

\* The names of a directory in order are those at its spots.
LEMMA SpotNames ==
    ASSUME NEW d \in Disk, NEW L, NEW i \in Inode, IsDir(d, i), DirInOrder(d, L, i)
    PROVE  \A t : t \in NamesOf(d, i) <=>
             \E x \in Places(d, i) : \E p \in Spots(d, i, x) :
                t = <<NameAt(d, i, x, p), InodeAt(d, i, x, p)>>
<1>1. \A e : e \in EntriesOf(d, i) <=>
             \E x \in Places(d, i) : \E p \in Spots(d, i, x) :
                e = <<BlockOf(d, i, x), At(BlockAt(d, i, x), p)>>
  BY SpotEntries
<1>2. TAKE t
<1>3. ASSUME t \in NamesOf(d, i)
      PROVE  \E x \in Places(d, i) : \E p \in Spots(d, i, x) :
                t = <<NameAt(d, i, x, p), InodeAt(d, i, x, p)>>
  <2>1. PICK e \in EntriesOf(d, i) : t = <<e[2].name, e[2].inode>>
    BY <1>3 DEF NamesOf
  <2>2. PICK x \in Places(d, i) :
                \E p \in Spots(d, i, x) : e = <<BlockOf(d, i, x), At(BlockAt(d, i, x), p)>>
    BY <1>1, <2>1
  <2>3. QED
    BY <2>1, <2>2 DEF NameAt, InodeAt
<1>4. ASSUME NEW x \in Places(d, i), NEW p \in Spots(d, i, x),
             t = <<NameAt(d, i, x, p), InodeAt(d, i, x, p)>>
      PROVE  t \in NamesOf(d, i)
  <2> DEFINE e == <<BlockOf(d, i, x), At(BlockAt(d, i, x), p)>>
  <2>1. e \in EntriesOf(d, i)
    BY <1>1
  <2>2. t = <<e[2].name, e[2].inode>>
    BY <1>4 DEF NameAt, InodeAt
  <2> HIDE DEF e
  <2>3. QED
    BY <2>1, <2>2 DEF NamesOf
<1>5. QED
  BY <1>3, <1>4

\* Inode k is allocated and in no use, with the directory block that
\* new_dir_entry gave it if it is a directory, under directory c.
Ready(d, L, k, c) ==
    /\ k \in Inode \ L /\ Allocated(d, L \cup {k})
    /\ IsDir(d, k) => Places(d, k) = {0} /\ BlockAt(d, k, 0) = DirImage(k, c)

\* Disk e differs from disk d in one block of directory c of L.
OneBlock(d, e, L, c, x, content) ==
    /\ e \in Disk /\ SameDirs(d, e, L \ {c}) /\ IsDir(e, c) /\ Places(e, c) = Places(d, c)
    /\ BlockAt(e, c, x) = content
    /\ \A y \in Places(d, c) : y # x => BlockAt(e, c, y) = BlockAt(d, c, y)
    /\ \A y : BlockOf(e, c, y) = BlockOf(d, c, y)

\* The block of one directory is written.
LEMMA DirWritten ==
    ASSUME NEW d \in Disk, NEW L, Tree(d, L), NEW c \in DirsOf(d, L), NEW x \in Places(d, c),
           NEW content \in Content, NEW e, e = [d EXCEPT !.data[BlockOf(d, c, x)] = content]
    PROVE  OneBlock(d, e, L, c, x, content)
<1>1. L \subseteq Inode /\ Allocated(d, L) /\ c \in L /\ IsDir(d, c) /\ c \in Inode
  BY DEF Tree, DirsOf
<1> DEFINE b == BlockOf(d, c, x)
<1>2. b \in Block
  BY <1>1, PlacesType
<1>3. ASSUME NEW j \in L, NEW y \in Places(d, j), ~(j = c /\ y = x)
      PROVE  BlockOf(d, j, y) \in Block \ {b}
  <2>1. BlockOf(d, j, y) \in Block
    BY <1>1, PlacesType
  <2>2. QED
    BY <1>1, <1>3, <2>1 DEF Allocated
<1> HIDE DEF b
<1>4. e = [d EXCEPT !.data[b] = content]
  BY DEF b
<1>5. ASSUME NEW j \in L \ {c} PROVE SameDir(d, e, j)
  <2>1. /\ IsDir(e, j) <=> IsDir(d, j)
        /\ Places(e, j) = Places(d, j)
    BY <1>2, <1>4, PutData
  <2>2. ASSUME NEW y \in Places(d, j)
        PROVE  BlockOf(e, j, y) = BlockOf(d, j, y) /\ BlockAt(e, j, y) = BlockAt(d, j, y)
    <3>1. BlockOf(d, j, y) \in Block \ {b}
      BY <1>3
    <3>2. QED
      BY <1>2, <1>4, <3>1, PutData
  <2>3. QED
    BY <2>1, <2>2 DEF SameDir
<1>6. \A y \in Places(d, c) : y # x => BlockAt(e, c, y) = BlockAt(d, c, y)
  BY <1>1, <1>2, <1>3, <1>4, PutData
<1>7. BlockAt(e, c, x) = content
  <2>1. BlockOf(d, c, x) = b
    BY DEF b
  <2>2. QED
    BY <1>2, <1>4, <2>1, PutData
<1>8. /\ e \in Disk /\ IsDir(e, c) /\ Places(e, c) = Places(d, c)
      /\ \A y : BlockOf(e, c, y) = BlockOf(d, c, y)
  BY <1>1, <1>2, <1>4, PutData
<1>9. SameDirs(d, e, L \ {c})
  BY <1>5 DEF SameDirs
<1>10. QED
  BY <1>6, <1>7, <1>8, <1>9 DEF OneBlock

\* search_free_dir_in_block puts the entry of a new inode in a block of the
\* directory that has room for it.
LEMMA LinkInBlock ==
    ASSUME NEW d \in Disk, NEW L, Tree(d, L), NEW c \in DirsOf(d, L),
           NEW k, Ready(d, L, k, c), NEW name \in Names,
           \A x \in Places(d, c) : \A p \in Spots(d, c, x) : NameAt(d, c, x, p) # name,
           NEW X \in Places(d, c), CanInsert(BlockAt(d, c, X), name), NEW e,
           e = [d EXCEPT !.data[BlockOf(d, c, X)] = Insert(BlockAt(d, c, X), k, name)]
    PROVE  /\ Tree(e, L \cup {k}) /\ SameDirs(d, e, L \ {c}) /\ IsDir(e, c)
           /\ Overwritten(BlockAt(d, c, X), k, name) = {} => OneName(d, e, c)
<1> DEFINE img == BlockAt(d, c, X)
           new == Insert(img, k, name)
<1>1. /\ L \subseteq Inode /\ Allocated(d, L) /\ c \in L /\ IsDir(d, c) /\ c \in Inode
      /\ DirInOrder(d, L, c) /\ k \in Inode \ L /\ Allocated(d, L \cup {k})
  BY DEF Tree, DirsOf, Ready
<1>2. img \in Image /\ Tiled(img) /\ k \in 1..INODE_COUNT /\ name \in AllNames /\ CanInsert(img, name)
  BY <1>1 DEF DirInOrder, Inode, AllNames
<1>3. /\ Tiled(new) /\ \A i, j : Header(img, i, j) => Header(new, i, j)
      /\ \E n \in Walk(new) : /\ n \notin Walk(img)
                              /\ At(new, n).inode = k /\ At(new, n).name = name
                              /\ \A p \in Walk(new) \ {n} : p \in Walk(img) /\ SameEntry(img, new, p)
  BY <1>2, InsertOrder
<1>4. PICK n \in Walk(new) : /\ n \notin Walk(img)
                             /\ At(new, n).inode = k /\ At(new, n).name = name
                             /\ \A p \in Walk(new) \ {n} : p \in Walk(img) /\ SameEntry(img, new, p)
  BY <1>3
<1>5. new \in Image
  BY <1>2, InsertType DEF Inode
<1>6. e = [d EXCEPT !.data[BlockOf(d, c, X)] = new]
  OBVIOUS
<1>7. Overwritten(img, k, name) = {} => \A p \in Walk(img) : p \in Walk(new) /\ SameEntry(img, new, p)
  BY DEF Overwritten, SameEntry
<1> HIDE DEF new
<1>8. new \in Content
  BY <1>5 DEF Content
<1>9. /\ e \in Disk /\ SameDirs(d, e, L \ {c}) /\ IsDir(e, c) /\ Places(e, c) = Places(d, c)
      /\ BlockAt(e, c, X) = new
      /\ \A y \in Places(d, c) : y # X => BlockAt(e, c, y) = BlockAt(d, c, y)
  <2>1. OneBlock(d, e, L, c, X, new)
    BY <1>6, <1>8, DirWritten
  <2>2. QED
    BY <2>1 DEF OneBlock
<1>10. BlockOf(d, c, X) \in Block
  BY <1>1, PlacesType
<1>11. Allocated(e, L \cup {k})
  BY <1>1, <1>6, <1>8, <1>10, PutData
<1>12. Rewritten(d, e, c)
  <2>1. ASSUME NEW x \in Places(e, c) PROVE BlockAt(e, c, x) \in Image /\ Tiled(BlockAt(e, c, x))
    BY <1>1, <1>3, <1>5, <1>9 DEF DirInOrder
  <2>2. Header(BlockAt(e, c, 0), c, Up(d, c))
    <3>1. Header(BlockAt(d, c, 0), c, Up(d, c)) /\ 0 \in Places(d, c)
      BY <1>1 DEF DirInOrder
    <3>2. QED
      BY <1>3, <1>9, <3>1
  <2>3. QED
    BY <1>1, <1>9, <2>1, <2>2 DEF Rewritten, DirInOrder
<1>13. ASSUME NEW x \in Places(e, c), NEW p \in Spots(e, c, x)
       PROVE  \/ Kept(d, e, c, x, p)
              \/ x = X /\ p = n /\ NameAt(e, c, x, p) = name /\ InodeAt(e, c, x, p) = k
  <2>1. CASE x # X
    BY <1>9, <1>13, <2>1 DEF Kept, Spots, NameAt, InodeAt
  <2>2. CASE x = X /\ p = n
    BY <1>4, <1>9, <2>2 DEF NameAt, InodeAt
  <2>3. CASE x = X /\ p # n
    <3>1. p \in Walk(new) \ {n} /\ ~(X = 0 /\ p \in {0, 8})
      BY <1>9, <1>13, <2>3 DEF Spots
    <3>2. p \in Walk(img) /\ SameEntry(img, new, p)
      BY <1>4, <3>1
    <3>3. QED
      BY <1>9, <2>3, <3>1, <3>2 DEF Kept, Spots, NameAt, InodeAt, SameEntry
  <2>4. QED
    BY <2>1, <2>2, <2>3
<1>14. IsDir(e, k) => Places(e, k) = {0} /\ BlockAt(e, k, 0) = DirImage(k, c)
  <2>1. Places(e, k) = Places(d, k) /\ (IsDir(e, k) <=> IsDir(d, k))
    BY <1>6, <1>8, <1>10, PutData
  <2>2. SUFFICES ASSUME IsDir(d, k) PROVE BlockAt(e, k, 0) = DirImage(k, c)
    BY <2>1 DEF Ready
  <2>3. Places(d, k) = {0} /\ BlockAt(d, k, 0) = DirImage(k, c)
    BY <2>2 DEF Ready
  <2>4. BlockOf(d, k, 0) \in Block
    BY <1>1, <2>3, PlacesType
  <2>5. BlockOf(d, k, 0) # BlockOf(d, c, X)
    BY <1>1, <2>3 DEF Allocated
  <2>6. QED
    BY <1>6, <1>8, <1>10, <2>3, <2>4, <2>5, PutData
<1>15. Tree(e, L \cup {k})
  BY <1>1, <1>9, <1>11, <1>12, <1>13, <1>14, GrowDir
<1>16. ASSUME Overwritten(img, k, name) = {} PROVE OneName(d, e, c)
  <2>1. ASSUME NEW x \in Places(d, c), NEW p \in Spots(d, c, x)
        PROVE  /\ x \in Places(e, c) /\ p \in Spots(e, c, x)
               /\ NameAt(e, c, x, p) = NameAt(d, c, x, p) /\ InodeAt(e, c, x, p) = InodeAt(d, c, x, p)
    <3>1. CASE x # X
      BY <1>9, <2>1, <3>1 DEF Spots, NameAt, InodeAt
    <3>2. CASE x = X
      <4>1. p \in Walk(new) /\ SameEntry(img, new, p)
        BY <1>7, <1>16, <2>1, <3>2 DEF Spots
      <4>2. QED
        BY <1>9, <2>1, <3>2, <4>1 DEF Spots, NameAt, InodeAt, SameEntry
    <3>3. QED
      BY <3>1, <3>2
  <2>2. DirInOrder(e, L \cup {k}, c)
    BY <1>1, <1>9, <1>15 DEF Tree, DirsOf
  <2>3. \A t : t \in NamesOf(d, c) <=> \E x \in Places(d, c) : \E p \in Spots(d, c, x) :
                t = <<NameAt(d, c, x, p), InodeAt(d, c, x, p)>>
    BY <1>1, SpotNames
  <2>4. \A t : t \in NamesOf(e, c) <=> \E x \in Places(e, c) : \E p \in Spots(e, c, x) :
                t = <<NameAt(e, c, x, p), InodeAt(e, c, x, p)>>
    BY <1>1, <1>9, <2>2, SpotNames
  <2>5. ASSUME NEW t, t # <<name, k>> PROVE t \in NamesOf(d, c) <=> t \in NamesOf(e, c)
    <3>1. ASSUME t \in NamesOf(d, c) PROVE t \in NamesOf(e, c)
      BY <2>1, <2>3, <2>4, <3>1
    <3>2. ASSUME t \in NamesOf(e, c) PROVE t \in NamesOf(d, c)
      <4>1. PICK x \in Places(e, c) : \E p \in Spots(e, c, x) :
                t = <<NameAt(e, c, x, p), InodeAt(e, c, x, p)>>
        BY <2>4, <3>2
      <4>2. PICK p \in Spots(e, c, x) : t = <<NameAt(e, c, x, p), InodeAt(e, c, x, p)>>
        BY <4>1
      <4>3. Kept(d, e, c, x, p)
        BY <1>13, <2>5, <4>2
      <4>4. QED
        BY <2>3, <4>2, <4>3 DEF Kept
    <3>3. QED
      BY <3>1, <3>2
  <2>6. QED
    BY <2>5 DEF OneName
<1>17. QED
  BY <1>9, <1>15, <1>16

\* Where no block has room the entry begins a new one.
LEMMA LinkInNewBlock ==
    ASSUME NEW d \in Disk, NEW L, Tree(d, L), NEW c \in DirsOf(d, L),
           NEW k, Ready(d, L, k, c), NEW name \in Names,
           \A x \in Places(d, c) : \A p \in Spots(d, c, x) : NameAt(d, c, x, p) # name,
           NEW n, NEW b \in Block, Spare(d, L \cup {k}, b), NEW f, Lengthened(d, f, c, n, b), NEW e,
           e = [f EXCEPT !.data[b] = FirstEntry(k, name)]
    PROVE  /\ Tree(e, L \cup {k}) /\ SameDirs(d, e, L \ {c}) /\ IsDir(e, c)
           /\ OneName(d, e, c)
<1> DEFINE new == FirstEntry(k, name)
           M == L \cup {k}
<1>1. /\ L \subseteq Inode /\ c \in L /\ IsDir(d, c) /\ c \in Inode
      /\ DirInOrder(d, L, c) /\ k \in Inode \ L /\ Allocated(d, M) /\ M \subseteq Inode
  BY DEF Tree, DirsOf, Ready
<1>2. /\ f \in Disk /\ f.data = d.data /\ n \notin Places(d, c)
      /\ Places(f, c) = Places(d, c) \cup {n} /\ BlockOf(f, c, n) = b
      /\ \A x \in Places(d, c) : BlockOf(f, c, x) = BlockOf(d, c, x)
      /\ \A j \in Inode : IsDir(f, j) <=> IsDir(d, j)
      /\ \A j \in Inode \ {c} : /\ Places(f, j) = Places(d, j)
                                /\ \A x : BlockOf(f, j, x) = BlockOf(d, j, x)
  BY DEF Lengthened
<1>3. /\ Tiled(new) /\ Walk(new) = {0} /\ At(new, 0).inode = k /\ At(new, 0).name = name
      /\ new \in Image
  <2>1. k \in 1..INODE_COUNT /\ name \in AllNames
    BY <1>1 DEF Inode, AllNames
  <2>2. k \in 0..INODE_COUNT
    BY <2>1, SizesAssumption
  <2>3. new \in Image
    BY <2>1, <2>2, NewBlockType
  <2>4. QED
    BY <2>1, <2>3, FirstEntryOrder
<1> HIDE DEF new, M
<1>4. new \in Content /\ e = [f EXCEPT !.data[b] = new]
  BY <1>3 DEF Content, new
<1>5. Allocated(f, M)
  <2>1. c \in M /\ Spare(d, M, b)
    BY <1>1 DEF M
  <2>2. QED
    BY <1>1, <2>1, LengthenedAllocated
<1>6. Allocated(e, M)
  BY <1>2, <1>4, <1>5, PutData
<1>7. ASSUME NEW j \in M, NEW x \in Places(d, j)
      PROVE  BlockOf(d, j, x) \in Block \ {b}
  <2>1. BlockOf(d, j, x) \in Block
    BY <1>1, PlacesType
  <2>2. BlockOf(d, j, x) # b
    BY DEF Spare, M
  <2>3. QED
    BY <2>1, <2>2
<1>8. /\ e \in Disk
      /\ \A i : /\ Places(e, i) = Places(f, i) /\ (IsDir(e, i) <=> IsDir(f, i))
                /\ \A x : /\ BlockOf(e, i, x) = BlockOf(f, i, x)
                          /\ BlockOf(f, i, x) = b => BlockAt(e, i, x) = new
                          /\ BlockOf(f, i, x) \in Block \ {b} => BlockAt(e, i, x) = BlockAt(f, i, x)
  BY <1>2, <1>4, PutData
<1>9. \A i, x : BlockOf(f, i, x) = BlockOf(d, i, x) => BlockAt(f, i, x) = BlockAt(d, i, x)
  BY <1>2 DEF BlockAt, BlockOf
<1>10. ASSUME NEW j \in M \ {c}, NEW x \in Places(d, j)
       PROVE  BlockOf(e, j, x) = BlockOf(d, j, x) /\ BlockAt(e, j, x) = BlockAt(d, j, x)
  <2>1. BlockOf(f, j, x) = BlockOf(d, j, x)
    BY <1>1, <1>2
  <2>2. QED
    BY <1>7, <1>8, <1>9, <2>1
<1>11. ASSUME NEW j \in M \ {c}
       PROVE  (IsDir(e, j) <=> IsDir(d, j)) /\ Places(e, j) = Places(d, j)
  BY <1>1, <1>2, <1>8
<1>12. SameDirs(d, e, L \ {c})
  <2>1. ASSUME NEW j \in L \ {c} PROVE SameDir(d, e, j)
    <3>1. j \in M \ {c}
      BY DEF M
    <3>2. QED
      BY <1>10, <1>11, <3>1 DEF SameDir
  <2>2. QED
    BY <2>1 DEF SameDirs
<1>13. /\ IsDir(e, c) /\ Places(e, c) = Places(d, c) \cup {n} /\ BlockAt(e, c, n) = new
  BY <1>1, <1>2, <1>8
<1>14. ASSUME NEW x \in Places(d, c) PROVE BlockAt(e, c, x) = BlockAt(d, c, x)
  <2>1. c \in M
    BY <1>1 DEF M
  <2>2. QED
    BY <1>2, <1>7, <1>8, <1>9, <2>1
<1>15. 0 \in Places(d, c) /\ n # 0
  BY <1>1, <1>2 DEF DirInOrder
<1>16. Rewritten(d, e, c)
  <2>1. ASSUME NEW x \in Places(e, c) PROVE BlockAt(e, c, x) \in Image /\ Tiled(BlockAt(e, c, x))
    BY <1>1, <1>3, <1>13, <1>14 DEF DirInOrder
  <2>2. Header(BlockAt(e, c, 0), c, Up(d, c))
    BY <1>1, <1>14, <1>15 DEF DirInOrder
  <2>3. QED
    BY <1>13, <1>15, <2>1, <2>2 DEF Rewritten
<1>17. ASSUME NEW x \in Places(e, c), NEW p \in Spots(e, c, x)
       PROVE  \/ Kept(d, e, c, x, p)
              \/ x = n /\ p = 0 /\ NameAt(e, c, x, p) = name /\ InodeAt(e, c, x, p) = k
  <2>1. CASE x # n
    BY <1>13, <1>14, <1>17, <2>1 DEF Kept, Spots, NameAt, InodeAt
  <2>2. CASE x = n
    BY <1>3, <1>13, <1>15, <1>17, <2>2 DEF Spots, NameAt, InodeAt
  <2>3. QED
    BY <2>1, <2>2
<1>18. IsDir(e, k) => Places(e, k) = {0} /\ BlockAt(e, k, 0) = DirImage(k, c)
  <2>1. k \in M \ {c}
    BY <1>1 DEF M
  <2>2. QED
    BY <1>10, <1>11, <2>1 DEF Ready
<1>19. Tree(e, L \cup {k})
  BY <1>1, <1>6, <1>12, <1>16, <1>17, <1>18, GrowDir DEF M
<1>20. OneName(d, e, c)
  <2>1. ASSUME NEW x \in Places(d, c), NEW p \in Spots(d, c, x)
        PROVE  /\ x \in Places(e, c) /\ p \in Spots(e, c, x)
               /\ NameAt(e, c, x, p) = NameAt(d, c, x, p) /\ InodeAt(e, c, x, p) = InodeAt(d, c, x, p)
    BY <1>13, <1>14, <2>1 DEF Spots, NameAt, InodeAt
  <2>2. DirInOrder(e, L \cup {k}, c)
    BY <1>1, <1>13, <1>19 DEF Tree, DirsOf
  <2>3. \A t : t \in NamesOf(d, c) <=> \E x \in Places(d, c) : \E p \in Spots(d, c, x) :
                t = <<NameAt(d, c, x, p), InodeAt(d, c, x, p)>>
    BY <1>1, SpotNames
  <2>4. \A t : t \in NamesOf(e, c) <=> \E x \in Places(e, c) : \E p \in Spots(e, c, x) :
                t = <<NameAt(e, c, x, p), InodeAt(e, c, x, p)>>
    BY <1>1, <1>8, <1>13, <2>2, SpotNames
  <2>5. ASSUME NEW t, t # <<name, k>> PROVE t \in NamesOf(d, c) <=> t \in NamesOf(e, c)
    <3>1. ASSUME t \in NamesOf(d, c) PROVE t \in NamesOf(e, c)
      BY <2>1, <2>3, <2>4, <3>1
    <3>2. ASSUME t \in NamesOf(e, c) PROVE t \in NamesOf(d, c)
      <4>1. PICK x \in Places(e, c) : \E p \in Spots(e, c, x) :
                t = <<NameAt(e, c, x, p), InodeAt(e, c, x, p)>>
        BY <2>4, <3>2
      <4>2. PICK p \in Spots(e, c, x) : t = <<NameAt(e, c, x, p), InodeAt(e, c, x, p)>>
        BY <4>1
      <4>3. Kept(d, e, c, x, p)
        BY <1>17, <2>5, <4>2
      <4>4. QED
        BY <2>3, <4>2, <4>3 DEF Kept
    <3>3. QED
      BY <3>1, <3>2
  <2>6. QED
    BY <2>5 DEF OneName
<1>21. QED
  BY <1>12, <1>13, <1>19, <1>20

\* What delete_in_block writes: the block of the first hit, and no other, has
\* the name.
LEMMA HitsOne ==
    ASSUME NEW d \in Disk, NEW L, NEW c \in Inode, DirInOrder(d, L, c), NEW name,
           Hits(d, c, name) # {}, NEW X, X = Min(Hits(d, c, name)), NEW b \in Block
    PROVE  /\ X \in Places(d, c) /\ Matches(BlockAt(d, c, X), name) # {}
           /\ (/\ \E x \in 0..X : d.inode_table[c].i_block[x] = b
               /\ d.data[b] # FileBytes
               /\ Matches(d.data[b], name) # {}) <=> b = BlockOf(d, c, X)
<1>1. X \in Places(d, c) /\ Find(BlockAt(d, c, X), name) # 0
  BY FirstHit DEF Places
<1>2. Places(d, c) \subseteq Nat /\ \A x \in Places(d, c) : 0..x \subseteq Places(d, c)
  <2>1. d.inode_table[c] \in InodeEntry
    BY DEF Disk
  <2>2. d.inode_table[c].i_blocks \in Nat
    BY <2>1, VolumeAssumption DEF InodeEntry
  <2>3. QED
    BY <2>2 DEF Places
<1>3. ASSUME NEW x \in Places(d, c)
      PROVE  /\ BlockAt(d, c, x) # FileBytes
             /\ Find(BlockAt(d, c, x), name) # 0 <=> Matches(BlockAt(d, c, x), name) # {}
             /\ BlockAt(d, c, x) = d.data[BlockOf(d, c, x)]
  <2>1. BlockAt(d, c, x) \in Image /\ Tiled(BlockAt(d, c, x))
    BY DEF DirInOrder
  <2>2. QED
    BY <2>1, TiledFind, ContentAssumption DEF BlockAt, BlockOf
<1>4. \A x \in Hits(d, c, name) : X <= x
  <2>1. Hits(d, c, name) \subseteq Nat
    BY <1>2 DEF Hits, Places
  <2>2. QED
    BY <2>1, MinOfNats
<1>5. ASSUME NEW x \in 0..X, BlockOf(d, c, x) = b, Matches(d.data[b], name) # {}
      PROVE  x = X
  <2>1. x \in Places(d, c) /\ x \in Nat /\ X \in Nat /\ x <= X
    BY <1>1, <1>2
  <2>2. Find(BlockAt(d, c, x), name) # 0
    BY <1>3, <1>5, <2>1
  <2>3. x \in Hits(d, c, name)
    BY <2>1, <2>2 DEF Hits, Places
  <2>4. QED
    BY <1>4, <2>1, <2>3
<1>6. ASSUME b = BlockOf(d, c, X)
      PROVE  /\ X \in 0..X /\ d.data[b] # FileBytes /\ Matches(d.data[b], name) # {}
  BY <1>1, <1>2, <1>3, <1>6
<1>7. QED
  BY <1>1, <1>3, <1>5, <1>6 DEF BlockOf

\* A name that leaves directory c with the inode k it leads to.
LEMMA UnlinkEntry ==
    ASSUME NEW d \in Disk, NEW L, Tree(d, L), NEW c \in DirsOf(d, L), NEW name \in Names,
           NEW X \in Places(d, c), NEW img, img = BlockAt(d, c, X), Matches(img, name) # {},
           Min(Matches(img, name)) # 0, NEW k, k = Find(img, name), k # c, NEW e,
           e = [d EXCEPT !.data[BlockOf(d, c, X)] = Delete(img, name)]
    PROVE  /\ Tree(e, L \ {k}) /\ SameDirs(d, e, L \ {c}) /\ IsDir(e, c)
           /\ OneName(d, e, c) /\ Allocated(e, L)
<1> DEFINE new == Delete(img, name)
           m == Min(Matches(img, name))
           M == L \ {k}
<1>1. /\ L \subseteq Inode /\ Allocated(d, L) /\ c \in L /\ IsDir(d, c) /\ c \in Inode
      /\ DirInOrder(d, L, c) /\ NamedOnce(d, L)
  BY DEF Tree, DirsOf
<1>2. img \in Image /\ Tiled(img)
  BY <1>1 DEF DirInOrder
<1>3. m \in Walk(img) /\ At(img, m).name = name /\ k = At(img, m).inode /\ m # 0
  BY <1>2, TiledFind
<1>4. /\ Tiled(new) /\ Walk(new) = Walk(img) \ {m}
      /\ \A p \in Walk(new) : SameEntry(img, new, p)
      /\ \A i, j : Header(img, i, j) => Header(new, i, j)
  BY <1>2, DeleteOrder
<1>5. new \in Image /\ new \in Content
  BY <1>2, DeleteType DEF Content
<1>6. e = [d EXCEPT !.data[BlockOf(d, c, X)] = new]
  OBVIOUS
<1> HIDE DEF new, m, M
<1>7. /\ e \in Disk /\ SameDirs(d, e, L \ {c}) /\ IsDir(e, c) /\ Places(e, c) = Places(d, c)
      /\ BlockAt(e, c, X) = new
      /\ \A y \in Places(d, c) : y # X => BlockAt(e, c, y) = BlockAt(d, c, y)
  <2>1. OneBlock(d, e, L, c, X, new)
    BY <1>5, <1>6, DirWritten
  <2>2. QED
    BY <2>1 DEF OneBlock
<1>8. m \in Spots(d, c, X) /\ InodeAt(d, c, X, m) = k
  <2>1. X = 0 => m # 8
    <3>1. Header(BlockAt(d, c, 0), c, Up(d, c))
      BY <1>1 DEF DirInOrder
    <3>2. X = 0 => At(img, 8).name = ".."
      BY <3>1 DEF Header
    <3>3. QED
      BY <1>3, <3>2, NamesAssumption
  <2>2. QED
    BY <1>3, <2>1 DEF Spots, InodeAt
<1>9. EntryInOrder(d, L, c, X, m)
  BY <1>1, <1>8 DEF DirInOrder
<1>10. k # ROOT
  BY <1>8, <1>9 DEF EntryInOrder
<1>11. Allocated(e, L)
  <2>1. BlockOf(d, c, X) \in Block
    BY <1>1, PlacesType
  <2>2. QED
    BY <1>1, <1>5, <1>6, <2>1, PutData
<1>12. Allocated(e, M)
  BY <1>11 DEF Allocated, M
<1>13. Rewritten(d, e, c)
  <2>1. ASSUME NEW x \in Places(e, c) PROVE BlockAt(e, c, x) \in Image /\ Tiled(BlockAt(e, c, x))
    BY <1>1, <1>4, <1>5, <1>7 DEF DirInOrder
  <2>2. Header(BlockAt(e, c, 0), c, Up(d, c))
    <3>1. Header(BlockAt(d, c, 0), c, Up(d, c)) /\ 0 \in Places(d, c)
      BY <1>1 DEF DirInOrder
    <3>2. QED
      BY <1>4, <1>7, <3>1
  <2>3. QED
    BY <1>1, <1>7, <2>1, <2>2 DEF Rewritten, DirInOrder
<1>14. ASSUME NEW x \in Places(e, c), NEW p \in Spots(e, c, x)
       PROVE  Kept(d, e, c, x, p) /\ ~(x = X /\ p = m)
  <2>1. CASE x # X
    BY <1>7, <1>14, <2>1 DEF Kept, Spots, NameAt, InodeAt
  <2>2. CASE x = X
    <3>1. p \in Walk(new) /\ ~(X = 0 /\ p \in {0, 8})
      BY <1>7, <1>14, <2>2 DEF Spots
    <3>2. p \in Walk(img) /\ p # m /\ SameEntry(img, new, p)
      BY <1>4, <3>1
    <3>3. QED
      BY <1>7, <2>2, <3>1, <3>2 DEF Kept, Spots, NameAt, InodeAt, SameEntry
  <2>3. QED
    BY <2>1, <2>2
<1>15. ASSUME NEW x \in Places(e, c), NEW p \in Spots(e, c, x)
       PROVE  InodeAt(e, c, x, p) # k
  <2>1. Kept(d, e, c, x, p) /\ ~(x = X /\ p = m)
    BY <1>14
  <2>2. InodeAt(d, c, x, p) # k
    BY <1>1, <1>8, <2>1 DEF NamedOnce, Kept
  <2>3. QED
    BY <2>1, <2>2 DEF Kept
<1>16. Tree(e, L \ {k})
  BY <1>7, <1>8, <1>10, <1>12, <1>13, <1>14, <1>15, ShrinkDir DEF M
<1>17. OneName(d, e, c)
  <2>1. ASSUME NEW x \in Places(d, c), NEW p \in Spots(d, c, x), ~(x = X /\ p = m)
        PROVE  /\ x \in Places(e, c) /\ p \in Spots(e, c, x)
               /\ NameAt(e, c, x, p) = NameAt(d, c, x, p) /\ InodeAt(e, c, x, p) = InodeAt(d, c, x, p)
    <3>1. CASE x # X
      BY <1>7, <2>1, <3>1 DEF Spots, NameAt, InodeAt
    <3>2. CASE x = X
      <4>1. p \in Walk(new) /\ SameEntry(img, new, p)
        BY <1>4, <2>1, <3>2 DEF Spots
      <4>2. QED
        BY <1>7, <2>1, <3>2, <4>1 DEF Spots, NameAt, InodeAt, SameEntry
    <3>3. QED
      BY <3>1, <3>2
  <2>2. c \in M /\ c \in DirsOf(e, M)
    BY <1>1, <1>7 DEF M, DirsOf
  <2>3. DirInOrder(e, M, c)
    BY <1>16, <2>2 DEF Tree, M
  <2>4. \A t : t \in NamesOf(d, c) <=> \E x \in Places(d, c) : \E p \in Spots(d, c, x) :
                t = <<NameAt(d, c, x, p), InodeAt(d, c, x, p)>>
    BY <1>1, SpotNames
  <2>5. \A t : t \in NamesOf(e, c) <=> \E x \in Places(e, c) : \E p \in Spots(e, c, x) :
                t = <<NameAt(e, c, x, p), InodeAt(e, c, x, p)>>
    BY <1>1, <1>7, <2>3, SpotNames
  <2>6. ASSUME NEW t, t # <<name, k>> PROVE t \in NamesOf(d, c) <=> t \in NamesOf(e, c)
    <3>1. ASSUME t \in NamesOf(d, c) PROVE t \in NamesOf(e, c)
      <4>1. PICK x \in Places(d, c) : \E p \in Spots(d, c, x) :
                t = <<NameAt(d, c, x, p), InodeAt(d, c, x, p)>>
        BY <2>4, <3>1
      <4>2. PICK p \in Spots(d, c, x) : t = <<NameAt(d, c, x, p), InodeAt(d, c, x, p)>>
        BY <4>1
      <4>3. ~(x = X /\ p = m)
        BY <1>3, <2>6, <4>2 DEF NameAt, InodeAt
      <4>4. QED
        BY <2>1, <2>5, <4>2, <4>3
    <3>2. ASSUME t \in NamesOf(e, c) PROVE t \in NamesOf(d, c)
      <4>1. PICK x \in Places(e, c) : \E p \in Spots(e, c, x) :
                t = <<NameAt(e, c, x, p), InodeAt(e, c, x, p)>>
        BY <2>5, <3>2
      <4>2. PICK p \in Spots(e, c, x) : t = <<NameAt(e, c, x, p), InodeAt(e, c, x, p)>>
        BY <4>1
      <4>3. Kept(d, e, c, x, p)
        BY <1>14
      <4>4. QED
        BY <2>4, <4>2, <4>3 DEF Kept
    <3>3. QED
      BY <3>1, <3>2
  <2>7. QED
    BY <2>6 DEF OneName
<1>18. QED
  BY <1>7, <1>11, <1>16, <1>17

-----------------------------------------------------------------------------
(* Runs that keep a volume in order.                                        *)

Clean(m) == m \cap Damaging = {}

\* The state in which a command on a volume in order begins.
Ordered ==
    /\ TypeOK
    /\ Clean(mishaps) /\ "double_free" \notin mishaps
    /\ Tree(disk, Live(disk)) /\ current_dir \in DirsOf(disk, Live(disk))

\* What a command may leave: a volume in order in which only the current
\* directory has changed, and that by a name.
Fine(e, m) ==
    Clean(m) =>
        /\ "double_free" \notin m
        /\ \E M : Tree(e, M)
        /\ SameDirs(disk, e, Live(disk) \ {current_dir}) /\ IsDir(e, current_dir)
        /\ "gap_overwrite" \notin m => OneName(disk, e, current_dir)

\* The command has not failed and goes on.
Going(r) == r.status = "ok" /\ Clean(r.mishaps)

\* A run that leaves what it may, wherever it ends, and has the inodes of L in
\* order so far.  It is not lost where the counts were right.
InOrder(r, L) ==
    /\ r \in Run
    /\ \A c \in r.cuts : Fine(c.disk, c.mishaps)
    /\ Fine(r.disk, r.mishaps)
    /\ Going(r) => Tree(r.disk, L)
    /\ Level(Start, 0, 0) /\ r.status = "lost" => ~Clean(r.mishaps)

\* A run that has not changed a directory so far.
Unmoved(r) ==
    /\ InOrder(r, Live(disk))
    /\ Going(r) => SameDirs(disk, r.disk, Live(disk))

\* Nor the difference between counts and bitmaps.
Orderly(r) == Unmoved(r) /\ Keeps(Start, r, 0, 0)

\* Directories that are alike have the same names.
LEMMA SameDirNames ==
    ASSUME NEW d, NEW e, NEW i, SameDir(d, e, i)
    PROVE  /\ EntriesOf(e, i) = EntriesOf(d, i) /\ NamesOf(e, i) = NamesOf(d, i)
           /\ Children(e, i) = Children(d, i)
<1>1. EntriesOf(e, i) = EntriesOf(d, i)
  <2>1. CASE ~IsDir(d, i)
    BY <2>1 DEF SameDir, EntriesOf
  <2>2. CASE IsDir(d, i)
    <3>1. BlocksOf(d, i) = {BlockOf(d, i, x) : x \in Places(d, i)}
      BY DEF BlocksOf, BlockOf, Places
    <3>2. BlocksOf(e, i) = {BlockOf(e, i, x) : x \in Places(e, i)}
      BY DEF BlocksOf, BlockOf, Places
    <3>3. BlocksOf(e, i) = BlocksOf(d, i)
      BY <2>2, <3>1, <3>2 DEF SameDir
    <3>4. \A b \in BlocksOf(d, i) : e.data[b] = d.data[b]
      BY <2>2, <3>1 DEF SameDir, BlockAt, BlockOf
    <3>5. QED
      BY <2>2, <3>3, <3>4 DEF EntriesOf, SameDir
  <2>3. QED
    BY <2>1, <2>2
<1>2. QED
  BY <1>1 DEF NamesOf, Children

\* So what such a disk lets a command leave stays.
LEMMA FineSame ==
    ASSUME Ordered, NEW d, NEW m, Fine(d, m), NEW e,
           Clean(m) => SameDirs(d, e, Live(disk)) /\ \E M : Tree(e, M)
    PROVE  Fine(e, m)
<1> SUFFICES ASSUME Clean(m)
             PROVE  /\ "double_free" \notin m
                    /\ \E M : Tree(e, M)
                    /\ SameDirs(disk, e, Live(disk) \ {current_dir}) /\ IsDir(e, current_dir)
                    /\ "gap_overwrite" \notin m => OneName(disk, e, current_dir)
  BY DEF Fine
<1> DEFINE K == Live(disk) \ {current_dir}
<1>1. current_dir \in Live(disk)
  BY DEF Ordered, DirsOf
<1>2. /\ "double_free" \notin m /\ SameDirs(disk, d, K) /\ IsDir(d, current_dir)
      /\ "gap_overwrite" \notin m => OneName(disk, d, current_dir)
  BY DEF Fine
<1>3. SameDir(d, e, current_dir) /\ SameDirs(d, e, K)
  BY <1>1 DEF SameDirs
<1> HIDE DEF K
<1>4. SameDirs(disk, e, K)
  BY <1>2, <1>3, SameDirsTransitive
<1>5. NamesOf(e, current_dir) = NamesOf(d, current_dir)
  BY <1>3, SameDirNames
<1>6. QED
  BY <1>2, <1>3, <1>4, <1>5 DEF OneName, SameDir, K

\* Writing a block is a step of an orderly run that has changed no directory
\* if it leaves the directories as they were.
LEMMA PutInOrder ==
    ASSUME Ordered, NEW r, NEW L, InOrder(r, L), NEW d \in Disk,
           Going(r) => Tree(d, L) /\ SameDirs(r.disk, d, Live(disk))
    PROVE  /\ InOrder(Put(r, d), L) /\ (Going(Put(r, d)) <=> Going(r))
           /\ Going(r) => Put(r, d).disk = d /\ Put(r, d).mishaps = r.mishaps
           /\ Put(r, d).ret = r.ret
<1> DEFINE q == Put(r, d)
<1>1. r \in Run /\ q \in Run /\ q.ret = r.ret
  BY PutType DEF InOrder
<1>2. CASE r.status # "ok"
  BY <1>2 DEF InOrder, Going, Put
<1>3. CASE r.status = "ok"
  <2>1. /\ q.disk = d /\ q.mishaps = r.mishaps /\ q.status = "ok"
        /\ q.cuts = r.cuts \cup {[disk |-> r.disk, mishaps |-> r.mishaps]}
    BY <1>1, <1>3, PutOk
  <2> HIDE DEF q
  <2>2. Going(q) <=> Going(r)
    BY <1>3, <2>1 DEF Going
  <2>3. Fine(d, r.mishaps)
    <3>1. Clean(r.mishaps) => SameDirs(r.disk, d, Live(disk)) /\ \E M : Tree(d, M)
      BY <1>3 DEF Going
    <3>2. Fine(r.disk, r.mishaps)
      BY DEF InOrder
    <3>3. QED
      BY <3>1, <3>2, FineSame
  <2>4. ASSUME NEW c \in q.cuts PROVE Fine(c.disk, c.mishaps)
    <3>1. CASE c \in r.cuts
      BY <3>1 DEF InOrder
    <3>2. CASE c = [disk |-> r.disk, mishaps |-> r.mishaps]
      BY <3>2 DEF InOrder
    <3>3. QED
      BY <2>1, <3>1, <3>2
  <2>5. InOrder(q, L)
    BY <1>1, <2>1, <2>2, <2>3, <2>4 DEF InOrder
  <2>6. QED
    BY <1>1, <2>1, <2>2, <2>5 DEF q
<1>4. QED
  BY <1>2, <1>3

\* So is what is remembered of it, unless that is a double free.
LEMMA FlagInOrder ==
    ASSUME Ordered, NEW r, NEW L, InOrder(r, L), NEW m \in Mishaps \ {"double_free"}
    PROVE  /\ InOrder(Flag(r, m), L) /\ (Going(Flag(r, m)) => Going(r) /\ m \notin Damaging)
           /\ Flag(r, m).disk = r.disk /\ Flag(r, m).ret = r.ret
<1> DEFINE q == Flag(r, m)
<1>1. r \in Run /\ q \in Run /\ q.ret = r.ret /\ q.disk = r.disk
  BY FlagType DEF InOrder
<1>2. CASE r.status # "ok"
  BY <1>1, <1>2 DEF InOrder, Going, Flag
<1>3. CASE r.status = "ok"
  <2>1. /\ q.mishaps = r.mishaps \cup {m} /\ q.status = "ok" /\ q.cuts = r.cuts
    BY <1>1, <1>3 DEF Flag, Run
  <2> HIDE DEF q
  <2>2. Clean(q.mishaps) => Clean(r.mishaps) /\ m \notin Damaging
    BY <2>1 DEF Clean
  <2>3. Going(q) => Going(r) /\ m \notin Damaging
    BY <1>3, <2>1, <2>2 DEF Going
  <2>4. Fine(q.disk, q.mishaps)
    BY <1>1, <2>1, <2>2 DEF InOrder, Fine
  <2>5. InOrder(q, L)
    BY <1>1, <2>1, <2>3, <2>4 DEF InOrder
  <2>6. QED
    BY <1>1, <2>3, <2>5 DEF q
<1>4. QED
  BY <1>2, <1>3

\* So is what a routine returns.
LEMMA ReturnInOrder ==
    ASSUME NEW r, NEW L, InOrder(r, L), NEW n \in Position
    PROVE  /\ InOrder(Return(r, n), L) /\ (Going(Return(r, n)) <=> Going(r))
           /\ Return(r, n).disk = r.disk /\ Return(r, n).ret = n
<1>1. /\ r \in Run /\ Return(r, n) \in Run /\ Return(r, n).ret = n
      /\ Return(r, n).disk = r.disk /\ Return(r, n).mishaps = r.mishaps
      /\ Return(r, n).cuts = r.cuts /\ Return(r, n).status = r.status
  BY ReturnType DEF InOrder, Return, Run
<1>2. QED
  BY <1>1 DEF InOrder, Going

\* So is the end of a run that is not described further.
LEMMA StopInOrder ==
    ASSUME Ordered, NEW r, NEW L, InOrder(r, L), NEW how \in {"lost", "deep"},
           how = "lost" => ~Going(r) \/ ~Level(Start, 0, 0)
    PROVE  InOrder(Stop(r, how), L) /\ ~Going(Stop(r, how)) /\ Stop(r, how).ret = r.ret
<1> DEFINE q == Stop(r, how)
<1>1. r \in Run /\ q \in Run /\ q.ret = r.ret
  BY StopType DEF InOrder
<1>2. CASE r.status # "ok"
  BY <1>1, <1>2 DEF InOrder, Going, Stop
<1>3. CASE r.status = "ok"
  <2>1. /\ q.mishaps \in {r.mishaps, r.mishaps \cup {"lost"}} /\ q.status = how
        /\ q.cuts = r.cuts /\ q.disk = r.disk
    BY <1>1, <1>3 DEF Stop, Run
  <2> HIDE DEF q
  <2>2. Clean(q.mishaps) <=> Clean(r.mishaps)
    BY <2>1 DEF Clean, Damaging
  <2>3. Fine(q.disk, q.mishaps)
    BY <1>1, <2>1, <2>2 DEF InOrder, Fine
  <2>4. Level(Start, 0, 0) /\ q.status = "lost" => ~Clean(q.mishaps)
    BY <1>3, <2>1, <2>2 DEF Going
  <2>5. ~Going(q)
    BY <2>1 DEF Going
  <2>6. InOrder(q, L)
    BY <1>1, <2>1, <2>3, <2>4, <2>5 DEF InOrder
  <2>7. QED
    BY <1>1, <2>5, <2>6 DEF q
<1>4. QED
  BY <1>2, <1>3

\* A command begins so.
LEMMA StartOrderly ==
    ASSUME Ordered
    PROVE  Orderly(Start) /\ Going(Start) /\ Start.disk = disk /\ Start.mishaps = mishaps
<1>1. /\ Start \in Run /\ Start.disk = disk /\ Start.mishaps = mishaps
      /\ Start.status = "ok" /\ Start.cuts = {}
  BY BeginType DEF Ordered, TypeOK, Start, Begin
<1>2. Going(Start)
  BY <1>1 DEF Going, Ordered
<1>3. \A L : SameDirs(disk, disk, L)
  BY DEF SameDirs, SameDir
<1>4. Fine(disk, mishaps)
  BY <1>3 DEF Ordered, Fine, DirsOf, OneName
<1>5. InOrder(Start, Live(disk))
  BY <1>1, <1>4 DEF InOrder, Ordered
<1>6. QED
  BY <1>1, <1>2, <1>3, <1>5, KeepsSame DEF Orderly, Unmoved

\* Writing beside the inodes that a path leads to is a step of a run that has
\* not changed a directory.
LEMMA PutUnmoved ==
    ASSUME Ordered, NEW r, Unmoved(r), NEW d \in Disk, Going(r) => Beside(r.disk, d, Live(disk))
    PROVE  /\ Unmoved(Put(r, d)) /\ (Going(Put(r, d)) <=> Going(r))
           /\ Going(r) => Put(r, d).disk = d
           /\ Put(r, d).mishaps = r.mishaps /\ Put(r, d).ret = r.ret /\ Put(r, d) \in Run
<1> DEFINE L == Live(disk)
<1>1. InOrder(r, L) /\ (Going(r) => SameDirs(disk, r.disk, L)) /\ r \in Run
  BY DEF Unmoved, InOrder
<1>2. Going(r) => Tree(d, L) /\ SameDirs(r.disk, d, L)
  BY <1>1, BesideTree DEF InOrder
<1> HIDE DEF L
<1>3. /\ InOrder(Put(r, d), L) /\ (Going(Put(r, d)) <=> Going(r))
      /\ Going(r) => Put(r, d).disk = d
      /\ Put(r, d).ret = r.ret
  BY <1>1, <1>2, PutInOrder DEF L
<1>4. Going(r) => SameDirs(disk, d, L)
  BY <1>1, <1>2, SameDirsTransitive
<1>5. QED
  BY <1>1, <1>3, <1>4, PutKeepsMishaps DEF Unmoved, L, InOrder

\* Where the counts were right they are, while nothing has failed.
LEMMA StillLevel ==
    ASSUME NEW r, Orderly(r), Going(r), Level(Start, 0, 0)
    PROVE  InodeDrift(r.disk) = 0 /\ BlockDrift(r.disk) = 0
<1>1. "double_free" \notin r.mishaps /\ "format_cut" \notin r.mishaps
  BY DEF Orderly, Unmoved, InOrder, Fine, Going, Clean, Damaging
<1>2. Level(r, 0, 0)
  BY DEF Orderly, Keeps
<1>3. QED
  BY <1>1, <1>2 DEF Level, Spoils

\* new_inode takes an inode that no path leads to and clears it.
LEMMA NewInodeOrderly ==
    ASSUME Ordered, NEW r, Orderly(r), NEW q, q = new_inode(r)
    PROVE  /\ Orderly(q) /\ q.ret \in 0..INODE_COUNT
           /\ Going(q) => /\ Going(r) /\ q.ret \in Inode \ Live(disk)
                          /\ q.ret \in q.disk.inode_bitmap
                          /\ q.disk.inode_table[q.ret].i_blocks = 0
<1> DEFINE i  == Min(Inode \ r.disk.inode_bitmap)
           e  == [ZeroInode EXCEPT !.perm = 6]
           d1 == [r.disk EXCEPT !.inode_bitmap = @ \cup {i}]
           r1 == Put(r, d1)
           d2 == [r1.disk EXCEPT !.inode_table[i] = e]
           r2 == Put(r1, d2)
           d3 == [r2.disk EXCEPT !.free_inodes_count = Decr(@)]
           r3 == Put(r2, d3)
           L  == Live(disk)
<1>1. /\ r \in Run /\ Unmoved(r) /\ InOrder(r, L) /\ Keeps(Start, r, 0, 0)
      /\ Going(r) => Tree(r.disk, L)
  BY DEF Orderly, Unmoved, InOrder
<1>2. Keeps(Start, q, 0, 0) /\ q \in Run /\ q.ret \in 0..INODE_COUNT
  BY <1>1, NewInodeKeeps, NewInodeType, KeepsTransitive
<1>3. 0 \in Position
  BY Ushort DEF Position
<1>4. CASE r.disk.free_inodes_count = 0
  <2>1. q = Return(Flag(r, "no_inode"), 0)
    BY <1>4 DEF new_inode
  <2>2. /\ InOrder(Flag(r, "no_inode"), L) /\ ~Going(Flag(r, "no_inode"))
    BY <1>1, FlagInOrder DEF Mishaps, Damaging
  <2>3. InOrder(q, L) /\ ~Going(q)
    BY <1>3, <2>1, <2>2, ReturnInOrder
  <2>4. QED
    BY <1>2, <2>3 DEF Orderly, Unmoved
<1>5. CASE r.disk.free_inodes_count # 0 /\ r.disk.inode_bitmap = Inode
  <2>1. q = Return(Stop(r, "lost"), 0)
    BY <1>5 DEF new_inode
  <2>2. ~Going(r) \/ ~Level(Start, 0, 0)
    <3>1. SUFFICES ASSUME Going(r), Level(Start, 0, 0) PROVE FALSE
      OBVIOUS
    <3>2. InodeDrift(r.disk) = 0
      BY <3>1, StillLevel
    <3>3. r.disk.free_inodes_count \in Nat
      BY <1>1, RunDisk DEF Disk
    <3>4. QED
      BY <1>5, <3>2, <3>3, Finite, SizesAssumption DEF InodeDrift
  <2>3. InOrder(Stop(r, "lost"), L) /\ ~Going(Stop(r, "lost"))
    BY <1>1, <2>2, StopInOrder
  <2>4. InOrder(q, L) /\ ~Going(q)
    BY <1>3, <2>1, <2>3, ReturnInOrder
  <2>5. QED
    BY <1>2, <2>4 DEF Orderly, Unmoved
<1>6. CASE r.disk.free_inodes_count # 0 /\ r.disk.inode_bitmap # Inode
  <2>1. i \in Inode \ r.disk.inode_bitmap
    <3>1. Inode \ r.disk.inode_bitmap \subseteq Nat /\ Inode \ r.disk.inode_bitmap # {}
      <4>1. r.disk.inode_bitmap \subseteq Inode
        BY <1>1, RunDisk DEF Disk
      <4>2. Inode \subseteq Nat
        BY DEF Inode
      <4>3. QED
        BY <1>6, <4>1, <4>2
    <3>2. QED
      BY <3>1, MinOfNats
  <2>2. q = Return(r3, i)
    BY <1>6, <2>1 DEF new_inode, PutInode
  <2>3. e \in InodeEntry /\ e.i_blocks = 0
    BY ZeroInodeType DEF ZeroInode
  <2>4. i \in Position
    BY <2>1, Volume
  <2> HIDE DEF i, e
  <2>5. d1 \in Disk /\ (Going(r) => Beside(r.disk, d1, L) /\ i \notin L)
    <3>1. r.disk \in Disk
      BY <1>1, RunDisk
    <3>2. d1 \in Disk
      BY <2>1, <3>1 DEF Disk
    <3>3. ASSUME Going(r) PROVE Beside(r.disk, d1, L) /\ i \notin L
      <4>1. Allocated(r.disk, L)
        BY <1>1, <3>3 DEF Tree
      <4>2. /\ L \subseteq d1.inode_bitmap /\ i \notin L
            /\ d1.inode_table = r.disk.inode_table /\ d1.data = r.disk.data
            /\ d1.block_bitmap = r.disk.block_bitmap
        BY <2>1, <3>1, <4>1 DEF Allocated, Disk
      <4>3. QED
        BY <4>1, <4>2 DEF Beside, Allocated, BlockAt, BlockOf
    <3>4. QED
      BY <3>2, <3>3
  <2>6. /\ Unmoved(r1) /\ (Going(r1) <=> Going(r)) /\ (Going(r) => r1.disk = d1) /\ r1 \in Run
    BY <1>1, <2>5, PutUnmoved
  <2>7. r1.disk \in Disk /\ (Going(r1) => Tree(r1.disk, L) /\ i \in r1.disk.inode_bitmap /\ i \notin L)
    <3>1. Going(r1) => i \in r1.disk.inode_bitmap
      BY <1>1, <2>6, RunDisk DEF Disk
    <3>2. QED
      BY <2>5, <2>6, <3>1, RunDisk DEF Unmoved, InOrder
  <2> HIDE DEF d1, r1
  <2>8. d2 \in Disk /\ (Going(r1) => Beside(r1.disk, d2, L) /\ i \in d2.inode_bitmap /\ d2.inode_table[i] = e)
    <3>1. /\ d2 \in Disk /\ d2.inode_table[i] = e
          /\ d2.inode_bitmap = r1.disk.inode_bitmap /\ d2.block_bitmap = r1.disk.block_bitmap
          /\ d2.data = r1.disk.data
          /\ \A j \in Inode \ {i} : d2.inode_table[j] = r1.disk.inode_table[j]
      BY <2>1, <2>3, <2>7 DEF Disk
    <3>2. ASSUME Going(r1) PROVE Beside(r1.disk, d2, L)
      <4>1. Allocated(r1.disk, L) /\ L \subseteq Inode \ {i}
        BY <2>7, <3>2 DEF Tree
      <4>2. QED
        BY <3>1, <4>1 DEF Beside, Allocated, BlockAt, BlockOf
    <3>3. QED
      BY <2>7, <3>1, <3>2
  <2>9. /\ Unmoved(r2) /\ (Going(r2) <=> Going(r1)) /\ (Going(r1) => r2.disk = d2) /\ r2 \in Run
    BY <2>6, <2>8, PutUnmoved
  <2>10. /\ r2.disk \in Disk
         /\ Going(r2) => Tree(r2.disk, L) /\ i \in r2.disk.inode_bitmap /\ r2.disk.inode_table[i] = e
    BY <2>8, <2>9, RunDisk DEF Unmoved, InOrder
  <2> HIDE DEF d2, r2
  <2>11. d3 \in Disk /\ (Going(r2) => Beside(r2.disk, d3, L)) /\ d3.inode_bitmap = r2.disk.inode_bitmap
         /\ d3.inode_table = r2.disk.inode_table
    <3>1. Decr(r2.disk.free_inodes_count) \in Position
      BY <2>10, CountsType DEF Disk, Position
    <3>2. /\ d3 \in Disk /\ d3.inode_table = r2.disk.inode_table
          /\ d3.inode_bitmap = r2.disk.inode_bitmap /\ d3.block_bitmap = r2.disk.block_bitmap
          /\ d3.data = r2.disk.data
      BY <2>10, <3>1 DEF Disk, Position
    <3>3. ASSUME Going(r2) PROVE Beside(r2.disk, d3, L)
      <4>1. Allocated(r2.disk, L)
        BY <2>10, <3>3 DEF Tree
      <4>2. QED
        BY <3>2, <4>1 DEF Beside, Allocated, BlockAt, BlockOf
    <3>4. QED
      BY <3>2, <3>3
  <2>12. /\ Unmoved(r3) /\ (Going(r3) <=> Going(r2)) /\ (Going(r2) => r3.disk = d3)
    BY <2>9, <2>11, PutUnmoved
  <2>13. Going(r3) => i \in r3.disk.inode_bitmap /\ r3.disk.inode_table[i] = e
    BY <2>10, <2>11, <2>12
  <2> HIDE DEF d3, r3
  <2>14. /\ InOrder(q, L) /\ (Going(q) <=> Going(r3)) /\ q.disk = r3.disk /\ q.ret = i
    BY <2>2, <2>4, <2>12, ReturnInOrder DEF Unmoved
  <2>15. Unmoved(q)
    BY <2>12, <2>14 DEF Unmoved
  <2>16. Going(q) => Going(r) /\ i \in Inode \ L
    BY <2>1, <2>6, <2>7, <2>9, <2>12, <2>14
  <2>17. QED
    BY <1>2, <2>3, <2>13, <2>14, <2>15, <2>16 DEF Orderly
<1>7. QED
  BY <1>4, <1>5, <1>6

\* new_block takes a block that none of them uses.
LEMMA NewBlockOrderly ==
    ASSUME Ordered, NEW r, Orderly(r), NEW q, q = new_block(r)
    PROVE  /\ Orderly(q) /\ q.ret \in Block
           /\ Going(q) => /\ Going(r) /\ q.disk.inode_table = r.disk.inode_table
                          /\ q.disk.inode_bitmap = r.disk.inode_bitmap /\ q.disk.data = r.disk.data
                          /\ q.disk.block_bitmap = r.disk.block_bitmap \cup {q.ret}
                          /\ q.ret \notin r.disk.block_bitmap
<1> DEFINE b  == Min(Block \ r.disk.block_bitmap)
           d1 == [r.disk EXCEPT !.block_bitmap = @ \cup {b}]
           r1 == Put(r, d1)
           d2 == [r1.disk EXCEPT !.free_blocks_count = Decr(@)]
           r2 == Put(r1, d2)
           L  == Live(disk)
<1>1. /\ r \in Run /\ Unmoved(r) /\ InOrder(r, L) /\ Keeps(Start, r, 0, 0)
      /\ Going(r) => Tree(r.disk, L)
  BY DEF Orderly, Unmoved, InOrder
<1>2. Keeps(Start, q, 0, 0) /\ q \in Run /\ q.ret \in Block
  BY <1>1, NewBlockKeeps, NewBlockRunType, KeepsTransitive
<1>3. 0 \in Position
  BY Ushort DEF Position
<1>4. CASE r.disk.free_blocks_count = 0
  <2>1. q = Return(Flag(r, "no_block"), 0)
    BY <1>4 DEF new_block
  <2>2. /\ InOrder(Flag(r, "no_block"), L) /\ ~Going(Flag(r, "no_block"))
    BY <1>1, FlagInOrder DEF Mishaps, Damaging
  <2>3. InOrder(q, L) /\ ~Going(q)
    BY <1>3, <2>1, <2>2, ReturnInOrder
  <2>4. QED
    BY <1>2, <2>3 DEF Orderly, Unmoved
<1>5. CASE r.disk.free_blocks_count # 0 /\ r.disk.block_bitmap = Block
  <2>1. q = Return(Stop(r, "lost"), 0)
    BY <1>5 DEF new_block
  <2>2. ~Going(r) \/ ~Level(Start, 0, 0)
    <3>1. SUFFICES ASSUME Going(r), Level(Start, 0, 0) PROVE FALSE
      OBVIOUS
    <3>2. BlockDrift(r.disk) = 0
      BY <3>1, StillLevel
    <3>3. r.disk.free_blocks_count \in Nat
      BY <1>1, RunDisk DEF Disk
    <3>4. QED
      BY <1>5, <3>2, <3>3, Finite, Volume DEF BlockDrift
  <2>3. InOrder(Stop(r, "lost"), L) /\ ~Going(Stop(r, "lost"))
    BY <1>1, <2>2, StopInOrder
  <2>4. InOrder(q, L) /\ ~Going(q)
    BY <1>3, <2>1, <2>3, ReturnInOrder
  <2>5. QED
    BY <1>2, <2>4 DEF Orderly, Unmoved
<1>6. CASE r.disk.free_blocks_count # 0 /\ r.disk.block_bitmap # Block
  <2>1. b \in Block \ r.disk.block_bitmap
    <3>1. r.disk.block_bitmap \subseteq Block
      BY <1>1, RunDisk DEF Disk
    <3>2. Block \subseteq Nat
      BY DEF Block
    <3>3. Block \ r.disk.block_bitmap \subseteq Nat /\ Block \ r.disk.block_bitmap # {}
      BY <1>6, <3>1, <3>2
    <3>4. QED
      BY <3>3, MinOfNats
  <2>2. q = Return(r2, b)
    BY <1>6 DEF new_block
  <2>3. b \in Position
    BY <2>1, Volume
  <2> HIDE DEF b
  <2>4. /\ d1 \in Disk /\ (Going(r) => Beside(r.disk, d1, L))
        /\ d1.inode_table = r.disk.inode_table /\ d1.data = r.disk.data
        /\ d1.inode_bitmap = r.disk.inode_bitmap
        /\ d1.block_bitmap = r.disk.block_bitmap \cup {b}
    <3>1. r.disk \in Disk
      BY <1>1, RunDisk
    <3>2. /\ d1 \in Disk
          /\ d1.inode_table = r.disk.inode_table /\ d1.data = r.disk.data
          /\ d1.inode_bitmap = r.disk.inode_bitmap
          /\ d1.block_bitmap = r.disk.block_bitmap \cup {b}
      BY <2>1, <3>1 DEF Disk
    <3>3. ASSUME Going(r) PROVE Beside(r.disk, d1, L)
      <4>1. Allocated(r.disk, L)
        BY <1>1, <3>3 DEF Tree
      <4>2. QED
        BY <3>2, <4>1 DEF Beside, Allocated, BlockAt, BlockOf
    <3>4. QED
      BY <3>2, <3>3
  <2>5. /\ Unmoved(r1) /\ (Going(r1) <=> Going(r)) /\ (Going(r) => r1.disk = d1) /\ r1 \in Run
    BY <1>1, <2>4, PutUnmoved
  <2>6. r1.disk \in Disk /\ (Going(r1) => Tree(r1.disk, L))
    BY <2>5, RunDisk DEF Unmoved, InOrder
  <2> HIDE DEF d1, r1
  <2>7. /\ d2 \in Disk /\ (Going(r1) => Beside(r1.disk, d2, L))
        /\ d2.inode_table = r1.disk.inode_table /\ d2.data = r1.disk.data
        /\ d2.inode_bitmap = r1.disk.inode_bitmap /\ d2.block_bitmap = r1.disk.block_bitmap
    <3>1. Decr(r1.disk.free_blocks_count) \in Position
      BY <2>6, CountsType DEF Disk, Position
    <3>2. /\ d2 \in Disk
          /\ d2.inode_table = r1.disk.inode_table /\ d2.data = r1.disk.data
          /\ d2.inode_bitmap = r1.disk.inode_bitmap /\ d2.block_bitmap = r1.disk.block_bitmap
      BY <2>6, <3>1 DEF Disk, Position
    <3>3. ASSUME Going(r1) PROVE Beside(r1.disk, d2, L)
      <4>1. Allocated(r1.disk, L)
        BY <2>6, <3>3 DEF Tree
      <4>2. QED
        BY <3>2, <4>1 DEF Beside, Allocated, BlockAt, BlockOf
    <3>4. QED
      BY <3>2, <3>3
  <2>8. /\ Unmoved(r2) /\ (Going(r2) <=> Going(r1)) /\ (Going(r1) => r2.disk = d2)
    BY <2>5, <2>7, PutUnmoved
  <2> HIDE DEF d2, r2
  <2>9. /\ InOrder(q, L) /\ (Going(q) <=> Going(r2)) /\ q.disk = r2.disk /\ q.ret = b
    BY <2>2, <2>3, <2>8, ReturnInOrder DEF Unmoved
  <2>10. Unmoved(q)
    BY <2>8, <2>9 DEF Unmoved
  <2>11. QED
    BY <1>2, <2>1, <2>4, <2>5, <2>7, <2>8, <2>9, <2>10 DEF Orderly
<1>7. QED
  BY <1>4, <1>5, <1>6

\* The disks d and e differ in the counters only.
CountersOnly(d, e) ==
    /\ e.inode_table = d.inode_table /\ e.data = d.data
    /\ e.inode_bitmap = d.inode_bitmap /\ e.block_bitmap = d.block_bitmap

\* Writing an inode that no path leads to.
LEMMA PutInodeUnmoved ==
    ASSUME Ordered, NEW r, Unmoved(r), NEW i, NEW e, i \in Inode => e \in InodeEntry,
           Going(r) => i \in Inode \ Live(disk), NEW q, q = PutInode(r, i, e)
    PROVE  /\ Unmoved(q) /\ (Going(q) <=> Going(r)) /\ q.ret = r.ret /\ q \in Run
           /\ Going(r) => /\ q.disk.inode_table[i] = e /\ q.disk.data = r.disk.data
                          /\ q.disk.inode_bitmap = r.disk.inode_bitmap
                          /\ q.disk.block_bitmap = r.disk.block_bitmap
                          /\ \A j \in Inode \ {i} : q.disk.inode_table[j] = r.disk.inode_table[j]
<1> DEFINE d == [r.disk EXCEPT !.inode_table[i] = e]
           L == Live(disk)
<1>1. r \in Run /\ r.disk \in Disk
  BY RunDisk DEF Unmoved, InOrder
<1>2. CASE i \notin Inode
  BY <1>1, <1>2 DEF PutInode
<1>3. CASE i \in Inode
  <2>1. q = Put(r, d)
    BY <1>3 DEF PutInode
  <2>2. /\ d \in Disk /\ d.inode_table[i] = e /\ d.data = r.disk.data
        /\ d.inode_bitmap = r.disk.inode_bitmap /\ d.block_bitmap = r.disk.block_bitmap
        /\ \A j \in Inode \ {i} : d.inode_table[j] = r.disk.inode_table[j]
    BY <1>1, <1>3 DEF Disk
  <2>3. ASSUME Going(r) PROVE Beside(r.disk, d, L)
    <3>1. Allocated(r.disk, L) /\ L \subseteq Inode \ {i}
      BY <2>3 DEF Unmoved, InOrder, Tree
    <3>2. QED
      BY <2>2, <3>1 DEF Beside, Allocated, BlockAt, BlockOf
  <2> HIDE DEF d
  <2>4. QED
    BY <2>1, <2>2, <2>3, PutUnmoved
<1>4. QED
  BY <1>2, <1>3

\* Writing a block that none of them uses.
LEMMA PutBlockUnmoved ==
    ASSUME Ordered, NEW r, Unmoved(r), NEW b \in Block, NEW content \in Content,
           Going(r) => \A j \in Live(disk) : \A x \in Places(r.disk, j) : BlockOf(r.disk, j, x) # b,
           NEW q, q = PutBlock(r, b, content)
    PROVE  /\ Unmoved(q) /\ (Going(q) <=> Going(r)) /\ q.ret = r.ret /\ q \in Run
           /\ Going(r) => /\ q.disk.inode_table = r.disk.inode_table
                          /\ q.disk.data[b] = content
                          /\ q.disk.inode_bitmap = r.disk.inode_bitmap
                          /\ q.disk.block_bitmap = r.disk.block_bitmap
<1> DEFINE d == [r.disk EXCEPT !.data[b] = content]
           L == Live(disk)
<1>1. r \in Run /\ r.disk \in Disk
  BY RunDisk DEF Unmoved, InOrder
<1>2. q = Put(r, d)
  BY DEF PutBlock
<1>3. /\ d \in Disk /\ d.inode_table = r.disk.inode_table /\ d.data[b] = content
      /\ d.inode_bitmap = r.disk.inode_bitmap /\ d.block_bitmap = r.disk.block_bitmap
      /\ \A a : a # b => d.data[a] = r.disk.data[a]
  BY <1>1 DEF Disk
<1>4. ASSUME Going(r) PROVE Beside(r.disk, d, L)
  <2>1. Allocated(r.disk, L)
    BY <1>4 DEF Unmoved, InOrder, Tree
  <2>2. QED
    BY <1>3, <1>4, <2>1 DEF Beside, Allocated, BlockAt, BlockOf
<1> HIDE DEF d
<1>5. QED
  BY <1>2, <1>3, <1>4, PutUnmoved

\* Writing the group descriptor.
LEMMA PutCountersUnmoved ==
    ASSUME Ordered, NEW r, Unmoved(r), NEW d \in Disk, CountersOnly(r.disk, d), NEW q, q = Put(r, d)
    PROVE  /\ Unmoved(q) /\ (Going(q) <=> Going(r)) /\ q.ret = r.ret /\ q \in Run
           /\ Going(r) => CountersOnly(r.disk, q.disk)
<1>1. ASSUME Going(r) PROVE Beside(r.disk, d, Live(disk))
  <2>1. Allocated(r.disk, Live(disk))
    BY <1>1 DEF Unmoved, InOrder, Tree
  <2>2. QED
    BY <2>1 DEF Beside, Allocated, BlockAt, BlockOf, CountersOnly
<1>2. QED
  BY <1>1, PutUnmoved

\* new_dir_entry makes an inode, with a block if it is a directory, that can be linked.
LEMMA NewDirEntryOrderly ==
    ASSUME Ordered, NEW r, Orderly(r), NEW name, NEW type \in {FT_REG_FILE, FT_DIR},
           NEW q, q = new_dir_entry(r, name, type, current_dir)
    PROVE  /\ Orderly(q) /\ q.ret \in 0..INODE_COUNT
           /\ Going(q) => Ready(q.disk, Live(disk), q.ret, current_dir)
<1> DEFINE c  == current_dir
           L  == Live(disk)
           r1 == new_inode(r)
           i  == r1.ret
           e2 == [r1.disk.inode_table[i] EXCEPT
                    !.type = type, !.perm = IF name \in ExecNames THEN 7 ELSE @]
           r2 == IF i = 0 THEN r1 ELSE PutInode(r1, i, e2)
           d3 == [r2.disk EXCEPT !.used_dirs_count = Incr(@)]
           r3 == Put(r2, d3)
           r4 == new_block(r3)
           b  == r4.ret
           r5 == PutBlock(r4, b, DirImage(i, c))
           e6 == [r5.disk.inode_table[i] EXCEPT
                    !.i_blocks = 1, !.i_size = 17, !.i_block[0] = b, !.perm = 6]
           r6 == IF i = 0 THEN r5 ELSE PutInode(r5, i, e6)
           empty(d) == i \in d.inode_bitmap /\ d.inode_table[i].i_blocks = 0 /\ d.inode_table[i].type = type
<1>1. r \in Run /\ Keeps(Start, r, 0, 0) /\ c \in Inode
  BY DEF Orderly, Unmoved, InOrder, Ordered, TypeOK
<1>2. /\ Keeps(Start, q, 0, 0) /\ q \in Run /\ q.ret \in 0..INODE_COUNT
  <2>1. Keeps(r, q, 0, 0)
    BY <1>1, NewDirEntryKeeps
  <2>2. q \in Run /\ q.ret \in 0..INODE_COUNT
    BY <1>1, NewDirEntryType
  <2>3. QED
    BY <1>1, <2>1, <2>2, KeepsTransitive
<1>3. /\ Orderly(r1) /\ i \in 0..INODE_COUNT
      /\ Going(r1) => /\ i \in Inode \ L /\ i \in r1.disk.inode_bitmap
                      /\ r1.disk.inode_table[i].i_blocks = 0
  BY NewInodeOrderly
<1>4. (0 \notin Inode) /\ (i # 0 => i \in Inode)
  BY <1>3, SizesAssumption DEF Inode
<1>5. q = Return(IF type = FT_DIR THEN r6 ELSE r2, i)
  BY DEF new_dir_entry
<1> HIDE DEF r1, i
<1>6. Unmoved(r1) /\ r1 \in Run /\ r1.disk \in Disk /\ Keeps(Start, r1, 0, 0)
  BY <1>3, RunDisk DEF Orderly, Unmoved, InOrder
<1>7. i \in Inode => e2 \in InodeEntry /\ e2.type = type /\ e2.i_blocks = r1.disk.inode_table[i].i_blocks
  <2> SUFFICES ASSUME i \in Inode
               PROVE  e2 \in InodeEntry /\ e2.type = type /\ e2.i_blocks = r1.disk.inode_table[i].i_blocks
    OBVIOUS
  <2> DEFINE e == r1.disk.inode_table[i]
  <2>1. e \in InodeEntry
    BY <1>6 DEF Disk
  <2> HIDE DEF e
  <2> DEFINE p == IF name \in ExecNames THEN 7 ELSE e.perm
  <2>2. p \in 0..7
    BY <2>1 DEF InodeEntry
  <2> HIDE DEF p
  <2> DEFINE f == [e EXCEPT !.type = type, !.perm = p]
  <2>3. f \in InodeEntry /\ f.type = type /\ f.i_blocks = e.i_blocks
    BY <2>1, <2>2 DEF InodeEntry
  <2>4. e2 = f
    BY DEF e, p
  <2>5. QED
    BY <2>3, <2>4 DEF e
<1> HIDE DEF e2
<1>8. /\ Unmoved(r2) /\ (Going(r2) <=> Going(r1)) /\ r2 \in Run
      /\ Going(r1) => /\ r2.disk.inode_table[i] = e2 /\ r2.disk.inode_bitmap = r1.disk.inode_bitmap
  <2>1. r2 = PutInode(r1, i, e2)
    BY <1>4 DEF PutInode
  <2>2. QED
    BY <1>3, <1>6, <1>7, <2>1, PutInodeUnmoved
<1>9. Keeps(Start, r2, 0, 0)
  BY <1>6, PutInodeKeeps, KeepsTransitive
<1> HIDE DEF r2
<1>10. Going(r2) => empty(r2.disk) /\ i \in Inode \ L
  BY <1>3, <1>7, <1>8
<1>11. d3 \in Disk /\ CountersOnly(r2.disk, d3) /\ SameCounts(d3, r2.disk)
  <2>1. r2.disk \in Disk
    BY <1>8, RunDisk
  <2>2. Incr(r2.disk.used_dirs_count) \in Position
    BY <2>1, CountsType DEF Disk, Position
  <2>3. QED
    BY <2>1, <2>2 DEF Disk, Position, CountersOnly, SameCounts
<1> HIDE DEF d3
<1>12. /\ Unmoved(r3) /\ (Going(r3) <=> Going(r2)) /\ r3 \in Run
       /\ Going(r2) => CountersOnly(r2.disk, r3.disk)
  BY <1>8, <1>11, PutCountersUnmoved
<1>13. Keeps(Start, r3, 0, 0)
  BY <1>8, <1>9, <1>11, PutKeeps, KeepsTransitive
<1> HIDE DEF r3
<1>14. Going(r3) => empty(r3.disk) /\ i \in Inode \ L
  BY <1>10, <1>12 DEF CountersOnly
<1>15. Orderly(r3)
  BY <1>12, <1>13 DEF Orderly
<1>16. /\ Orderly(r4) /\ b \in Block
       /\ Going(r4) => /\ Going(r3) /\ r4.disk.inode_table = r3.disk.inode_table
                       /\ r4.disk.inode_bitmap = r3.disk.inode_bitmap
                       /\ r4.disk.block_bitmap = r3.disk.block_bitmap \cup {b}
                       /\ b \notin r3.disk.block_bitmap
  BY <1>15, NewBlockOrderly
<1> HIDE DEF r4, b
<1>17. Going(r4) => /\ empty(r4.disk) /\ i \in Inode \ L /\ b \in r4.disk.block_bitmap
                    /\ \A j \in L : \A x \in Places(r4.disk, j) : BlockOf(r4.disk, j, x) # b
  <2>1. Going(r3) => Allocated(r3.disk, L)
    BY <1>12 DEF Unmoved, InOrder, Tree
  <2>2. QED
    BY <1>14, <1>16, <2>1 DEF Allocated, Places, BlockOf
<1>18. DirImage(i, c) \in Content
  <2>1. i \in 0..INODE_COUNT /\ c \in 0..INODE_COUNT /\ NoName \in AllNames
    BY <1>1, <1>3, Volume DEF AllNames
  <2>2. QED
    BY <2>1, NewBlockType DEF Content
<1>19. /\ Unmoved(r5) /\ (Going(r5) <=> Going(r4)) /\ r5 \in Run
       /\ Going(r4) => /\ r5.disk.inode_table = r4.disk.inode_table
                       /\ r5.disk.data[b] = DirImage(i, c)
                       /\ r5.disk.inode_bitmap = r4.disk.inode_bitmap
                       /\ r5.disk.block_bitmap = r4.disk.block_bitmap
  BY <1>16, <1>17, <1>18, PutBlockUnmoved DEF Orderly
<1> HIDE DEF r5
<1>20. Going(r5) => /\ empty(r5.disk) /\ i \in Inode \ L /\ b \in r5.disk.block_bitmap
                    /\ \A j \in L : \A x \in Places(r5.disk, j) : BlockOf(r5.disk, j, x) # b
                    /\ r5.disk.data[b] = DirImage(i, c)
  BY <1>17, <1>19 DEF Places, BlockOf
<1>21. i \in Inode => /\ e6 \in InodeEntry /\ e6.type = r5.disk.inode_table[i].type
                      /\ e6.i_blocks = 1 /\ e6.i_block[0] = b
  <2>1. r5.disk \in Disk
    BY <1>19, RunDisk
  <2>2. i \in Inode => r5.disk.inode_table[i] \in InodeEntry
    BY <2>1 DEF Disk
  <2>3. 1 \in 0..NDIRECT /\ 17 \in 0..(SIZE_MOD - 1) /\ 6 \in 0..7 /\ 0 \in 0..(NDIRECT - 1)
    BY VolumeAssumption
  <2>4. QED
    BY <1>16, <2>2, <2>3 DEF InodeEntry
<1> HIDE DEF e6
<1>22. /\ Unmoved(r6) /\ (Going(r6) <=> Going(r5)) /\ r6 \in Run
       /\ Going(r5) => /\ r6.disk.inode_table[i] = e6 /\ r6.disk.data = r5.disk.data
                       /\ r6.disk.inode_bitmap = r5.disk.inode_bitmap
                       /\ r6.disk.block_bitmap = r5.disk.block_bitmap
                       /\ \A j \in Inode \ {i} : r6.disk.inode_table[j] = r5.disk.inode_table[j]
  <2>1. r6 = PutInode(r5, i, e6)
    BY <1>4 DEF PutInode
  <2>2. QED
    BY <1>19, <1>20, <1>21, <2>1, PutInodeUnmoved
<1> HIDE DEF r6
<1>23. CASE type = FT_REG_FILE
  <2>1. q = Return(r2, i) /\ i \in Position /\ FT_REG_FILE # FT_DIR
    BY <1>3, <1>5, <1>23, Volume DEF FT_REG_FILE, FT_DIR
  <2>2. InOrder(q, L) /\ (Going(q) <=> Going(r2)) /\ q.disk = r2.disk /\ q.ret = i
    BY <1>8, <2>1, ReturnInOrder DEF Unmoved
  <2>3. Unmoved(q)
    BY <1>8, <2>2 DEF Unmoved
  <2>4. ASSUME Going(q) PROVE Ready(q.disk, L, q.ret, c)
    <3>1. empty(r2.disk) /\ i \in Inode \ L /\ Allocated(r2.disk, L)
      BY <1>8, <1>10, <2>2, <2>4 DEF Unmoved, InOrder, Tree
    <3>2. Places(r2.disk, i) = {} /\ ~IsDir(r2.disk, i)
      BY <1>23, <2>1, <3>1 DEF Places, IsDir
    <3>3. Allocated(r2.disk, L \cup {i})
      BY <3>1, <3>2 DEF Allocated
    <3>4. QED
      BY <2>2, <3>1, <3>2, <3>3 DEF Ready
  <2>5. QED
    BY <1>2, <2>3, <2>4 DEF Orderly
<1>24. CASE type = FT_DIR
  <2>1. q = Return(r6, i) /\ i \in Position
    BY <1>3, <1>5, <1>24, Volume
  <2>2. InOrder(q, L) /\ (Going(q) <=> Going(r6)) /\ q.disk = r6.disk /\ q.ret = i
    BY <1>22, <2>1, ReturnInOrder DEF Unmoved
  <2>3. Unmoved(q)
    BY <1>22, <2>2 DEF Unmoved
  <2>4. ASSUME Going(q) PROVE Ready(q.disk, L, q.ret, c)
    <3>1. /\ Going(r5) /\ Allocated(r6.disk, L) /\ L \subseteq Inode
      BY <1>22, <2>2, <2>4 DEF Unmoved, InOrder, Tree
    <3>2. Places(r6.disk, i) = {0} /\ BlockOf(r6.disk, i, 0) = b /\ BlockAt(r6.disk, i, 0) = DirImage(i, c)
      BY <1>20, <1>21, <1>22, <3>1 DEF Places, BlockOf, BlockAt
    <3>3. \A j \in L : \A x \in Places(r6.disk, j) : BlockOf(r6.disk, j, x) # b
      BY <1>20, <1>22, <3>1 DEF Places, BlockOf
    <3>4. Allocated(r6.disk, L \cup {i})
      BY <1>20, <1>22, <3>1, <3>2, <3>3 DEF Allocated
    <3>5. QED
      BY <1>20, <2>2, <3>1, <3>2, <3>4 DEF Ready
  <2>5. QED
    BY <1>2, <2>3, <2>4 DEF Orderly
<1>25. QED
  BY <1>23, <1>24

-----------------------------------------------------------------------------
(* Linking.                                                                 *)

\* A search that fails has looked at every entry.
LEMMA NoSuchName ==
    ASSUME NEW d \in Disk, NEW L, NEW i \in Inode, DirInOrder(d, L, i), NEW name,
           search_file(d, i, name) = 0
    PROVE  \A x \in Places(d, i) : \A p \in Spots(d, i, x) : NameAt(d, i, x, p) # name
<1>1. Hits(d, i, name) = {}
  BY FirstHit DEF search_file
<1>2. ASSUME NEW x \in Places(d, i), NEW p \in Spots(d, i, x) PROVE NameAt(d, i, x, p) # name
  <2>1. Find(BlockAt(d, i, x), name) = 0
    BY <1>1 DEF Hits, Places
  <2>2. BlockAt(d, i, x) \in Image /\ Tiled(BlockAt(d, i, x))
    BY DEF DirInOrder
  <2>3. Matches(BlockAt(d, i, x), name) = {}
    BY <2>1, <2>2, TiledFind
  <2>4. QED
    BY <2>3 DEF Matches, Spots, NameAt
<1>3. QED
  BY <1>2

\* Nor has it in a run that has not changed the directory.
LEMMA StillNoSuchName ==
    ASSUME Ordered, NEW r, Unmoved(r), Going(r), NEW name, found(name) = 0
    PROVE  \A x \in Places(r.disk, current_dir) : \A p \in Spots(r.disk, current_dir, x) :
              NameAt(r.disk, current_dir, x, p) # name
<1> DEFINE c == current_dir
           d == r.disk
<1>1. /\ disk \in Disk /\ c \in Inode /\ c \in Live(disk) /\ IsDir(disk, c)
      /\ DirInOrder(disk, Live(disk), c)
  BY DEF Ordered, TypeOK, Tree, DirsOf
<1>2. \A x \in Places(disk, c) : \A p \in Spots(disk, c, x) : NameAt(disk, c, x, p) # name
  BY <1>1, NoSuchName DEF found
<1>3. SameDir(disk, d, c)
  BY <1>1 DEF Unmoved, SameDirs
<1>4. QED
  BY <1>1, <1>2, <1>3 DEF SameDir, Spots, NameAt

\* The current directory has changed and nothing else.
LEMMA FineChanged ==
    ASSUME Ordered, NEW r, Unmoved(r), Going(r), NEW e, NEW M, Tree(e, M),
           SameDirs(r.disk, e, Live(disk) \ {current_dir}), IsDir(e, current_dir),
           NEW m, "double_free" \in m => "double_free" \in r.mishaps,
           "gap_overwrite" \notin m => OneName(r.disk, e, current_dir)
    PROVE  Fine(e, m)
<1> DEFINE c == current_dir
           L == Live(disk)
           K == L \ {c}
<1>1. c \in L
  BY DEF Ordered, DirsOf
<1>2. SameDirs(disk, r.disk, L)
  BY DEF Unmoved
<1>3. SameDirs(disk, r.disk, K) /\ SameDir(disk, r.disk, c)
  BY <1>1, <1>2 DEF SameDirs
<1>4. NamesOf(r.disk, c) = NamesOf(disk, c)
  BY <1>3, SameDirNames
<1>5. "double_free" \notin m
  BY DEF Unmoved, InOrder, Fine, Going
<1> HIDE DEF K
<1>6. SameDirs(r.disk, e, K)
  BY DEF K
<1>7. SameDirs(disk, e, K)
  BY <1>3, <1>6, SameDirsTransitive
<1>8. "gap_overwrite" \notin m => OneName(disk, e, c)
  BY <1>4 DEF OneName
<1>9. QED
  BY <1>5, <1>7, <1>8 DEF Fine, K

\* A write that links or unlinks.
LEMMA ChangeInOrder ==
    ASSUME Ordered, NEW r, NEW L, InOrder(r, L), NEW q \in Run, q.status = "ok",
           r.status = "ok", r.mishaps \subseteq q.mishaps,
           \A c \in q.cuts : \/ c \in r.cuts
                             \/ c = [disk |-> r.disk, mishaps |-> r.mishaps]
                             \/ ~Clean(c.mishaps),
           NEW M, Clean(q.mishaps) => Tree(q.disk, M) /\ Fine(q.disk, q.mishaps)
    PROVE  InOrder(q, M)
<1>1. Fine(q.disk, q.mishaps)
  BY DEF Fine
<1>2. ASSUME NEW c \in q.cuts PROVE Fine(c.disk, c.mishaps)
  <2>1. CASE c \in r.cuts
    BY <2>1 DEF InOrder
  <2>2. CASE c = [disk |-> r.disk, mishaps |-> r.mishaps]
    BY <2>2 DEF InOrder
  <2>3. CASE ~Clean(c.mishaps)
    BY <2>3 DEF Fine
  <2>4. QED
    BY <1>2, <2>1, <2>2, <2>3
<1>3. QED
  BY <1>1, <1>2 DEF InOrder, Going

\* The inode that add_file_block lengthens, when it can.
LEMMA AddFileBlockSteps ==
    ASSUME Ordered, NEW r, Orderly(r), NEW i \in Inode, NEW q, q = add_file_block(r, i)
    PROVE  \/ InOrder(q, Live(disk)) /\ ~Going(q)
           \/ \E s : /\ Orderly(s) /\ s.status = "ok" /\ q.status = "ok" /\ q.mishaps = s.mishaps
                     /\ q.cuts = s.cuts \cup {[disk |-> s.disk, mishaps |-> s.mishaps]}
                     /\ s.ret = q.ret /\ q.ret \in Block /\ (Going(s) <=> Going(q))
                     /\ Going(s) =>
                          /\ Going(r) /\ s.disk.inode_table = r.disk.inode_table
                          /\ s.disk.inode_bitmap = r.disk.inode_bitmap
                          /\ s.disk.data = r.disk.data
                          /\ s.disk.block_bitmap = r.disk.block_bitmap \cup {q.ret}
                          /\ q.ret \notin r.disk.block_bitmap
                          /\ Lengthened(s.disk, q.disk, i, s.disk.inode_table[i].i_blocks, q.ret)
<1> DEFINE n  == r.disk.inode_table[i].i_blocks
           s  == new_block(r)
           e  == [s.disk.inode_table[i] EXCEPT !.i_block[n] = s.ret, !.i_blocks = n + 1]
           d  == [s.disk EXCEPT !.inode_table[i] = e]
           L  == Live(disk)
<1>1. r \in Run /\ InOrder(r, L)
  BY DEF Orderly, Unmoved, InOrder
<1>2. /\ Orderly(s) /\ s.ret \in Block
      /\ Going(s) => /\ Going(r) /\ s.disk.inode_table = r.disk.inode_table
                     /\ s.disk.inode_bitmap = r.disk.inode_bitmap /\ s.disk.data = r.disk.data
                     /\ s.disk.block_bitmap = r.disk.block_bitmap \cup {s.ret}
                     /\ s.ret \notin r.disk.block_bitmap
  BY NewBlockOrderly
<1>3. CASE n = NDIRECT
  <2>1. q = Stop(r, "deep")
    BY <1>3 DEF add_file_block
  <2>2. QED
    BY <1>1, <2>1, StopInOrder
<1>4. CASE n # NDIRECT
  <2>1. q = Return(Put(s, d), s.ret)
    BY <1>4 DEF add_file_block, PutInode
  <2>2. s \in Run /\ s.disk \in Disk /\ s.ret \in Position /\ InOrder(s, L)
    BY <1>2, RunDisk, Volume DEF Orderly, Unmoved, InOrder
  <2>3. CASE s.status # "ok"
    <3>1. Put(s, d) = s
      BY <2>3 DEF Put
    <3>2. InOrder(q, L) /\ (Going(q) <=> Going(s))
      BY <2>1, <2>2, <3>1, ReturnInOrder
    <3>3. QED
      BY <2>3, <3>2 DEF Going
  <2>4. CASE s.status = "ok"
    <3> HIDE DEF d, s
    <3>2. /\ q.disk = d /\ q.mishaps = s.mishaps /\ q.status = "ok" /\ q.ret = s.ret
          /\ q.cuts = s.cuts \cup {[disk |-> s.disk, mishaps |-> s.mishaps]}
      BY <2>1, <2>2, <2>4 DEF Run, Put, Return
    <3>3. Going(s) <=> Going(q)
      BY <2>4, <3>2 DEF Going
    <3>4. ASSUME Going(s) PROVE Lengthened(s.disk, q.disk, i, s.disk.inode_table[i].i_blocks, q.ret)
      <4>1. n = s.disk.inode_table[i].i_blocks
        BY <1>2, <3>4
      <4>2. QED
        BY <1>2, <1>4, <2>2, <3>2, <4>1, AddBlock DEF d
    <3>5. QED
      BY <1>2, <2>4, <3>2, <3>3, <3>4
  <2>5. QED
    BY <2>3, <2>4
<1>5. QED
  BY <1>3, <1>4

\* Link names the new inode in the current directory, in a block that has room
\* or in a new one.
LEMMA LinkInOrder ==
    ASSUME Ordered, NEW r, Orderly(r), NEW k \in 0..INODE_COUNT, NEW name \in Names,
           found(name) = 0, Going(r) => Ready(r.disk, Live(disk), k, current_dir),
           NEW q, q = Link(r, current_dir, k, name)
    PROVE  InOrder(q, Live(disk) \cup {k}) /\ (Going(q) => Going(r))
<1> DEFINE c    == current_dir
           L    == Live(disk)
           M    == L \cup {k}
           d    == r.disk
           n    == d.inode_table[c].i_blocks
           room == {x \in 0..(n - 1) : CanInsert(BlockAt(d, c, x), name)}
           lost == \E x \in 0..(n - 1) : /\ \A y \in room : x < y
                                         /\ ~Terminates(BlockAt(d, c, x))
           X    == Min(room)
           b    == d.inode_table[c].i_block[X]
           r1   == PutBlock(r, b, Insert(d.data[b], k, name))
           r2   == add_file_block(r, c)
           r3   == PutBlock(Flag(r2, "exposed_block"), r2.ret, FirstEntry(k, name))
<1>1. /\ q = IF r.status # "ok" THEN r
             ELSE IF lost THEN Stop(r, "lost")
             ELSE IF room = {} THEN [r3 EXCEPT !.mishaps = r2.mishaps]
             ELSE IF Overwritten(d.data[b], k, name) = {} THEN r1
             ELSE Flag(r1, "gap_overwrite")
  BY DEF Link
<1>2. /\ r \in Run /\ d \in Disk /\ c \in Inode /\ name \in AllNames /\ Unmoved(r) /\ InOrder(r, L)
  BY RunDisk DEF Orderly, Unmoved, InOrder, Ordered, TypeOK, AllNames
<1>3. q \in Run
  BY <1>2, LinkType
<1>4. Going(r) => /\ Tree(d, L) /\ c \in DirsOf(d, L) /\ DirInOrder(d, L, c)
                  /\ Ready(d, L, k, c) /\ "double_free" \notin r.mishaps
                  /\ \A x \in Places(d, c) : \A p \in Spots(d, c, x) : NameAt(d, c, x, p) # name
  <2> SUFFICES ASSUME Going(r)
               PROVE  /\ Tree(d, L) /\ c \in DirsOf(d, L) /\ DirInOrder(d, L, c)
                      /\ Ready(d, L, k, c) /\ "double_free" \notin r.mishaps
                      /\ \A x \in Places(d, c) : \A p \in Spots(d, c, x) : NameAt(d, c, x, p) # name
    OBVIOUS
  <2>1. Tree(d, L) /\ SameDirs(disk, d, L) /\ c \in L /\ IsDir(disk, c)
    BY <1>2 DEF Unmoved, InOrder, Ordered, DirsOf
  <2>2. c \in DirsOf(d, L)
    BY <2>1 DEF SameDirs, SameDir, DirsOf
  <2>3. DirInOrder(d, L, c)
    BY <2>1, <2>2 DEF Tree
  <2>4. "double_free" \notin r.mishaps
    BY <1>2 DEF InOrder, Fine, Going
  <2>5. \A x \in Places(d, c) : \A p \in Spots(d, c, x) : NameAt(d, c, x, p) # name
    BY <1>2, StillNoSuchName
  <2>6. QED
    BY <2>1, <2>2, <2>3, <2>4, <2>5
<1> HIDE DEF d
<1>5. CASE r.status # "ok"
  BY <1>1, <1>2, <1>5 DEF InOrder, Going
<1>6. CASE r.status = "ok" /\ lost
  <2>1. ~Going(r)
    <3>1. SUFFICES ASSUME Going(r) PROVE ~lost
      BY <1>6
    <3>2. ASSUME NEW x \in 0..(n - 1) PROVE Terminates(BlockAt(d, c, x))
      <4>1. BlockAt(d, c, x) \in Image /\ Tiled(BlockAt(d, c, x))
        BY <1>4, <3>1, <3>2 DEF DirInOrder, Places
      <4>2. QED
        BY <4>1, TiledFind
    <3>3. QED
      BY <3>2
  <2>2. q = Stop(r, "lost")
    BY <1>1, <1>6
  <2>3. InOrder(q, L) /\ ~Going(q)
    BY <1>2, <2>1, <2>2, StopInOrder
  <2>4. QED
    BY <2>3 DEF InOrder
<1>7. CASE r.status = "ok" /\ ~lost /\ room # {}
  <2>1. X \in Places(d, c) /\ CanInsert(BlockAt(d, c, X), name)
    <3>1. room \subseteq Nat
      BY <1>2
    <3>2. X \in room
      BY <1>7, <3>1, MinOfNats
    <3>3. QED
      BY <3>2 DEF Places
  <2> HIDE DEF lost, X, room
  <2>2. b = BlockOf(d, c, X) /\ d.data[b] = BlockAt(d, c, X)
    BY DEF BlockOf, BlockAt
  <2> DEFINE content == Insert(BlockAt(d, c, X), k, name)
             e == [d EXCEPT !.data[BlockOf(d, c, X)] = content]
             gap == Overwritten(BlockAt(d, c, X), k, name) # {}
  <2>3. /\ r1.disk = e /\ r1.mishaps = r.mishaps /\ r1.status = "ok" /\ r1 = Put(r, e)
        /\ r1.cuts = r.cuts \cup {[disk |-> r.disk, mishaps |-> r.mishaps]}
    <3>1. r1 = Put(r, e)
      BY <2>2 DEF PutBlock, d
    <3>2. QED
      BY <1>2, <1>7, <3>1, PutOk
  <2>4. q = IF gap THEN Flag(r1, "gap_overwrite") ELSE r1
    BY <1>1, <1>7, <2>2
  <2> HIDE DEF b, r1, e
  <2>5. /\ q.disk = e /\ q.status = "ok" /\ q.cuts = r.cuts \cup {[disk |-> r.disk, mishaps |-> r.mishaps]}
        /\ q.mishaps = IF gap THEN r.mishaps \cup {"gap_overwrite"} ELSE r.mishaps
    <3>1. r1 = [r EXCEPT !.disk = e, !.cuts = @ \cup {[disk |-> r.disk, mishaps |-> r.mishaps]}]
      BY <1>7, <2>3 DEF Put
    <3> HIDE DEF gap
    <3>2. CASE gap
      BY <1>2, <1>7, <2>4, <3>1, <3>2 DEF Flag, Run
    <3>3. CASE ~gap
      BY <2>3, <2>4, <3>3
    <3>4. QED
      BY <3>2, <3>3
  <2>6. Clean(q.mishaps) => Going(r)
    BY <1>7, <2>5 DEF Clean, Going
  <2>7. ASSUME Clean(q.mishaps) PROVE Tree(q.disk, M) /\ Fine(q.disk, q.mishaps)
    <3>1. Going(r)
      BY <2>6, <2>7
    <3>2. e = [d EXCEPT !.data[BlockOf(d, c, X)] = Insert(BlockAt(d, c, X), k, name)]
      BY DEF e
    <3>3. /\ Tree(e, M) /\ SameDirs(d, e, L \ {c}) /\ IsDir(e, c)
          /\ ~gap => OneName(d, e, c)
      BY <1>2, <1>4, <2>1, <3>1, <3>2, LinkInBlock
    <3> HIDE DEF gap, M
    <3>4. Fine(e, q.mishaps)
      <4>1. "gap_overwrite" \notin q.mishaps => OneName(d, e, c)
        BY <2>5, <3>3
      <4>2. "double_free" \in q.mishaps => "double_free" \in r.mishaps
        BY <2>5
      <4>3. QED
        BY <1>2, <3>1, <3>3, <4>1, <4>2, FineChanged DEF d
    <3>5. QED
      BY <2>5, <3>3, <3>4
  <2> HIDE DEF gap, M
  <2>8. r.mishaps \subseteq q.mishaps
    BY <2>5
  <2>9. InOrder(q, M)
    BY <1>2, <1>3, <1>7, <2>5, <2>7, <2>8, ChangeInOrder
  <2>10. QED
    BY <2>5, <2>6, <2>9 DEF Going, M
<1>8. CASE r.status = "ok" /\ ~lost /\ room = {}
  <2>1. q = [r3 EXCEPT !.mishaps = r2.mishaps]
    BY <1>1, <1>8
  <2> HIDE DEF lost, room
  <2>2. \/ InOrder(r2, L) /\ ~Going(r2)
        \/ \E s : /\ Orderly(s) /\ s.status = "ok" /\ r2.status = "ok" /\ r2.mishaps = s.mishaps
                  /\ r2.cuts = s.cuts \cup {[disk |-> s.disk, mishaps |-> s.mishaps]}
                  /\ s.ret = r2.ret /\ r2.ret \in Block /\ (Going(s) <=> Going(r2))
                  /\ Going(s) =>
                       /\ Going(r) /\ s.disk.inode_table = r.disk.inode_table
                       /\ s.disk.inode_bitmap = r.disk.inode_bitmap
                       /\ s.disk.data = r.disk.data
                       /\ s.disk.block_bitmap = r.disk.block_bitmap \cup {r2.ret}
                       /\ r2.ret \notin r.disk.block_bitmap
                       /\ Lengthened(s.disk, r2.disk, c, s.disk.inode_table[c].i_blocks, r2.ret)
    BY <1>2, AddFileBlockSteps
  <2>3. r2 \in Run
    BY <1>2, AddFileBlockType
  <2> HIDE DEF r2
  <2>4. CASE r2.status # "ok"
    <3>1. r3 = r2
      BY <2>4 DEF PutBlock, Flag, Put
    <3>2. q = r2
      BY <2>1, <2>3, <3>1 DEF Run
    <3>3. InOrder(r2, L) /\ ~Going(r2)
      BY <2>2, <2>4
    <3>4. QED
      BY <3>2, <3>3 DEF InOrder
  <2>5. CASE r2.status = "ok"
    <3> DEFINE e == [r2.disk EXCEPT !.data[r2.ret] = FirstEntry(k, name)]
               exposed == [disk |-> r2.disk, mishaps |-> r2.mishaps \cup {"exposed_block"}]
    <3>1. /\ q.disk = e /\ q.mishaps = r2.mishaps /\ q.status = "ok"
          /\ q.cuts = r2.cuts \cup {exposed}
      BY <2>1, <2>3, <2>5 DEF PutBlock, Flag, Put, Run
    <3>2. ~Clean(exposed.mishaps)
      BY DEF Clean, Damaging
    <3> HIDE DEF e, exposed, r3
    <3>3. CASE InOrder(r2, L) /\ ~Going(r2)
      <4>1. ~Clean(r2.mishaps)
        BY <2>5, <3>3 DEF Going
      <4>2. \A a \in q.cuts : \/ a \in r2.cuts
                              \/ a = [disk |-> r2.disk, mishaps |-> r2.mishaps]
                              \/ ~Clean(a.mishaps)
        BY <3>1, <3>2
      <4>3. Clean(q.mishaps) => Tree(q.disk, M) /\ Fine(q.disk, q.mishaps)
        BY <3>1, <4>1
      <4>4. r2.mishaps \subseteq q.mishaps
        BY <3>1
      <4> HIDE DEF M
      <4>5. InOrder(q, M)
        BY <1>3, <2>5, <3>1, <3>3, <4>2, <4>3, <4>4, ChangeInOrder
      <4>6. QED
        BY <3>1, <4>1, <4>5 DEF Going, M
    <3>4. ASSUME NEW s, Orderly(s), s.status = "ok", r2.mishaps = s.mishaps,
                 r2.cuts = s.cuts \cup {[disk |-> s.disk, mishaps |-> s.mishaps]},
                 s.ret = r2.ret, r2.ret \in Block, Going(s) <=> Going(r2),
                 Going(s) =>
                       /\ Going(r) /\ s.disk.inode_table = r.disk.inode_table
                       /\ s.disk.inode_bitmap = r.disk.inode_bitmap
                       /\ s.disk.data = r.disk.data
                       /\ s.disk.block_bitmap = r.disk.block_bitmap \cup {r2.ret}
                       /\ r2.ret \notin r.disk.block_bitmap
                       /\ Lengthened(s.disk, r2.disk, c, s.disk.inode_table[c].i_blocks, r2.ret)
          PROVE  InOrder(q, M) /\ (Going(q) => Going(r))
      <4> DEFINE f == s.disk
                 v == r2.ret
      <4>1. Unmoved(s) /\ InOrder(s, L) /\ f \in Disk
        BY <3>4, RunDisk DEF Orderly, Unmoved, InOrder
      <4>2. \A a \in q.cuts : \/ a \in s.cuts
                              \/ a = [disk |-> s.disk, mishaps |-> s.mishaps]
                              \/ ~Clean(a.mishaps)
        BY <3>1, <3>2, <3>4
      <4>3. Clean(q.mishaps) => Going(s)
        BY <3>1, <3>4 DEF Going
      <4>4. ASSUME Going(s) PROVE Tree(e, M) /\ Fine(e, s.mishaps)
        <5>1. /\ Going(r) /\ f.inode_table = d.inode_table
              /\ f.inode_bitmap = d.inode_bitmap /\ f.data = d.data
              /\ f.block_bitmap = d.block_bitmap \cup {v} /\ v \notin d.block_bitmap
          BY <3>4, <4>4 DEF d
        <5>2. \A i : /\ Places(f, i) = Places(d, i) /\ (IsDir(f, i) <=> IsDir(d, i))
                     /\ \A x : /\ BlockOf(f, i, x) = BlockOf(d, i, x)
                               /\ BlockAt(f, i, x) = BlockAt(d, i, x)
          BY <5>1 DEF Places, IsDir, BlockOf, BlockAt
        <5>3. Tree(f, L) /\ c \in DirsOf(f, L)
          BY <1>4, <4>1, <4>4, <5>1, <5>2 DEF InOrder, DirsOf
        <5>4. Ready(f, L, k, c)
          <6>1. Ready(d, L, k, c)
            BY <1>4, <5>1
          <6>2. Allocated(f, L \cup {k})
            BY <5>1, <5>2, <6>1 DEF Ready, Allocated
          <6>3. QED
            BY <5>2, <6>1, <6>2 DEF Ready
        <5>5. Spare(f, L \cup {k}, v)
          BY <1>4, <5>1, <5>2 DEF Ready, Allocated, Spare
        <5>6. \A x \in Places(f, c) : \A p \in Spots(f, c, x) : NameAt(f, c, x, p) # name
          BY <1>4, <5>1, <5>2 DEF Spots, NameAt
        <5>7. e = [r2.disk EXCEPT !.data[v] = FirstEntry(k, name)] /\ v \in Block
          BY <3>4 DEF e
        <5>8. Lengthened(f, r2.disk, c, f.inode_table[c].i_blocks, v)
          BY <3>4, <4>4
        <5> HIDE DEF f, v
        <5>9. /\ Tree(e, M) /\ SameDirs(f, e, L \ {c}) /\ IsDir(e, c) /\ OneName(f, e, c)
          BY <4>1, <5>3, <5>4, <5>5, <5>6, <5>7, <5>8, LinkInNewBlock
        <5>10. Fine(e, s.mishaps)
          BY <4>1, <4>4, <5>9, FineChanged DEF f
        <5>11. QED
          BY <5>9, <5>10
      <4> HIDE DEF M
      <4>5. InOrder(q, M)
        BY <1>3, <3>1, <3>4, <4>1, <4>2, <4>3, <4>4, ChangeInOrder
      <4>6. Going(q) => Going(r)
        BY <3>1, <3>4, <4>3 DEF Going
      <4>7. QED
        BY <4>5, <4>6
    <3>5. QED
      BY <2>2, <3>3, <3>4
  <2>6. QED
    BY <2>4, <2>5
<1>9. QED
  BY <1>5, <1>6, <1>7, <1>8

-----------------------------------------------------------------------------
(* Searching a volume in order.                                             *)

\* The search with which a command begins comes to an end.
LEMMA SearchIsStart ==
    ASSUME Ordered, NEW name
    PROVE  Search(name) = Start /\ SearchEnds(name)
<1>1. ASSUME NEW x \in 0..(disk.inode_table[current_dir].i_blocks - 1)
      PROVE  Readable(BlockAt(disk, current_dir, x), name)
  <2>1. DirInOrder(disk, Live(disk), current_dir)
    BY DEF Ordered, Tree
  <2>2. BlockAt(disk, current_dir, x) \in Image /\ Tiled(BlockAt(disk, current_dir, x))
    BY <2>1 DEF DirInOrder, Places
  <2>3. QED
    BY <2>2, TiledFind
<1>2. ~SearchLost(disk, current_dir, name)
  BY <1>1 DEF SearchLost
<1>3. QED
  BY <1>2 DEF Search, SearchEnds, Start

\* "." and ".." are found, and are directories.
LEMMA DotsFound ==
    ASSUME Ordered, NEW name \in {".", ".."}
    PROVE  found(name) \in DirsOf(disk, Live(disk))
<1> DEFINE c == current_dir
           L == Live(disk)
           img == BlockAt(disk, c, 0)
<1>1. /\ disk \in Disk /\ c \in Inode /\ c \in DirsOf(disk, L) /\ IsDir(disk, c)
      /\ Tree(disk, L) /\ DirInOrder(disk, L, c)
  BY DEF Ordered, TypeOK, Tree, DirsOf
<1>2. 0 \in Places(disk, c) /\ img \in Image /\ Tiled(img) /\ Header(img, c, Up(disk, c))
  BY <1>1 DEF DirInOrder
<1>3. ASSUME NEW p \in Walk(img) \ {0, 8} PROVE At(img, p).name # name
  <2>1. EntryInOrder(disk, L, c, 0, p)
    BY <1>1, <1>2 DEF DirInOrder, Spots
  <2>2. At(img, p).name \in Names
    BY <2>1 DEF EntryInOrder, NameAt
  <2>3. QED
    BY <2>2, NamesAssumption
<1>4. 0 \in Walk(img) /\ 8 \in Walk(img)
  BY <1>2, TiledWalk DEF Header
<1>5. /\ name = "." => Matches(img, name) = {0}
      /\ name = ".." => Matches(img, name) = {8}
  BY <1>2, <1>3, <1>4 DEF Header, Matches
<1>6. \A n \in Nat : Min({n}) = n
  <2>1. TAKE n \in Nat
  <2>2. {n} \subseteq Nat /\ {n} # {}
    OBVIOUS
  <2>3. Min({n}) \in {n}
    BY <2>2, MinOfNats
  <2>4. QED
    BY <2>3
<1>7. Find(img, name) \in {c, Up(disk, c)} /\ Find(img, name) # 0
  <2>1. Matches(img, name) # {} /\ Find(img, name) = At(img, Min(Matches(img, name))).inode
    BY <1>2, <1>5, TiledFind
  <2>2. Find(img, name) # 0
    BY <1>2, <2>1, TiledFind
  <2>3. CASE name = "."
    BY <1>2, <1>5, <1>6, <2>1, <2>2, <2>3 DEF Header
  <2>4. CASE name = ".."
    BY <1>2, <1>5, <1>6, <2>1, <2>2, <2>4 DEF Header
  <2>5. QED
    BY <2>3, <2>4
<1>8. found(name) = Find(img, name)
  <2>1. 0 \in Hits(disk, c, name)
    BY <1>2, <1>7 DEF Hits, Places
  <2>2. Hits(disk, c, name) \subseteq Nat
    BY DEF Hits
  <2>3. Min(Hits(disk, c, name)) = 0
    <3>1. Min(Hits(disk, c, name)) \in Nat /\ Min(Hits(disk, c, name)) <= 0
      BY <2>1, <2>2, MinOfNats
    <3>2. QED
      BY <3>1
  <2>4. QED
    BY <2>1, <2>3 DEF found, search_file
<1>9. Up(disk, c) \in DirsOf(disk, L)
  <2>1. CASE c = ROOT
    BY <1>1, <2>1 DEF Tree
  <2>2. CASE c # ROOT
    <3>1. c \in L \ {ROOT}
      BY <1>1, <2>2 DEF DirsOf
    <3>2. PICK j \in DirsOf(disk, L) \ {c} : \E x \in Places(disk, j) : \E p \in Spots(disk, j, x) :
              InodeAt(disk, j, x, p) = c
      BY <1>1, <3>1, NamedBySome
    <3>3. DirInOrder(disk, L, j)
      BY <1>1 DEF Tree
    <3>4. Up(disk, c) = j
      BY <1>1, <3>2, <3>3 DEF DirInOrder, EntryInOrder
    <3>5. QED
      BY <3>2, <3>4
  <2>3. QED
    BY <2>1, <2>2
<1>10. QED
  BY <1>1, <1>7, <1>8, <1>9

\* Where the current directory has the name of inode k.
NamedHere(name, k, X) ==
    /\ Hits(disk, current_dir, name) # {} /\ X = Min(Hits(disk, current_dir, name))
    /\ X \in Places(disk, current_dir)
    /\ Matches(BlockAt(disk, current_dir, X), name) # {}
    /\ k = Find(BlockAt(disk, current_dir, X), name)
    /\ k \in Live(disk) \ {ROOT, current_dir}

\* Any other name that is found leads to an inode other than the root and the
\* current directory.
LEMMA NameFound ==
    ASSUME Ordered, NEW name \in Names, found(name) # 0
    PROVE  \E X : NamedHere(name, found(name), X)
<1> DEFINE c == current_dir
           L == Live(disk)
           X == Min(Hits(disk, c, name))
           img == BlockAt(disk, c, X)
           k == found(name)
<1>1. /\ disk \in Disk /\ c \in Inode /\ c \in DirsOf(disk, L) /\ IsDir(disk, c)
      /\ Tree(disk, L) /\ DirInOrder(disk, L, c) /\ NamedOnce(disk, L)
  BY DEF Ordered, TypeOK, Tree, DirsOf
<1>2. Hits(disk, c, name) # {} /\ k = Find(img, name)
  BY DEF found, search_file
<1>3. X \in Places(disk, c) /\ Find(img, name) # 0
  BY <1>1, <1>2, FirstHit DEF Places
<1>4. img \in Image /\ Tiled(img)
  BY <1>1, <1>3 DEF DirInOrder
<1> DEFINE m == Min(Matches(img, name))
<1>5. /\ Matches(img, name) # {} /\ m \in Walk(img) /\ At(img, m).name = name
      /\ k = At(img, m).inode
  BY <1>2, <1>3, <1>4, TiledFind
<1>6. m \in Spots(disk, c, X) /\ InodeAt(disk, c, X, m) = k
  <2>1. X = 0 => m \notin {0, 8}
    <3>1. Header(BlockAt(disk, c, 0), c, Up(disk, c))
      BY <1>1 DEF DirInOrder
    <3>2. X = 0 => At(img, 0).name = "." /\ At(img, 8).name = ".."
      BY <3>1 DEF Header
    <3>3. QED
      BY <1>5, <3>2, NamesAssumption
  <2>2. QED
    BY <1>5, <2>1 DEF Spots, InodeAt
<1> HIDE DEF m, X, k
<1>7. k \in L \ {ROOT}
  <2>1. EntryInOrder(disk, L, c, X, m)
    BY <1>1, <1>3, <1>6 DEF DirInOrder
  <2>2. QED
    BY <1>6, <2>1 DEF EntryInOrder
<1>8. k # c
  <2>1. SUFFICES ASSUME k = c PROVE FALSE
    OBVIOUS
  <2>2. PICK j \in DirsOf(disk, L) \ {c} : \E x \in Places(disk, j) : \E p \in Spots(disk, j, x) :
              InodeAt(disk, j, x, p) = c
    BY <1>1, <1>7, <2>1, NamedBySome
  <2>3. PICK x \in Places(disk, j) : \E p \in Spots(disk, j, x) : InodeAt(disk, j, x, p) = c
    BY <2>2
  <2>4. PICK p \in Spots(disk, j, x) : InodeAt(disk, j, x, p) = c
    BY <2>3
  <2>5. QED
    BY <1>1, <1>3, <1>6, <2>1, <2>2, <2>4 DEF NamedOnce
<1>9. NamedHere(name, k, X)
  BY <1>2, <1>3, <1>5, <1>7, <1>8 DEF NamedHere, X
<1>10. QED
  BY <1>9 DEF k

-----------------------------------------------------------------------------
(* Changing what the directories do not consist of.                         *)

\* The disks d and e have the same inodes, apart from sizes and permissions,
\* with the same blocks.
SameShape(d, e) ==
    /\ e.data = d.data
    /\ \A j \in Inode : /\ e.inode_table[j].type = d.inode_table[j].type
                        /\ e.inode_table[j].i_blocks = d.inode_table[j].i_blocks
                        /\ e.inode_table[j].i_block = d.inode_table[j].i_block

\* So a volume in order stays so while what is in use stays allocated.
LEMMA ShapeTree ==
    ASSUME NEW d, NEW e, SameShape(d, e), NEW L, Tree(d, L),
           L \subseteq e.inode_bitmap,
           \A i \in L : \A x \in Places(d, i) : BlockOf(d, i, x) \in e.block_bitmap
    PROVE  Tree(e, L)
<1>1. L \subseteq Inode
  BY DEF Tree
<1>2. Beside(d, e, L)
  BY <1>1 DEF Beside, SameShape, BlockAt, BlockOf
<1>3. QED
  BY <1>2, BesideTree

\* Disks of the same shape have the same directories, whichever inodes are asked for.
LEMMA ShapeDirs ==
    ASSUME NEW d, NEW e, SameShape(d, e), NEW L, L \subseteq Inode
    PROVE  SameDirs(d, e, L)
BY DEF SameShape, SameDirs, SameDir, Places, BlockOf, BlockAt, IsDir

\* An inode that is written with the same type and blocks.
LEMMA PutInodeInOrder ==
    ASSUME Ordered, NEW r, NEW L, InOrder(r, L), NEW i \in Inode, NEW e \in InodeEntry,
           e.type = r.disk.inode_table[i].type, e.i_blocks = r.disk.inode_table[i].i_blocks,
           e.i_block = r.disk.inode_table[i].i_block, NEW q, q = PutInode(r, i, e)
    PROVE  /\ InOrder(q, L) /\ (Going(q) <=> Going(r))
           /\ Going(r) => SameShape(r.disk, q.disk) /\ q.disk.inode_bitmap = r.disk.inode_bitmap
                          /\ q.disk.block_bitmap = r.disk.block_bitmap
                          /\ q.disk.inode_table[i] = e
           /\ Unmoved(r) => Unmoved(q)
<1> DEFINE d == [r.disk EXCEPT !.inode_table[i] = e]
<1>1. r \in Run /\ r.disk \in Disk
  BY RunDisk DEF InOrder
<1>2. /\ d \in Disk /\ SameShape(r.disk, d) /\ d.inode_table[i] = e
      /\ d.inode_bitmap = r.disk.inode_bitmap /\ d.block_bitmap = r.disk.block_bitmap
  BY <1>1 DEF Disk, SameShape
<1>3. q = Put(r, d)
  BY DEF PutInode
<1> HIDE DEF d
<1>4. Live(disk) \subseteq Inode
  BY DEF Live
<1>5. ASSUME Going(r) PROVE Tree(d, L) /\ SameDirs(r.disk, d, Live(disk)) /\ SameDirs(r.disk, d, L)
  <2>1. Tree(r.disk, L) /\ Allocated(r.disk, L) /\ L \subseteq Inode
    BY <1>5 DEF InOrder, Tree
  <2>2. Tree(d, L)
    BY <1>2, <2>1, ShapeTree DEF Allocated
  <2>3. QED
    BY <1>2, <1>4, <2>1, <2>2, ShapeDirs
<1>6. /\ InOrder(q, L) /\ (Going(q) <=> Going(r)) /\ (Going(r) => q.disk = d)
  BY <1>2, <1>3, <1>5, PutInOrder
<1>7. Unmoved(r) => Unmoved(q)
  <2>1. ASSUME Unmoved(r) PROVE InOrder(q, Live(disk))
    <3>1. InOrder(r, Live(disk))
      BY <2>1 DEF Unmoved
    <3>2. ASSUME Going(r) PROVE Tree(d, Live(disk))
      <4>1. Tree(r.disk, Live(disk)) /\ Allocated(r.disk, Live(disk))
        BY <3>1, <3>2 DEF InOrder, Tree
      <4>2. QED
        BY <1>2, <4>1, ShapeTree DEF Allocated
    <3>3. QED
      BY <1>2, <1>3, <1>5, <3>1, <3>2, PutInOrder
  <2>2. ASSUME Unmoved(r), Going(q) PROVE SameDirs(disk, q.disk, Live(disk))
    <3>1. SameDirs(disk, r.disk, Live(disk)) /\ SameDirs(r.disk, q.disk, Live(disk))
      BY <1>5, <1>6, <2>2 DEF Unmoved
    <3>2. QED
      BY <3>1, SameDirsTransitive
  <2>3. QED
    BY <2>1, <2>2 DEF Unmoved
<1>8. QED
  BY <1>2, <1>6, <1>7

\* A size.
LEMMA ResizeInOrder ==
    ASSUME Ordered, NEW r, NEW L, InOrder(r, L), NEW i \in Inode, NEW delta \in Int,
           NEW q, q = Resize(r, i, delta)
    PROVE  InOrder(q, L) /\ (Going(q) <=> Going(r)) /\ (Unmoved(r) => Unmoved(q))
<1> DEFINE old == r.disk.inode_table[i]
           n == (old.i_size + delta) % SIZE_MOD
           e == [old EXCEPT !.i_size = n]
<1>1. r \in Run /\ r.disk \in Disk
  BY RunDisk DEF InOrder
<1>2. old \in InodeEntry
  BY <1>1 DEF Disk
<1>3. n \in 0..(SIZE_MOD - 1)
  <2>1. old.i_size \in Int /\ SIZE_MOD \in Nat \ {0}
    BY <1>2, VolumeAssumption DEF InodeEntry
  <2>2. QED
    BY <2>1
<1>4. q = PutInode(r, i, e)
  BY DEF Resize
<1> HIDE DEF n
<1>5. /\ e \in InodeEntry /\ e.type = old.type /\ e.i_blocks = old.i_blocks /\ e.i_block = old.i_block
  BY <1>2, <1>3 DEF InodeEntry
<1> HIDE DEF e
<1>6. QED
  BY <1>4, <1>5, PutInodeInOrder

\* mkdir and create.
LEMMA MakeRunInOrder ==
    ASSUME Ordered, NEW name \in Args, found(name) = 0, NEW type \in {FT_REG_FILE, FT_DIR},
           NEW q, q = MakeRun(name, type)
    PROVE  /\ name \in Names
           /\ InOrder(q, Live(disk) \cup {new_dir_entry(Start, name, type, current_dir).ret})
<1> DEFINE r1 == new_dir_entry(Start, name, type, current_dir)
           k  == r1.ret
           r2 == Link(r1, current_dir, k, name)
<1>1. name \in Names
  <2>1. SUFFICES ASSUME name \in {".", ".."} PROVE FALSE
    BY DotsAssumption DEF Args
  <2>2. found(name) \in Inode
    BY <2>1, DotsFound DEF DirsOf, Live
  <2>3. QED
    BY <2>2, SizesAssumption DEF Inode
<1>2. q = Resize(r2, current_dir, EntryBytes(name))
  BY SearchIsStart DEF MakeRun
<1>3. /\ Orderly(r1) /\ k \in 0..INODE_COUNT
      /\ Going(r1) => Ready(r1.disk, Live(disk), k, current_dir)
  BY StartOrderly, NewDirEntryOrderly
<1> HIDE DEF r1, k
<1>4. InOrder(r2, Live(disk) \cup {k})
  BY <1>1, <1>3, LinkInOrder
<1>5. current_dir \in Inode /\ EntryBytes(name) \in Int
  BY <1>1, EntryBytesBounds DEF Ordered, TypeOK, AllNames
<1> HIDE DEF r2
<1>6. InOrder(q, Live(disk) \cup {k})
  BY <1>2, <1>4, <1>5, ResizeInOrder
<1>7. QED
  BY <1>1, <1>6 DEF k, r1

\* chmod.
LEMMA AttribRunInOrder ==
    ASSUME Ordered, NEW name \in Args, NEW i \in Inode, NEW change \in {2, 4, 6, 7},
           NEW q, q = PutInode(Search(name), i, [entry(i) EXCEPT !.perm = change])
    PROVE  \E L : InOrder(q, L)
<1> DEFINE old == disk.inode_table[i]
           e == [old EXCEPT !.perm = change]
<1>1. q = PutInode(Start, i, e)
  BY SearchIsStart DEF entry
<1>2. /\ InOrder(Start, Live(disk)) /\ Start.disk = disk
  BY StartOrderly DEF Orderly, Unmoved
<1>3. old \in InodeEntry
  BY DEF Ordered, TypeOK, Disk
<1>4. e \in InodeEntry /\ e.type = old.type /\ e.i_blocks = old.i_blocks /\ e.i_block = old.i_block
  BY <1>3 DEF InodeEntry
<1> HIDE DEF e
<1>5. InOrder(q, Live(disk))
  BY <1>1, <1>2, <1>4, PutInodeInOrder
<1>6. QED
  BY <1>5

\* What is left of a run that has failed is of no matter.
LEMMA UncleanInOrder ==
    ASSUME NEW r, NEW L, InOrder(r, L), ~Clean(r.mishaps), NEW q \in Run, Keeps(r, q, 0, 0), NEW M
    PROVE  InOrder(q, M) /\ ~Clean(q.mishaps)
<1>1. ~Clean(q.mishaps)
  BY DEF Keeps, Clean
<1>2. ASSUME NEW c \in q.cuts PROVE Fine(c.disk, c.mishaps)
  <2>1. c \in r.cuts \/ r.mishaps \subseteq c.mishaps
    BY DEF Keeps
  <2>2. QED
    BY <2>1 DEF InOrder, Fine, Clean
<1>3. QED
  BY <1>1, <1>2 DEF InOrder, Fine, Going

-----------------------------------------------------------------------------
(* Unlinking.                                                               *)

\* What delete_in_block writes for a name of the current directory.
LEMMA UnlinkWrites ==
    ASSUME Ordered, NEW name, NEW k, NEW X, NamedHere(name, k, X), NEW img,
           img = BlockAt(disk, current_dir, X), NEW q, q = Unlink(Start, current_dir, name)
    PROVE  /\ q.disk = [disk EXCEPT !.data[BlockOf(disk, current_dir, X)] = Delete(img, name)]
           /\ q.cuts = {[disk |-> disk, mishaps |-> mishaps]} /\ q.status = "ok" /\ q \in Run
           /\ q.mishaps = IF Min(Matches(img, name)) = 0 THEN mishaps \cup {"first_entry"} ELSE mishaps
<1> DEFINE c == current_dir
           b0 == BlockOf(disk, c, X)
           hit(b) == /\ \E x \in 0..X : disk.inode_table[c].i_block[x] = b
                     /\ disk.data[b] # FileBytes
                     /\ Matches(disk.data[b], name) # {}
           next == [b \in Block |-> IF hit(b) THEN Delete(disk.data[b], name) ELSE disk.data[b]]
           r1 == Put(Start, [disk EXCEPT !.data = next])
           first == Min(Matches(img, name)) = 0
<1>1. /\ disk \in Disk /\ c \in Inode /\ DirInOrder(disk, Live(disk), c)
      /\ Hits(disk, c, name) # {} /\ X = Min(Hits(disk, c, name))
  BY DEF Ordered, TypeOK, Tree, NamedHere
<1>2. Start = [disk |-> disk, mishaps |-> mishaps, cuts |-> {}, ret |-> 0, status |-> "ok"]
  BY DEF Start, Begin
<1>3. q \in Run
  BY StartOrderly, UnlinkType DEF Orderly, Unmoved, InOrder
<1>4. img = disk.data[b0]
  BY DEF BlockAt, BlockOf
<1>5. q = IF first THEN Flag(r1, "first_entry") ELSE r1
  BY <1>1, <1>2, <1>4 DEF Unlink, BlockOf
<1>6. \A b \in Block : hit(b) <=> b = b0
  BY <1>1, HitsOne
<1>7. b0 \in Block
  <2>1. X \in Places(disk, c)
    BY DEF NamedHere
  <2>2. QED
    BY <1>1, <2>1, PlacesType
<1>8. next = [disk.data EXCEPT ![b0] = Delete(img, name)]
  <2>1. disk.data \in [Block -> Content]
    BY <1>1 DEF Disk
  <2> HIDE DEF hit, b0
  <2>2. next = [b \in Block |-> IF b = b0 THEN Delete(img, name) ELSE disk.data[b]]
    BY <1>4, <1>6
  <2>3. QED
    BY <1>7, <2>1, <2>2
<1> HIDE DEF next, b0, first
<1>9. r1 = [Start EXCEPT !.disk = [disk EXCEPT !.data[b0] = Delete(img, name)],
                         !.cuts = {[disk |-> disk, mishaps |-> mishaps]}]
  BY <1>2, <1>8 DEF Put
<1>10. /\ r1.disk = [disk EXCEPT !.data[b0] = Delete(img, name)] /\ r1.status = "ok"
       /\ r1.mishaps = mishaps /\ r1.cuts = {[disk |-> disk, mishaps |-> mishaps]}
       /\ r1 = [disk |-> r1.disk, mishaps |-> mishaps, cuts |-> r1.cuts, ret |-> 0, status |-> "ok"]
  BY <1>2, <1>9
<1> HIDE DEF r1
<1>11. /\ q.disk = r1.disk /\ q.cuts = r1.cuts /\ q.status = "ok"
       /\ q.mishaps = IF first THEN mishaps \cup {"first_entry"} ELSE mishaps
  <2>1. CASE first
    <3>1. q = [r1 EXCEPT !.mishaps = @ \cup {"first_entry"}]
      BY <1>5, <1>10, <2>1 DEF Flag
    <3>2. QED
      BY <1>10, <2>1, <3>1
  <2>2. CASE ~first
    BY <1>5, <1>10, <2>2
  <2>3. QED
    BY <2>1, <2>2
<1>12. QED
  BY <1>3, <1>10, <1>11 DEF b0, first

\* Unlink takes the name out of the current directory.
LEMMA UnlinkInOrder ==
    ASSUME Ordered, NEW name \in Names, NEW k, NEW X, NamedHere(name, k, X),
           NEW q, q = Unlink(Start, current_dir, name)
    PROVE  /\ InOrder(q, Live(disk) \ {k}) /\ q.status = "ok"
           /\ Going(q) => Allocated(q.disk, Live(disk))
<1> DEFINE c == current_dir
           L == Live(disk)
           img == BlockAt(disk, c, X)
           first == Min(Matches(img, name)) = 0
           e == [disk EXCEPT !.data[BlockOf(disk, c, X)] = Delete(img, name)]
<1>1. /\ q.disk = e /\ q.cuts = {[disk |-> disk, mishaps |-> mishaps]} /\ q.status = "ok" /\ q \in Run
      /\ q.mishaps = IF first THEN mishaps \cup {"first_entry"} ELSE mishaps
  BY UnlinkWrites
<1>2. /\ Unmoved(Start) /\ InOrder(Start, L) /\ Going(Start) /\ Start.disk = disk
      /\ Start.mishaps = mishaps /\ Start.status = "ok"
  BY StartOrderly DEF Orderly, Unmoved, Going
<1>3. ASSUME Clean(q.mishaps)
      PROVE  Tree(q.disk, L \ {k}) /\ Fine(q.disk, q.mishaps) /\ Allocated(q.disk, L)
  <2>1. ~first
    BY <1>1, <1>3 DEF Clean, Damaging
  <2>2. /\ disk \in Disk /\ Tree(disk, L) /\ c \in DirsOf(disk, L)
        /\ X \in Places(disk, c) /\ Matches(img, name) # {} /\ k = Find(img, name) /\ k # c
    BY DEF Ordered, TypeOK, NamedHere
  <2>3. e = [disk EXCEPT !.data[BlockOf(disk, c, X)] = Delete(img, name)]
    OBVIOUS
  <2> HIDE DEF e, img
  <2>4. Min(Matches(img, name)) # 0 /\ img = BlockAt(disk, c, X)
    BY <2>1 DEF img
  <2>5. /\ Tree(e, L \ {k}) /\ SameDirs(disk, e, L \ {c}) /\ IsDir(e, c)
        /\ OneName(disk, e, c) /\ Allocated(e, L)
    BY <2>2, <2>3, <2>4, UnlinkEntry
  <2>6. Fine(e, mishaps)
    BY <1>2, <2>5, FineChanged
  <2>7. QED
    BY <1>1, <2>1, <2>5, <2>6
<1>4. InOrder(q, L \ {k})
  <2>1. Start.mishaps \subseteq q.mishaps
    BY <1>1, <1>2
  <2> DEFINE M == L \ {k}
  <2>2. Clean(q.mishaps) => Tree(q.disk, M) /\ Fine(q.disk, q.mishaps)
    BY <1>3
  <2>3. \A a \in q.cuts : \/ a \in Start.cuts
                          \/ a = [disk |-> Start.disk, mishaps |-> Start.mishaps]
                          \/ ~Clean(a.mishaps)
    BY <1>1, <1>2
  <2> HIDE DEF M
  <2>4. InOrder(q, M)
    BY <1>1, <1>2, <2>1, <2>2, <2>3, ChangeInOrder
  <2>5. QED
    BY <2>4 DEF M
<1>5. QED
  BY <1>1, <1>3, <1>4 DEF Going

\* Freeing blocks of inode k frees no block of another.
LEMMA FreedBeside ==
    ASSUME NEW d \in Disk, NEW L, L \subseteq Inode, Allocated(d, L), NEW k \in L,
           NEW j \in 0..d.inode_table[k].i_blocks, NEW n \in Int, NEW e, e = Freed(d, k, j, n)
    PROVE  /\ ~FreesTwice(d, k, j) /\ SameShape(d, e) /\ e \in Disk
           /\ e.inode_bitmap = d.inode_bitmap
           /\ \A i \in L \ {k} : \A x \in Places(d, i) : BlockOf(d, i, x) \in e.block_bitmap
<1> DEFINE at == d.inode_table[k].i_block
           times(b) == Cardinality({x \in 0..(j - 1) : at[x] = b})
           bits == {b \in Block : (b \in d.block_bitmap) # (times(b) % 2 = 1)}
           count == (d.free_blocks_count + n) % USHORT
<1>1. e = [d EXCEPT !.block_bitmap = bits, !.free_blocks_count = count]
  BY DEF Freed
<1>2. e \in Disk
  BY FreedType
<1>3. d.inode_table[k].i_blocks \in Nat
  <2>1. d.inode_table[k] \in InodeEntry
    BY DEF Disk
  <2>2. QED
    BY <2>1, VolumeAssumption DEF InodeEntry
<1>4. \A x \in 0..(j - 1) : x \in Places(d, k) /\ at[x] = BlockOf(d, k, x)
  BY <1>3 DEF Places, BlockOf
<1>5. ~FreesTwice(d, k, j)
  <2>1. ASSUME NEW x \in 0..(j - 1) PROVE at[x] \in d.block_bitmap /\ \A y \in 0..(x - 1) : at[y] # at[x]
    <3>1. at[x] \in d.block_bitmap
      BY <1>4 DEF Allocated
    <3>2. ASSUME NEW y \in 0..(x - 1), at[y] = at[x] PROVE FALSE
      <4>1. y \in 0..(j - 1) /\ y # x
        BY <2>1, <3>2
      <4>2. QED
        BY <1>4, <2>1, <3>2, <4>1 DEF Allocated
    <3>3. QED
      BY <3>1, <3>2
  <2>2. QED
    BY <2>1 DEF FreesTwice
<1>6. /\ e.data = d.data /\ e.inode_table = d.inode_table /\ e.inode_bitmap = d.inode_bitmap
      /\ e.block_bitmap = bits
  BY <1>1 DEF Disk
<1>7. ASSUME NEW i \in L \ {k}, NEW x \in Places(d, i) PROVE BlockOf(d, i, x) \in e.block_bitmap
  <2>1. BlockOf(d, i, x) \in Block /\ BlockOf(d, i, x) \in d.block_bitmap
    BY <1>7, PlacesType DEF Allocated
  <2>2. \A y \in 0..(j - 1) : at[y] # BlockOf(d, i, x)
    BY <1>4, <1>7 DEF Allocated
  <2>3. {y \in 0..(j - 1) : at[y] = BlockOf(d, i, x)} = {}
    BY <2>2
  <2>4. times(BlockOf(d, i, x)) = 0
    BY <2>3, FS_EmptySet
  <2> HIDE DEF times
  <2>5. ~(times(BlockOf(d, i, x)) % 2 = 1)
    BY <2>4
  <2>6. BlockOf(d, i, x) \in bits
    BY <2>1, <2>5, Zenon
  <2>7. QED
    BY <1>6, <2>6
<1>8. SameShape(d, e)
  BY <1>6 DEF SameShape
<1>9. QED
  BY <1>2, <1>5, <1>6, <1>7, <1>8

\* free_file_blocks after that.
LEMMA FreeFileBlocksInOrder ==
    ASSUME Ordered, NEW r, NEW k \in Live(disk), InOrder(r, Live(disk) \ {k}), r.status = "ok",
           Going(r) => Allocated(r.disk, Live(disk)), NEW q, q = free_file_blocks(r, k)
    PROVE  /\ InOrder(q, Live(disk) \ {k}) /\ (Going(q) => Going(r) /\ k \in q.disk.inode_bitmap)
<1> DEFINE d == r.disk
           L == Live(disk)
           M == L \ {k}
           n == d.inode_table[k].i_blocks
           seen(j) == IF FreesTwice(d, k, j) THEN r.mishaps \cup {"double_free"} ELSE r.mishaps
           whole == {[disk |-> Freed(d, k, j, j), mishaps |-> seen(j)] : j \in 0..(n - 1)}
           half == {[disk |-> Freed(d, k, j + 1, j), mishaps |-> seen(j + 1)] : j \in 0..(n - 1)}
<1>1. r \in Run /\ d \in Disk /\ L \subseteq Inode /\ k \in Inode
  BY RunDisk DEF InOrder, Live
<1>2. q \in Run /\ Keeps(r, q, 0, 0)
  <2>1. Drift(0, 0)
    BY SessionAssumption DEF Drift, Abs
  <2>2. QED
    BY <1>1, <2>1, FreeFileBlocksType, FreeFileBlocksKeeps
<1>3. CASE ~Clean(r.mishaps)
  <2>1. InOrder(q, M) /\ ~Clean(q.mishaps)
    BY <1>2, <1>3, UncleanInOrder
  <2>2. QED
    BY <2>1 DEF Going
<1>4. CASE Clean(r.mishaps)
  <2>1. Going(r) /\ Tree(d, M) /\ Allocated(d, L) /\ Fine(d, r.mishaps)
    BY <1>4 DEF Going, InOrder
  <2>2. n \in Nat
    <3>1. d.inode_table[k] \in InodeEntry
      BY <1>1 DEF Disk
    <3>2. QED
      BY <3>1, VolumeAssumption DEF InodeEntry
  <2>3. ASSUME NEW j \in 0..n, NEW m \in Int
        PROVE  /\ Fine(Freed(d, k, j, m), seen(j)) /\ seen(j) = r.mishaps
               /\ Tree(Freed(d, k, j, m), M)
               /\ Freed(d, k, j, m).inode_bitmap = d.inode_bitmap
    <3> DEFINE e == Freed(d, k, j, m)
    <3>1. /\ ~FreesTwice(d, k, j) /\ SameShape(d, e) /\ e \in Disk
          /\ e.inode_bitmap = d.inode_bitmap
          /\ \A i \in L \ {k} : \A x \in Places(d, i) : BlockOf(d, i, x) \in e.block_bitmap
      BY <1>1, <2>1, FreedBeside
    <3> HIDE DEF e
    <3>2. Tree(e, M)
      <4>1. M \subseteq e.inode_bitmap
        BY <2>1, <3>1 DEF Allocated
      <4> HIDE DEF M
      <4>2. \A i \in M : \A x \in Places(d, i) : BlockOf(d, i, x) \in e.block_bitmap
        BY <3>1 DEF M
      <4>3. QED
        BY <2>1, <3>1, <4>1, <4>2, ShapeTree
    <3>3. SameDirs(d, e, L)
      BY <1>1, <3>1, ShapeDirs
    <3>4. Fine(e, r.mishaps)
      BY <2>1, <3>2, <3>3, FineSame
    <3>5. QED
      BY <3>1, <3>2, <3>4 DEF e
  <2>4. q = [r EXCEPT !.disk = Freed(d, k, n, n), !.mishaps = seen(n),
                      !.cuts = @ \cup whole \cup half]
    BY DEF free_file_blocks
  <2>5. /\ q.disk = Freed(d, k, n, n) /\ q.mishaps = seen(n) /\ q.status = "ok"
        /\ q.cuts = r.cuts \cup whole \cup half
    BY <1>1, <2>4 DEF Run
  <2> HIDE DEF seen, d, n
  <2>6. /\ Fine(q.disk, q.mishaps) /\ q.mishaps = r.mishaps /\ Tree(q.disk, M)
        /\ q.disk.inode_bitmap = d.inode_bitmap
    <3>1. n \in 0..n /\ n \in Int
      BY <2>2
    <3>2. QED
      BY <2>3, <2>5, <3>1
  <2>7. ASSUME NEW a \in q.cuts PROVE Fine(a.disk, a.mishaps)
    <3>1. CASE a \in r.cuts
      BY <3>1 DEF InOrder
    <3>2. CASE a \in whole
      <4>1. PICK j \in 0..(n - 1) : a = [disk |-> Freed(d, k, j, j), mishaps |-> seen(j)]
        BY <3>2
      <4>2. j \in 0..n /\ j \in Int
        BY <2>2
      <4>3. QED
        BY <2>3, <4>1, <4>2
    <3>3. CASE a \in half
      <4>1. PICK j \in 0..(n - 1) : a = [disk |-> Freed(d, k, j + 1, j), mishaps |-> seen(j + 1)]
        BY <3>3
      <4>2. j + 1 \in 0..n /\ j \in Int
        BY <2>2
      <4>3. QED
        BY <2>3, <4>1, <4>2
    <3>4. QED
      BY <2>5, <2>7, <3>1, <3>2, <3>3
  <2>8. InOrder(q, M)
    BY <1>2, <2>5, <2>6, <2>7 DEF InOrder
  <2>9. k \in q.disk.inode_bitmap
    BY <2>1, <2>6 DEF Allocated
  <2>10. QED
    BY <2>1, <2>8, <2>9
<1>5. QED
  BY <1>3, <1>4

\* free_inode after that.
LEMMA FreeInodeInOrder ==
    ASSUME Ordered, NEW r, NEW k \in Inode, NEW L, k \notin L, InOrder(r, L), r.status = "ok",
           Going(r) => k \in r.disk.inode_bitmap, NEW q, q = free_inode(r, k)
    PROVE  InOrder(q, L)
<1> DEFINE d == r.disk
           e == [d EXCEPT !.inode_bitmap = Inverted(@, k)]
           r1 == Put(r, e)
           r2 == IF k \in d.inode_bitmap THEN r1 ELSE Flag(r1, "double_free")
           f == [r2.disk EXCEPT !.free_inodes_count = Incr(@)]
<1>1. r \in Run /\ d \in Disk
  BY RunDisk DEF InOrder
<1>2. q \in Run /\ Keeps(r, q, 0, 0)
  <2>1. Drift(0, 0)
    BY SessionAssumption DEF Drift, Abs
  <2>2. QED
    BY <1>1, <2>1, FreeInodeType, FreeInodeKeeps
<1>3. CASE ~Clean(r.mishaps)
  BY <1>2, <1>3, UncleanInOrder
<1>4. CASE Clean(r.mishaps)
  <2>1. Going(r) /\ Tree(d, L) /\ k \in d.inode_bitmap
    BY <1>4 DEF Going, InOrder
  <2>2. /\ e \in Disk /\ e.data = d.data /\ e.inode_table = d.inode_table
        /\ e.block_bitmap = d.block_bitmap /\ e.inode_bitmap = d.inode_bitmap \ {k}
    BY <1>1, <2>1 DEF Disk, Inverted
  <2>3. q = Put(r1, f) /\ r2 = r1
    BY <2>1 DEF free_inode
  <2> HIDE DEF e
  <2>4. Tree(e, L) /\ SameDirs(d, e, Live(disk))
    <3>1. SameShape(d, e)
      BY <2>2 DEF SameShape
    <3>2. L \subseteq e.inode_bitmap
      BY <2>1, <2>2 DEF Tree, Allocated
    <3>3. \A i \in L : \A x \in Places(d, i) : BlockOf(d, i, x) \in e.block_bitmap
      BY <2>1, <2>2 DEF Tree, Allocated
    <3>4. Live(disk) \subseteq Inode
      BY DEF Live
    <3>5. QED
      BY <2>1, <3>1, <3>2, <3>3, <3>4, ShapeTree, ShapeDirs
  <2>5. InOrder(r1, L) /\ Going(r1) /\ r1.disk = e
    BY <2>1, <2>2, <2>4, PutInOrder
  <2> HIDE DEF r1
  <2>6. f \in Disk /\ f.data = e.data /\ f.inode_table = e.inode_table
        /\ f.block_bitmap = e.block_bitmap /\ f.inode_bitmap = e.inode_bitmap
    <3>1. Incr(e.free_inodes_count) \in Position
      BY <2>2, CountsType DEF Disk, Position
    <3>2. f = [e EXCEPT !.free_inodes_count = Incr(e.free_inodes_count)]
      BY <2>3, <2>5
    <3>3. QED
      BY <2>2, <3>1, <3>2 DEF Disk, Position
  <2> HIDE DEF f
  <2>7. Tree(f, L) /\ SameDirs(e, f, Live(disk))
    <3>1. SameShape(e, f)
      BY <2>6 DEF SameShape
    <3>2. /\ L \subseteq f.inode_bitmap
          /\ \A i \in L : \A x \in Places(e, i) : BlockOf(e, i, x) \in f.block_bitmap
      BY <2>4, <2>6 DEF Tree, Allocated
    <3>3. Live(disk) \subseteq Inode
      BY DEF Live
    <3>4. QED
      BY <2>4, <3>1, <3>2, <3>3, ShapeTree, ShapeDirs
  <2>8. QED
    BY <2>3, <2>5, <2>6, <2>7, PutInOrder
<1>5. QED
  BY <1>3, <1>4

\* delete, and rmdir but for the count of directories.
LEMMA RemoveRunInOrder ==
    ASSUME Ordered, NEW name \in Names, found(name) # 0, NEW q, q = RemoveRun(name, found(name))
    PROVE  InOrder(q, Live(disk) \ {found(name)})
<1> DEFINE k == found(name)
           L == Live(disk) \ {k}
           r1 == Unlink(Start, current_dir, name)
           r2 == free_file_blocks(r1, k)
           r3 == free_inode(r2, k)
<1>1. PICK X : NamedHere(name, k, X)
  BY NameFound
<1>2. k \in Live(disk) /\ k \in Inode /\ current_dir \in Inode
  BY <1>1 DEF NamedHere, Live, Ordered, TypeOK
<1>3. q = Resize(r3, current_dir, -EntryBytes(name))
  BY SearchIsStart DEF RemoveRun
<1>4. /\ InOrder(r1, L) /\ r1.status = "ok"
      /\ Going(r1) => Allocated(r1.disk, Live(disk))
  BY <1>1, UnlinkInOrder
<1> HIDE DEF r1, k
<1>5. InOrder(r2, L) /\ (Going(r2) => k \in r2.disk.inode_bitmap)
  BY <1>2, <1>4, FreeFileBlocksInOrder
<1>6. r2.status = "ok"
  <2>1. r2.status = r1.status
    BY <1>4 DEF free_file_blocks, InOrder, Run
  <2>2. QED
    BY <1>4, <2>1
<1> HIDE DEF r2
<1>7. InOrder(r3, L)
  <2>1. k \notin L
    OBVIOUS
  <2> HIDE DEF L
  <2>2. QED
    BY <1>2, <1>5, <1>6, <2>1, FreeInodeInOrder
<1> HIDE DEF r3, L
<1>8. -EntryBytes(name) \in Int
  BY EntryBytesType, ArgsType
<1>9. QED
  BY <1>2, <1>3, <1>7, <1>8, ResizeInOrder DEF k, L

\* rmdir.
LEMMA RmdirRunInOrder ==
    ASSUME Ordered, NEW name \in Names, found(name) # 0, NEW q, q = RmdirRun(name, found(name))
    PROVE  InOrder(q, Live(disk) \ {found(name)})
<1> DEFINE L == Live(disk) \ {found(name)}
           r == RemoveRun(name, found(name))
           e == [r.disk EXCEPT !.used_dirs_count = Decr(@)]
           s == Put(r, e)
<1>1. InOrder(r, L)
  BY RemoveRunInOrder
<1> HIDE DEF L
<1>2. q = IF found(name) \in fopen_table THEN Flag(s, "open_dir_removed") ELSE s
  BY DEF RmdirRun
<1> HIDE DEF r
<1>3. r.disk \in Disk
  BY <1>1, RunDisk DEF InOrder
<1>4. /\ e \in Disk /\ e.data = r.disk.data /\ e.inode_table = r.disk.inode_table
      /\ e.inode_bitmap = r.disk.inode_bitmap /\ e.block_bitmap = r.disk.block_bitmap
  <2>1. Decr(r.disk.used_dirs_count) \in Position
    BY <1>3, CountsType DEF Disk, Position
  <2>2. QED
    BY <1>3, <2>1 DEF Disk, Position
<1> HIDE DEF e
<1>5. ASSUME Going(r) PROVE Tree(e, L) /\ SameDirs(r.disk, e, Live(disk))
  <2>1. Tree(r.disk, L)
    BY <1>1, <1>5 DEF InOrder
  <2>2. SameShape(r.disk, e)
    BY <1>4 DEF SameShape
  <2>3. /\ L \subseteq e.inode_bitmap
        /\ \A i \in L : \A x \in Places(r.disk, i) : BlockOf(r.disk, i, x) \in e.block_bitmap
    BY <1>4, <2>1 DEF Tree, Allocated
  <2>4. Live(disk) \subseteq Inode
    BY DEF Live
  <2>5. QED
    BY <2>1, <2>2, <2>3, <2>4, ShapeTree, ShapeDirs
<1>6. InOrder(s, L)
  BY <1>1, <1>4, <1>5, PutInOrder
<1> HIDE DEF s
<1>7. InOrder(Flag(s, "open_dir_removed"), L)
  BY <1>6, FlagInOrder DEF Mishaps
<1>8. QED
  BY <1>2, <1>6, <1>7 DEF L

-----------------------------------------------------------------------------
(* Writing a file.                                                          *)

\* The run has not touched a directory, and inode i is a file.
Writing(r, i) == Orderly(r) /\ (Going(r) => ~IsDir(r.disk, i))

\* And it has a block to write in.
HasBlock(r, i) == Writing(r, i) /\ (Going(r) => Places(r.disk, i) # {})

\* A block that new_block took becomes a block of the file.
LEMMA FileLonger ==
    ASSUME Ordered, NEW i \in Live(disk), NEW r, Writing(r, i), NEW s, Orderly(s), s.status = "ok",
           NEW n, NEW b, NEW q \in Run, q.status = "ok", q.mishaps = s.mishaps,
           q.cuts = s.cuts \cup {[disk |-> s.disk, mishaps |-> s.mishaps]},
           Keeps(Start, q, 0, 0),
           Going(s) => /\ Going(r) /\ s.disk.inode_table = r.disk.inode_table
                       /\ s.disk.block_bitmap = r.disk.block_bitmap \cup {b}
                       /\ b \notin r.disk.block_bitmap
                       /\ Lengthened(s.disk, q.disk, i, n, b)
    PROVE  HasBlock(q, i)
<1> DEFINE L == Live(disk)
<1>1. InOrder(s, L) /\ s \in Run /\ s.disk \in Disk /\ Fine(s.disk, s.mishaps)
  BY RunDisk DEF Orderly, Unmoved, InOrder
<1>2. Going(q) <=> Going(s)
  BY DEF Going
<1>3. ASSUME Going(s)
      PROVE  /\ Tree(q.disk, L) /\ SameDirs(s.disk, q.disk, L) /\ SameDirs(disk, q.disk, L)
             /\ ~IsDir(q.disk, i) /\ Places(q.disk, i) # {}
  <2>1. /\ Going(r) /\ s.disk.inode_table = r.disk.inode_table
        /\ s.disk.block_bitmap = r.disk.block_bitmap \cup {b}
        /\ b \notin r.disk.block_bitmap /\ Lengthened(s.disk, q.disk, i, n, b)
    BY <1>3
  <2>2. Tree(r.disk, L) /\ Tree(s.disk, L) /\ SameDirs(disk, s.disk, L) /\ ~IsDir(r.disk, i)
    BY <1>3, <2>1 DEF Writing, Orderly, Unmoved, InOrder
  <2>3. ~IsDir(s.disk, i)
    BY <2>1, <2>2 DEF IsDir
  <2>4. Spare(s.disk, L, b)
    <3>1. ASSUME NEW j \in L, NEW x \in Places(s.disk, j) PROVE BlockOf(s.disk, j, x) # b
      <4>1. x \in Places(r.disk, j) /\ BlockOf(s.disk, j, x) = BlockOf(r.disk, j, x)
        BY <2>1, <3>1 DEF Places, BlockOf
      <4>2. BlockOf(r.disk, j, x) \in r.disk.block_bitmap
        BY <2>2, <4>1 DEF Tree, Allocated
      <4>3. QED
        BY <2>1, <4>1, <4>2
    <3>2. QED
      BY <2>1, <3>1 DEF Spare
  <2>5. Tree(q.disk, L) /\ SameDirs(s.disk, q.disk, L)
    BY <1>1, <2>1, <2>2, <2>3, <2>4, FileGrows
  <2>6. i \in Inode
    BY DEF Live
  <2>7. ~IsDir(q.disk, i) /\ Places(q.disk, i) # {}
    BY <2>1, <2>3, <2>6 DEF Lengthened
  <2>8. SameDirs(disk, q.disk, L)
    BY <2>2, <2>5, SameDirsTransitive
  <2>9. QED
    BY <2>5, <2>7, <2>8
<1>4. Fine(q.disk, q.mishaps)
  <2>1. Clean(s.mishaps) => SameDirs(s.disk, q.disk, L) /\ \E M : Tree(q.disk, M)
    BY <1>3 DEF Going
  <2>2. QED
    BY <1>1, <2>1, FineSame
<1>5. \A c \in q.cuts : Fine(c.disk, c.mishaps)
  BY <1>1 DEF InOrder
<1>6. InOrder(q, L)
  BY <1>2, <1>3, <1>4, <1>5 DEF InOrder
<1>7. QED
  BY <1>2, <1>3, <1>6 DEF HasBlock, Writing, Orderly, Unmoved

\* add_file_block on a file.
LEMMA AddFileBlockToFile ==
    ASSUME Ordered, NEW i \in Live(disk), NEW r, Writing(r, i), NEW q, q = add_file_block(r, i)
    PROVE  HasBlock(q, i)
<1>1. i \in Inode /\ r \in Run /\ Orderly(r)
  BY DEF Writing, Orderly, Unmoved, InOrder, Live
<1>2. q \in Run /\ Keeps(Start, q, 0, 0)
  BY <1>1, AddFileBlockType, AddFileBlockKeeps, KeepsTransitive DEF Orderly
<1>3. CASE InOrder(q, Live(disk)) /\ ~Going(q)
  BY <1>2, <1>3 DEF HasBlock, Writing, Orderly, Unmoved
<1>4. ASSUME NEW s, /\ Orderly(s) /\ s.status = "ok" /\ q.status = "ok" /\ q.mishaps = s.mishaps
                    /\ q.cuts = s.cuts \cup {[disk |-> s.disk, mishaps |-> s.mishaps]}
                    /\ Going(s) =>
                         /\ Going(r) /\ s.disk.inode_table = r.disk.inode_table
                         /\ s.disk.block_bitmap = r.disk.block_bitmap \cup {q.ret}
                         /\ q.ret \notin r.disk.block_bitmap
                         /\ Lengthened(s.disk, q.disk, i, s.disk.inode_table[i].i_blocks, q.ret)
      PROVE  HasBlock(q, i)
  BY <1>2, <1>4, FileLonger
<1>5. QED
  BY <1>1, <1>3, <1>4, AddFileBlockSteps

\* The first block of an empty file.
LEMMA FirstBlockOfFile ==
    ASSUME Ordered, NEW i \in Live(disk), NEW r, Writing(r, i), r.disk.inode_table[i].i_blocks = 0,
           NEW s, s = new_block(r), NEW q,
           q = PutInode(s, i, [r.disk.inode_table[i] EXCEPT !.i_block[0] = s.ret, !.i_blocks = 1])
    PROVE  HasBlock(q, i)
<1> DEFINE old == r.disk.inode_table[i]
           e == [old EXCEPT !.i_block[0] = s.ret, !.i_blocks = 1]
           d == [s.disk EXCEPT !.inode_table[i] = e]
<1>1. i \in Inode /\ r \in Run /\ r.disk \in Disk /\ Orderly(r) /\ old \in InodeEntry
  <2>1. r.disk \in Disk => r.disk.inode_table \in [Inode -> InodeEntry]
    BY DEF Disk
  <2>2. QED
    BY <2>1, RunDisk DEF Writing, Orderly, Unmoved, InOrder, Live
<1>2. /\ Orderly(s) /\ s.ret \in Block
      /\ Going(s) => /\ Going(r) /\ s.disk.inode_table = r.disk.inode_table
                     /\ s.disk.block_bitmap = r.disk.block_bitmap \cup {s.ret}
                     /\ s.ret \notin r.disk.block_bitmap
  BY <1>1, NewBlockOrderly
<1>3. s \in Run /\ s.disk \in Disk
  BY <1>2, RunDisk DEF Orderly, Unmoved, InOrder
<1>4. e \in InodeEntry
  <2>1. 1 \in 0..NDIRECT
    BY VolumeAssumption
  <2>2. QED
    BY <1>1, <1>2, <2>1 DEF InodeEntry
<1>5. q = Put(s, d)
  BY <1>1 DEF PutInode
<1>6. CASE s.status # "ok"
  <2>1. q = s
    BY <1>5, <1>6 DEF Put
  <2>2. QED
    BY <1>2, <1>6, <2>1 DEF HasBlock, Writing, Going
<1>7. CASE s.status = "ok"
  <2>1. q \in Run /\ Keeps(Start, q, 0, 0)
    <3>1. q \in Run /\ Keeps(s, q, 0, 0)
      BY <1>3, <1>4, PutInodeType, PutInodeKeeps
    <3>2. QED
      BY <1>2, <3>1, KeepsTransitive DEF Orderly
  <2> HIDE DEF e
  <2>2. /\ q.disk = d /\ q.mishaps = s.mishaps /\ q.status = "ok"
        /\ q.cuts = s.cuts \cup {[disk |-> s.disk, mishaps |-> s.mishaps]}
    BY <1>3, <1>5, <1>7 DEF Run, Put
  <2>3. ASSUME Going(s) PROVE Lengthened(s.disk, q.disk, i, 0, s.ret)
    <3>1. s.disk.inode_table = r.disk.inode_table
      BY <1>2, <2>3
    <3>2. 0 # NDIRECT /\ 0 + 1 = 1
      BY VolumeAssumption
    <3>3. q.disk = [s.disk EXCEPT !.inode_table[i] = [s.disk.inode_table[i] EXCEPT
                                                        !.i_block[0] = s.ret, !.i_blocks = 0 + 1]]
      BY <2>2, <3>1, <3>2 DEF e
    <3>4. 0 = s.disk.inode_table[i].i_blocks
      BY <3>1
    <3>5. QED
      BY <1>1, <1>2, <1>3, <3>2, <3>3, <3>4, AddBlock
  <2>4. Going(s) => /\ Going(r) /\ s.disk.inode_table = r.disk.inode_table
                    /\ s.disk.block_bitmap = r.disk.block_bitmap \cup {s.ret}
                    /\ s.ret \notin r.disk.block_bitmap
                    /\ Lengthened(s.disk, q.disk, i, 0, s.ret)
    BY <1>2, <2>3
  <2> HIDE DEF d, old
  <2>5. QED
    BY <1>2, <1>7, <2>1, <2>2, <2>4, FileLonger
<1>8. QED
  BY <1>6, <1>7

\* The block in which a file ends is written.
LEMMA FillFile ==
    ASSUME Ordered, NEW i \in Live(disk), NEW r, HasBlock(r, i),
           NEW q, q = PutBlock(r, LastBlock(r, i), FileBytes)
    PROVE  HasBlock(q, i)
<1> DEFINE L == Live(disk)
           b == LastBlock(r, i)
           d == [r.disk EXCEPT !.data[b] = FileBytes]
<1>1. /\ i \in Inode /\ L \subseteq Inode /\ Orderly(r) /\ InOrder(r, L) /\ r \in Run
      /\ r.disk \in Disk /\ FileBytes \in Content
  BY RunDisk DEF HasBlock, Writing, Orderly, Unmoved, InOrder, Live, Content
<1>2. q \in Run /\ Keeps(Start, q, 0, 0)
  <2>1. q \in Run /\ Keeps(r, q, 0, 0)
    BY <1>1, PutBlockType, PutBlockKeeps
  <2>2. QED
    BY <1>1, <2>1, KeepsTransitive DEF Orderly
<1>3. d \in Disk
  BY <1>1 DEF Disk
<1>4. ASSUME Going(r)
      PROVE  /\ Tree(d, L) /\ SameDirs(r.disk, d, L) /\ SameDirs(disk, d, L)
             /\ ~IsDir(d, i) /\ Places(d, i) # {}
  <2>1. Tree(r.disk, L) /\ SameDirs(disk, r.disk, L) /\ ~IsDir(r.disk, i) /\ Places(r.disk, i) # {}
    BY <1>1, <1>4 DEF HasBlock, Writing, Orderly, Unmoved, InOrder
  <2> DEFINE n == r.disk.inode_table[i].i_blocks
  <2>2. n \in Nat
    <3>1. r.disk.inode_table[i] \in InodeEntry
      BY <1>1 DEF Disk
    <3>2. QED
      BY <3>1, VolumeAssumption DEF InodeEntry
  <2>3. n - 1 \in Places(r.disk, i) /\ b = BlockOf(r.disk, i, n - 1)
    BY <2>1, <2>2 DEF Places, BlockOf, LastBlock
  <2> HIDE DEF n, b
  <2>4. b \in Block
    BY <1>1, <2>3, PlacesType
  <2>5. ASSUME NEW j \in DirsOf(r.disk, L), NEW x \in Places(r.disk, j)
        PROVE  BlockOf(r.disk, j, x) # b
    BY <2>1, <2>3, <2>5 DEF DirsOf, Tree, Allocated
  <2>6. Tree(d, L) /\ SameDirs(r.disk, d, L)
    BY <1>1, <2>1, <2>4, <2>5, FileFilled
  <2>7. Places(d, i) = Places(r.disk, i) /\ (IsDir(d, i) <=> IsDir(r.disk, i))
    BY <1>1, <2>4, PutData
  <2>8. SameDirs(disk, d, L)
    BY <2>1, <2>6, SameDirsTransitive
  <2>9. QED
    BY <2>1, <2>6, <2>7, <2>8
<1>5. q = Put(r, d)
  BY DEF PutBlock
<1> HIDE DEF d
<1>6. /\ InOrder(q, L) /\ (Going(q) <=> Going(r)) /\ (Going(r) => q.disk = d)
  BY <1>1, <1>3, <1>4, <1>5, PutInOrder
<1>7. QED
  BY <1>2, <1>4, <1>6 DEF HasBlock, Writing, Orderly, Unmoved

\* A file that is written has a block to write in, before and after its last
\* block is written and another is added.
LEMMA WriteSteps ==
    ASSUME Ordered, NEW i \in Live(disk), entry(i).type # FT_DIR, NEW w, w = WriteStart(Start, i),
           NEW full, full = add_file_block(PutBlock(w.run, LastBlock(w.run, i), FileBytes), i)
    PROVE  HasBlock(w.run, i) /\ HasBlock(full, i)
<1> DEFINE e == disk.inode_table[i]
           s == new_block(Start)
           r2 == PutInode(s, i, [e EXCEPT !.i_block[0] = s.ret, !.i_blocks = 1])
           filled == PutBlock(w.run, LastBlock(w.run, i), FileBytes)
<1>1. /\ Orderly(Start) /\ Going(Start) /\ Start.disk = disk /\ i \in Inode
  BY StartOrderly DEF Orderly, Unmoved, Live
<1>2. Writing(Start, i)
  BY <1>1 DEF Writing, IsDir, entry
<1>3. HasBlock(w.run, i)
  <2>1. CASE e.i_blocks = 0
    <3>1. w.run = r2
      BY <1>1, <2>1 DEF WriteStart
    <3>2. QED
      BY <1>1, <1>2, <2>1, <3>1, FirstBlockOfFile
  <2>2. CASE e.i_blocks # 0 /\ e.i_size % BLOCK_SIZE = 0
    <3>1. w.run = add_file_block(Start, i)
      BY <1>1, <2>2 DEF WriteStart
    <3>2. QED
      BY <1>2, <3>1, AddFileBlockToFile
  <2>3. CASE e.i_blocks # 0 /\ e.i_size % BLOCK_SIZE # 0
    <3>1. w.run = Start
      BY <1>1, <2>3 DEF WriteStart
    <3>2. e \in InodeEntry
      BY <1>1 DEF Ordered, TypeOK, Disk
    <3>3. e.i_blocks \in Nat
      BY <3>2, VolumeAssumption DEF InodeEntry
    <3>4. 0 \in Places(Start.disk, i)
      BY <1>1, <2>3, <3>3 DEF Places
    <3>5. QED
      BY <1>2, <3>1, <3>4 DEF HasBlock
  <2>4. QED
    BY <2>1, <2>2, <2>3
<1>4. HasBlock(filled, i)
  BY <1>3, FillFile
<1> HIDE DEF filled
<1>5. HasBlock(full, i)
  BY <1>4, AddFileBlockToFile DEF HasBlock, filled
<1>6. QED
  BY <1>3, <1>5

\* The inode that a name leads to.
LEMMA FoundInode ==
    ASSUME Ordered, NEW name \in Args, found(name) # 0
    PROVE  found(name) \in Live(disk) /\ found(name) \in Inode
<1>1. CASE name \in Names
  BY <1>1, NameFound DEF NamedHere, Live
<1>2. CASE name \in {".", ".."}
  BY <1>2, DotsFound DEF DirsOf, Live
<1>3. QED
  BY <1>1, <1>2, DotsAssumption DEF Args

\* write.
LEMMA WriteRunInOrder ==
    ASSUME Ordered, NEW name \in Args, found(name) # 0, NEW n \in Nat,
           NEW q, q = WriteRun(name, found(name), n)
    PROVE  /\ \E L : InOrder(q, L)
           /\ entry(found(name)).type # FT_DIR => Unmoved(q)
<1> DEFINE i == found(name)
           r0 == IF entry(i).type = FT_DIR THEN Flag(Search(name), "dir_written") ELSE Search(name)
           w == WriteStart(r0, i)
           fill(r) == PutBlock(r, LastBlock(r, i), FileBytes)
           full == add_file_block(fill(w.run), i)
           r1 == IF w.pos + n < BLOCK_SIZE THEN w.run ELSE full
<1>1. i \in Live(disk) /\ i \in Inode
  BY FoundInode
<1>2. q = Resize(fill(r1), i, n - 1)
  BY DEF WriteRun
<1>3. Search(name) = Start
  BY SearchIsStart
<1>4. /\ Orderly(Start) /\ Going(Start) /\ Start.disk = disk /\ InOrder(Start, Live(disk))
  BY StartOrderly DEF Orderly, Unmoved
<1>5. CASE entry(i).type = FT_DIR
  <2> DEFINE f == Flag(Start, "dir_written")
  <2>1. q \in Run /\ Keeps(f, q, 0, 0)
    <3>1. TypeOK /\ q = WriteRun(name, i, n) /\ 0 \in Int
      BY DEF Ordered
    <3> HIDE DEF i
    <3>2. q \in Run
      BY <1>1, <3>1, WriteRunType
    <3>3. Keeps(Flag(Search(name), "dir_written"), q, 0, 0)
      BY <1>1, <1>5, <3>1, WriteRunKeeps
    <3>4. QED
      BY <1>3, <3>2, <3>3
  <2>2. "dir_written" \in f.mishaps
    BY <1>4 DEF Going, Flag, Start, Begin
  <2>3. InOrder(f, Live(disk))
    BY <1>4, FlagInOrder DEF Mishaps
  <2>4. ~Clean(f.mishaps)
    BY <2>2 DEF Clean, Damaging
  <2> HIDE DEF f
  <2>5. InOrder(q, Live(disk))
    BY <2>1, <2>3, <2>4, UncleanInOrder
  <2>6. QED
    BY <1>5, <2>5
<1>6. CASE entry(i).type # FT_DIR
  <2>1. r0 = Start
    BY <1>3, <1>6
  <2> HIDE DEF i, r0
  <2>2. HasBlock(w.run, i) /\ HasBlock(full, i)
    BY <1>1, <1>6, <2>1, WriteSteps
  <2> HIDE DEF w, full
  <2>3. HasBlock(r1, i)
    BY <2>2
  <2> HIDE DEF r1
  <2>4. HasBlock(fill(r1), i)
    BY <1>1, <2>3, FillFile
  <2> HIDE DEF fill
  <2>5. Unmoved(fill(r1)) /\ InOrder(fill(r1), Live(disk)) /\ n - 1 \in Int
    BY <2>4 DEF HasBlock, Writing, Orderly, Unmoved
  <2>6. InOrder(q, Live(disk)) /\ Unmoved(q)
    BY <1>1, <1>2, <2>5, ResizeInOrder
  <2>7. QED
    BY <2>6
<1>7. QED
  BY <1>5, <1>6

-----------------------------------------------------------------------------
(* Volumes of which all is accounted for.                                   *)

\* Every block in use is one of an inode of L.
Owned(d, L) == \A b \in d.block_bitmap : \E i \in L : \E x \in Places(d, i) : BlockOf(d, i, x) = b

\* The bitmaps have the inodes of L and their blocks and no others, the
\* directories of L are counted, and their sizes are those of their entries.
Exact(d, L) ==
    /\ d.inode_bitmap = L
    /\ Owned(d, L)
    /\ d.used_dirs_count = Cardinality(DirsOf(d, L))
    /\ \A i \in DirsOf(d, L) : d.inode_table[i].i_size = 17 + Cardinality(Bytes(d, i))

\* What a directory names are the inodes of its names.
LEMMA NamedChildren ==
    ASSUME NEW d, NEW i
    PROVE  \A k : k \in Children(d, i) <=> \E t \in NamesOf(d, i) : t[2] = k
<1>1. ASSUME NEW e PROVE <<e[2].name, e[2].inode>>[2] = e[2].inode
  OBVIOUS
<1>2. TAKE k
<1>3. ASSUME k \in Children(d, i) PROVE \E t \in NamesOf(d, i) : t[2] = k
  <2>1. PICK e \in EntriesOf(d, i) : k = e[2].inode
    BY <1>3 DEF Children
  <2>2. <<e[2].name, e[2].inode>> \in NamesOf(d, i)
    BY DEF NamesOf
  <2>3. QED
    BY <2>1, <2>2
<1>4. ASSUME NEW t \in NamesOf(d, i), t[2] = k PROVE k \in Children(d, i)
  <2>1. PICK e \in EntriesOf(d, i) : t = <<e[2].name, e[2].inode>>
    BY DEF NamesOf
  <2>2. QED
    BY <1>4, <2>1 DEF Children
<1>5. QED
  BY <1>3, <1>4

\* The bytes of the names in N.
BytesOf(N) == UNION {{t} \X (1..EntryBytes(t[1])) : t \in N}

\* One name more takes its own bytes more.
LEMMA BytesMore ==
    ASSUME NEW N, NEW t, t \notin N, EntryBytes(t[1]) \in Nat, IsFiniteSet(BytesOf(N))
    PROVE  /\ IsFiniteSet(BytesOf(N \cup {t}))
           /\ Cardinality(BytesOf(N \cup {t})) = Cardinality(BytesOf(N)) + EntryBytes(t[1])
<1> DEFINE n == EntryBytes(t[1])
           T == {t} \X (1..n)
<1>1. BytesOf(N \cup {t}) = BytesOf(N) \cup T
  BY DEF BytesOf
<1>2. BytesOf(N) \cap T = {}
  BY DEF BytesOf
<1>3. IsFiniteSet({t}) /\ Cardinality({t}) = 1
  BY FS_Singleton
<1>4. IsFiniteSet(1..n) /\ Cardinality(1..n) = n
  BY FS_Interval
<1>5. IsFiniteSet(T) /\ Cardinality(T) = n
  <2>1. IsFiniteSet(T) /\ Cardinality(T) = Cardinality({t}) * Cardinality(1..n)
    BY <1>3, <1>4, FS_Product
  <2>2. QED
    BY <1>3, <1>4, <2>1
<1> HIDE DEF T
<1>6. /\ IsFiniteSet(BytesOf(N) \cup T)
      /\ Cardinality(BytesOf(N) \cup T) = Cardinality(BytesOf(N)) + Cardinality(T) - Cardinality({})
  BY <1>2, <1>5, FS_Union
<1>7. Cardinality(BytesOf(N)) \in Nat
  BY FS_CardinalityType
<1>8. Cardinality(BytesOf(N) \cup T) = Cardinality(BytesOf(N)) + n
  <2>1. Cardinality({}) = 0
    BY FS_EmptySet
  <2> HIDE DEF n
  <2>2. n \in Nat
    BY DEF n
  <2>3. QED
    BY <1>5, <1>6, <1>7, <2>1, <2>2
<1>9. QED
  BY <1>1, <1>6, <1>8

\* The names of a directory in order are names a user gives, of inodes of the
\* volume, each of them named once.
LEMMA NamesInOrder ==
    ASSUME NEW d \in Disk, NEW L, Tree(d, L), NEW i \in DirsOf(d, L)
    PROVE  /\ \A t \in NamesOf(d, i) : t = <<t[1], t[2]>> /\ t[1] \in Names /\ t[2] \in L \ {ROOT}
           /\ \A t, u \in NamesOf(d, i) : t[2] = u[2] => t = u
<1>1. i \in Inode /\ IsDir(d, i) /\ DirInOrder(d, L, i)
  BY DEF Tree, DirsOf
<1>2. \A t : t \in NamesOf(d, i) <=>
             \E x \in Places(d, i) : \E p \in Spots(d, i, x) :
                t = <<NameAt(d, i, x, p), InodeAt(d, i, x, p)>>
  BY <1>1, SpotNames
<1>3. \A x \in Places(d, i) : \A p \in Spots(d, i, x) :
         NameAt(d, i, x, p) \in Names /\ InodeAt(d, i, x, p) \in L \ {ROOT}
  BY <1>1 DEF DirInOrder, EntryInOrder
<1>4. \A x, y \in Places(d, i) : \A p \in Spots(d, i, x), q \in Spots(d, i, y) :
         InodeAt(d, i, x, p) = InodeAt(d, i, y, q) => x = y /\ p = q
  BY DEF Tree, NamedOnce
<1>5. ASSUME NEW t \in NamesOf(d, i)
      PROVE  t = <<t[1], t[2]>> /\ t[1] \in Names /\ t[2] \in L \ {ROOT}
  BY <1>2, <1>3
<1>6. ASSUME NEW t \in NamesOf(d, i), NEW u \in NamesOf(d, i), t[2] = u[2] PROVE t = u
  <2>1. PICK x \in Places(d, i) : \E p \in Spots(d, i, x) :
                t = <<NameAt(d, i, x, p), InodeAt(d, i, x, p)>>
    BY <1>2
  <2>2. PICK p \in Spots(d, i, x) : t = <<NameAt(d, i, x, p), InodeAt(d, i, x, p)>>
    BY <2>1
  <2>3. PICK y \in Places(d, i) : \E q \in Spots(d, i, y) :
                u = <<NameAt(d, i, y, q), InodeAt(d, i, y, q)>>
    BY <1>2
  <2>4. PICK q \in Spots(d, i, y) : u = <<NameAt(d, i, y, q), InodeAt(d, i, y, q)>>
    BY <2>3
  <2>5. InodeAt(d, i, x, p) = InodeAt(d, i, y, q)
    BY <1>6, <2>2, <2>4
  <2>6. x = y /\ p = q
    BY <1>4, <2>5
  <2>7. QED
    BY <2>2, <2>4, <2>6
<1>7. QED
  BY <1>5, <1>6

\* So the size of a directory in order does not wrap.
LEMMA BytesBound ==
    ASSUME NEW d \in Disk, NEW L, Tree(d, L), NEW i \in DirsOf(d, L)
    PROVE  /\ IsFiniteSet(Bytes(d, i)) /\ Cardinality(Bytes(d, i)) \in Nat
           /\ 17 + Cardinality(Bytes(d, i)) < SIZE_MOD
           /\ Bytes(d, i) = BytesOf(NamesOf(d, i))
<1> DEFINE B == Bytes(d, i)
           T == Inode \X (1..BLOCK_SIZE)
           f == [u \in B |-> <<u[1][2], u[2]>>]
<1>1. /\ \A t \in NamesOf(d, i) : t = <<t[1], t[2]>> /\ t[1] \in Names /\ t[2] \in L \ {ROOT}
      /\ \A t, u \in NamesOf(d, i) : t[2] = u[2] => t = u
  BY NamesInOrder
<1>2. L \subseteq Inode
  BY DEF Tree
<1>3. ASSUME NEW u \in B
      PROVE  u = <<u[1], u[2]>> /\ u[1] \in NamesOf(d, i) /\ u[2] \in 1..BLOCK_SIZE
  <2>1. PICK t \in NamesOf(d, i) : u \in {t} \X (1..EntryBytes(t[1]))
    BY DEF Bytes
  <2>2. EntryBytes(t[1]) \in Nat /\ EntryBytes(t[1]) < BLOCK_SIZE
    BY <1>1, EntryBytesBounds DEF AllNames
  <2>3. QED
    BY <2>1, <2>2, BlockBound
<1>4. f \in Injection(B, T)
  <2>1. f \in [B -> T]
    BY <1>1, <1>2, <1>3
  <2>2. ASSUME NEW u \in B, NEW v \in B, f[u] = f[v] PROVE u = v
    <3>1. u[1][2] = v[1][2] /\ u[2] = v[2]
      BY <2>2
    <3>2. u[1] = v[1]
      BY <1>1, <1>3, <3>1
    <3>3. QED
      BY <1>3, <3>1, <3>2
  <2> HIDE DEF f
  <2>3. QED
    BY <2>1, <2>2 DEF Injection, IsInjective
<1>5. IsFiniteSet(T) /\ Cardinality(T) = INODE_COUNT * BLOCK_SIZE
  <2>1. IsFiniteSet(1..BLOCK_SIZE) /\ Cardinality(1..BLOCK_SIZE) = BLOCK_SIZE
    BY BlockBound, FS_Interval
  <2>2. IsFiniteSet(T) /\ Cardinality(T) = Cardinality(Inode) * Cardinality(1..BLOCK_SIZE)
    BY <2>1, Finite, FS_Product
  <2>3. QED
    BY <2>1, <2>2, Finite
<1> HIDE DEF f, T
<1>6. IsFiniteSet(B) /\ Cardinality(B) <= Cardinality(T)
  BY <1>4, <1>5, FS_Injection
<1>7. Cardinality(B) \in Nat
  BY <1>6, FS_CardinalityType
<1>8. 17 + Cardinality(B) < SIZE_MOD
  <2> DEFINE m == INODE_COUNT * BLOCK_SIZE
  <2>1. m \in Nat
    BY Volume, BlockBound
  <2>2. 17 + m < SIZE_MOD
    BY SizeAssumption
  <2>3. Cardinality(B) <= m
    BY <1>5, <1>6
  <2> HIDE DEF m, B
  <2>4. SIZE_MOD \in Nat
    BY VolumeAssumption
  <2>5. QED
    BY <1>7, <2>1, <2>2, <2>3, <2>4
<1>9. QED
  BY <1>6, <1>7, <1>8 DEF Bytes, BytesOf

-----------------------------------------------------------------------------
(* What a path leads to after a command.                                    *)

\* Where no directory names anything new, and none has lost a name.
LEMMA LiveSame ==
    ASSUME NEW d \in Disk, NEW e \in Disk, Tree(d, Live(d)), Tree(e, Live(d)),
           SameDirs(d, e, Live(d))
    PROVE  Live(e) = Live(d)
<1> DEFINE L == Live(d)
<1>1. Live(e) \subseteq L
  BY TreeLive
<1>2. ROOT \in Live(e) /\ \A i \in Live(e) : Children(e, i) \subseteq Live(e)
  <2>1. Tree(e, Live(e))
    BY TreeLive
  <2>2. QED
    BY <2>1, TreeClosed
<1>3. \A i \in Live(e) : Children(d, i) \subseteq Live(e)
  BY <1>1, <1>2, SameDirNames DEF SameDirs
<1>4. Live(e) \in SUBSET Inode
  BY DEF Live
<1>5. L \subseteq Live(e)
  BY <1>2, <1>3, <1>4, TreeLive
<1>6. QED
  BY <1>1, <1>5

\* Where a directory names a new inode.
LEMMA LiveGrows ==
    ASSUME NEW d \in Disk, NEW e \in Disk, Tree(d, Live(d)), NEW k \in Inode, Tree(e, Live(d) \cup {k}),
           \A i \in Live(d) : Children(d, i) \subseteq Children(e, i),
           NEW c \in Live(d), k \in Children(e, c)
    PROVE  Live(e) = Live(d) \cup {k}
<1> DEFINE L == Live(d)
           S == Live(e) \cap L
<1>1. Live(e) \subseteq L \cup {k}
  BY TreeLive
<1>2. ROOT \in Live(e) /\ \A i \in Live(e) : Children(e, i) \subseteq Live(e)
  <2>1. Tree(e, Live(e))
    BY TreeLive
  <2>2. QED
    BY <2>1, TreeClosed
<1>3. ROOT \in L /\ \A i \in L : Children(d, i) \subseteq L
  BY TreeClosed
<1>4. ROOT \in S /\ \A i \in S : Children(d, i) \subseteq S
  BY <1>2, <1>3
<1>5. S \in SUBSET Inode
  BY DEF Live
<1>6. L \subseteq S
  BY <1>4, <1>5, TreeLive
<1>7. QED
  BY <1>1, <1>2, <1>6

\* Where a directory no longer names an inode that names nothing.
LEMMA LiveShrinks ==
    ASSUME NEW d \in Disk, NEW e \in Disk, Tree(d, Live(d)), NEW k \in Live(d), Tree(e, Live(d) \ {k}),
           \A i \in Live(d) \ {k} : Children(d, i) \subseteq Children(e, i) \cup {k},
           Children(d, k) = {}
    PROVE  Live(e) = Live(d) \ {k}
<1> DEFINE L == Live(d)
           S == Live(e) \cup {k}
<1>1. Live(e) \subseteq L \ {k}
  BY TreeLive
<1>2. ROOT \in Live(e) /\ \A i \in Live(e) : Children(e, i) \subseteq Live(e)
  <2>1. Tree(e, Live(e))
    BY TreeLive
  <2>2. QED
    BY <2>1, TreeClosed
<1>3. ROOT \in S /\ \A i \in S : Children(d, i) \subseteq S
  BY <1>1, <1>2
<1>4. S \in SUBSET Inode
  BY DEF Live
<1>5. L \subseteq S
  BY <1>3, <1>4, TreeLive
<1>6. QED
  BY <1>1, <1>5

\* Where no directory has changed.
LEMMA SameExact ==
    ASSUME NEW d \in Disk, NEW e \in Disk, Tree(d, Live(d)), Tree(e, Live(d)),
           SameDirs(d, e, Live(d)), Exact(d, Live(d)), Owned(e, Live(d)),
           e.inode_bitmap = d.inode_bitmap, e.used_dirs_count = d.used_dirs_count,
           \A i \in DirsOf(d, Live(d)) : e.inode_table[i].i_size = d.inode_table[i].i_size
    PROVE  Exact(e, Live(e))
<1>1. Live(e) = Live(d)
  BY LiveSame
<1>2. DirsOf(e, Live(d)) = DirsOf(d, Live(d))
  BY DEF SameDirs, SameDir, DirsOf
<1>3. ASSUME NEW i \in DirsOf(d, Live(d)) PROVE Bytes(e, i) = Bytes(d, i)
  <2>1. NamesOf(e, i) = NamesOf(d, i)
    BY SameDirNames DEF SameDirs, DirsOf
  <2>2. QED
    BY <2>1 DEF Bytes
<1>4. QED
  BY <1>1, <1>2, <1>3 DEF Exact, Owned

\* All names of a directory but one are as they were: the one is new.
LEMMA OneNameMore ==
    ASSUME NEW d, NEW e, NEW c, OneName(d, e, c),
           NEW t, t \in NamesOf(e, c), t \notin NamesOf(d, c)
    PROVE  NamesOf(e, c) = NamesOf(d, c) \cup {t}
  BY DEF OneName

\* Or the one is gone.
LEMMA OneNameLess ==
    ASSUME NEW d, NEW e, NEW c, OneName(d, e, c),
           NEW t, t \notin NamesOf(e, c), t \in NamesOf(d, c)
    PROVE  NamesOf(d, c) = NamesOf(e, c) \cup {t}
  BY DEF OneName

\* A directory that names nothing is empty.
LEMMA NoNamesNoBytes ==
    ASSUME NEW d, NEW i, NamesOf(d, i) = {}
    PROVE  Bytes(d, i) = {} /\ Cardinality(Bytes(d, i)) = 0 /\ Children(d, i) = {}
<1>1. Bytes(d, i) = {}
  BY DEF Bytes
<1>2. Children(d, i) = {}
  BY NamedChildren
<1>3. QED
  BY <1>1, <1>2, FS_EmptySet

\* Where a directory names a new inode, and its size tells it.
LEMMA GrowExact ==
    ASSUME NEW d \in Disk, NEW e \in Disk, NEW L, L = Live(d), Tree(d, L), Exact(d, L),
           NEW c \in DirsOf(d, L), NEW k \in Inode \ L, NEW name \in Names,
           Tree(e, L \cup {k}), SameDirs(d, e, L \ {c}), IsDir(e, c), OneName(d, e, c),
           <<name, k>> \in NamesOf(e, c),
           e.inode_bitmap \subseteq L \cup {k}, Owned(e, L \cup {k}),
           e.used_dirs_count = IF IsDir(e, k) THEN Incr(d.used_dirs_count) ELSE d.used_dirs_count,
           \A i \in L \ {c} : e.inode_table[i].i_size = d.inode_table[i].i_size,
           e.inode_table[c].i_size = (d.inode_table[c].i_size + EntryBytes(name)) % SIZE_MOD,
           IsDir(e, k) => e.inode_table[k].i_size = 17 /\ NamesOf(e, k) = {}
    PROVE  Exact(e, Live(e))
<1> DEFINE t == <<name, k>>
           M == L \cup {k}
           D == DirsOf(d, L)
<1>1. /\ \A u \in NamesOf(d, c) : u[2] \in L
      /\ t[2] = k /\ t[1] = name
  BY NamesInOrder
<1>2. NamesOf(e, c) = NamesOf(d, c) \cup {t} /\ t \notin NamesOf(d, c)
  <2>1. t \notin NamesOf(d, c)
    BY <1>1
  <2> HIDE DEF t
  <2>2. QED
    BY <2>1, OneNameMore DEF t
<1>3. c \in L /\ c # k /\ L \subseteq Inode
  BY DEF DirsOf, Tree
<1>4. Live(e) = M
  <2>1. ASSUME NEW i \in L PROVE Children(d, i) \subseteq Children(e, i)
    <3>1. CASE i = c
      BY <1>2, <3>1, NamedChildren
    <3>2. CASE i # c
      BY <3>2, SameDirNames DEF SameDirs
    <3>3. QED
      BY <3>1, <3>2
  <2>2. k \in Children(e, c)
    BY <1>1, <1>2, NamedChildren
  <2>3. QED
    BY <1>3, <2>1, <2>2, LiveGrows
<1>5. e.inode_bitmap = M
  BY DEF Tree, Allocated
<1>6. DirsOf(e, M) = IF IsDir(e, k) THEN D \cup {k} ELSE D
  BY <1>3 DEF SameDirs, SameDir, DirsOf
<1>7. e.used_dirs_count = Cardinality(DirsOf(e, M))
  <2>1. IsFiniteSet(D) /\ D \subseteq Inode
    BY <1>3, Finite, FS_Subset DEF DirsOf
  <2>2. /\ IsFiniteSet(D \cup {k}) /\ Cardinality(D \cup {k}) = Cardinality(D) + 1
    BY <2>1, FS_AddElement DEF DirsOf
  <2>3. Cardinality(D \cup {k}) <= INODE_COUNT
    BY <2>1, Finite, FS_Subset
  <2>4. d.used_dirs_count = Cardinality(D) /\ Cardinality(D) \in Nat
    BY <2>1, FS_CardinalityType DEF Exact
  <2> HIDE DEF D
  <2>5. INODE_COUNT + 1 <= USHORT /\ INODE_COUNT \in Nat /\ USHORT \in Nat
    BY SizesAssumption, Ushort
  <2>6. d.used_dirs_count \in Position /\ d.used_dirs_count + 1 < USHORT
    BY <2>2, <2>3, <2>4, <2>5 DEF Position
  <2>7. Incr(d.used_dirs_count) = d.used_dirs_count + 1
    BY <2>6, CountsExact
  <2>8. QED
    BY <1>6, <2>2, <2>4, <2>7
<1>8. ASSUME NEW i \in DirsOf(e, M) PROVE e.inode_table[i].i_size = 17 + Cardinality(Bytes(e, i))
  <2>1. CASE i = k
    <3>1. IsDir(e, k)
      BY <2>1 DEF DirsOf
    <3>2. QED
      BY <2>1, <3>1, NoNamesNoBytes
  <2>2. CASE i = c
    <3> DEFINE n == EntryBytes(name)
               s == Cardinality(Bytes(d, c))
    <3>1. /\ IsFiniteSet(Bytes(d, c)) /\ s \in Nat
          /\ Bytes(d, c) = BytesOf(NamesOf(d, c))
      BY BytesBound
    <3>2. c \in DirsOf(e, M)
      BY <1>3 DEF DirsOf
    <3>3. /\ 17 + Cardinality(Bytes(e, c)) < SIZE_MOD
          /\ Bytes(e, c) = BytesOf(NamesOf(e, c))
      BY <3>2, BytesBound
    <3>4. n \in Nat
      BY EntryBytesBounds DEF AllNames
    <3>5. Cardinality(Bytes(e, c)) = s + n
      BY <1>1, <1>2, <3>1, <3>3, <3>4, BytesMore
    <3>6. d.inode_table[c].i_size = 17 + s
      BY DEF Exact
    <3> HIDE DEF n, s
    <3>7. e.inode_table[c].i_size = (17 + s + n) % SIZE_MOD
      BY <3>6 DEF n
    <3>8. 17 + s + n < SIZE_MOD /\ 17 + s + n \in Nat /\ SIZE_MOD \in Nat
      BY <3>1, <3>3, <3>4, <3>5, VolumeAssumption
    <3>9. (17 + s + n) % SIZE_MOD = 17 + s + n
      BY <3>8
    <3>10. QED
      BY <2>2, <3>1, <3>4, <3>5, <3>7, <3>9
  <2>3. CASE i \notin {c, k}
    <3>1. i \in D /\ i \in L \ {c}
      BY <1>6, <2>3 DEF DirsOf
    <3>2. NamesOf(e, i) = NamesOf(d, i)
      BY <3>1, SameDirNames DEF SameDirs
    <3>3. Bytes(e, i) = Bytes(d, i)
      BY <3>2 DEF Bytes
    <3>4. QED
      BY <3>1, <3>3 DEF Exact
  <2>4. QED
    BY <2>1, <2>2, <2>3
<1>9. QED
  BY <1>4, <1>5, <1>7, <1>8 DEF Exact, Owned

\* Where a directory no longer names an inode, which named nothing.
LEMMA ShrinkExact ==
    ASSUME NEW d \in Disk, NEW e \in Disk, NEW L, L = Live(d), Tree(d, L), Exact(d, L),
           NEW c \in DirsOf(d, L), NEW k \in L \ {ROOT, c}, NEW name \in Names,
           Tree(e, L \ {k}), SameDirs(d, e, L \ {c}), IsDir(e, c), OneName(d, e, c),
           <<name, k>> \in NamesOf(d, c), IsDir(d, k) => d.inode_table[k].i_size = 17,
           e.inode_bitmap \subseteq L \ {k}, Owned(e, L \ {k}),
           e.used_dirs_count = IF IsDir(d, k) THEN Decr(d.used_dirs_count) ELSE d.used_dirs_count,
           \A i \in L \ {c, k} : e.inode_table[i].i_size = d.inode_table[i].i_size,
           e.inode_table[c].i_size = (d.inode_table[c].i_size - EntryBytes(name)) % SIZE_MOD
    PROVE  Exact(e, Live(e))
<1> DEFINE t == <<name, k>>
           M == L \ {k}
           D == DirsOf(d, L)
<1>1. c \in L /\ c # k /\ L \subseteq Inode /\ c \in DirsOf(e, M) /\ t[2] = k /\ t[1] = name
  BY DEF DirsOf, Tree
<1>2. NamesOf(d, c) = NamesOf(e, c) \cup {t} /\ t \notin NamesOf(e, c)
  <2>1. \A u \in NamesOf(e, c) : u[2] \in M
    BY <1>1, NamesInOrder
  <2>2. t \notin NamesOf(e, c)
    BY <1>1, <2>1
  <2> HIDE DEF t
  <2>3. QED
    BY <2>2, OneNameLess DEF t
<1>3. Children(d, k) = {}
  <2>1. CASE ~IsDir(d, k)
    BY <2>1 DEF Children, EntriesOf
  <2>2. CASE IsDir(d, k)
    <3>1. k \in D
      BY <2>2 DEF DirsOf
    <3>2. IsFiniteSet(Bytes(d, k)) /\ Cardinality(Bytes(d, k)) \in Nat
      BY <3>1, BytesBound
    <3>3. Cardinality(Bytes(d, k)) = 0
      BY <2>2, <3>1, <3>2 DEF Exact
    <3>4. Bytes(d, k) = {}
      BY <3>2, <3>3, FS_EmptySet
    <3>5. NamesOf(d, k) = {}
      <4>1. SUFFICES ASSUME NEW u \in NamesOf(d, k) PROVE FALSE
        OBVIOUS
      <4>2. u[1] \in Names
        BY <3>1, NamesInOrder
      <4>3. 1 \in 1..EntryBytes(u[1])
        BY <4>2, EntryBytesBounds DEF AllNames
      <4>4. <<u, 1>> \in Bytes(d, k)
        BY <4>3 DEF Bytes
      <4>5. QED
        BY <3>4, <4>4
    <3>6. QED
      BY <3>5, NoNamesNoBytes
  <2>3. QED
    BY <2>1, <2>2
<1>4. Live(e) = M
  <2>1. ASSUME NEW i \in M PROVE Children(d, i) \subseteq Children(e, i) \cup {k}
    <3>1. CASE i = c
      BY <1>1, <1>2, <3>1, NamedChildren
    <3>2. CASE i # c
      BY <3>2, SameDirNames DEF SameDirs
    <3>3. QED
      BY <3>1, <3>2
  <2>2. QED
    BY <1>3, <2>1, LiveShrinks
<1>5. e.inode_bitmap = M
  BY DEF Tree, Allocated
<1>6. DirsOf(e, M) = D \ {k}
  BY <1>1 DEF SameDirs, SameDir, DirsOf
<1>7. e.used_dirs_count = Cardinality(DirsOf(e, M))
  <2>1. IsFiniteSet(D) /\ k \in D <=> IsDir(d, k)
    BY <1>1, Finite, FS_Subset DEF DirsOf
  <2>2. IsFiniteSet(D)
    BY <1>1, Finite, FS_Subset DEF DirsOf
  <2>3. d.used_dirs_count = Cardinality(D) /\ Cardinality(D) \in Nat
    BY <2>2, FS_CardinalityType DEF Exact
  <2>4. Cardinality(D \ {k}) = IF k \in D THEN Cardinality(D) - 1 ELSE Cardinality(D)
    BY <2>2, FS_RemoveElement
  <2>5. IsFiniteSet(D \ {k}) /\ Cardinality(D \ {k}) \in Nat
    BY <2>2, FS_RemoveElement, FS_CardinalityType
  <2> HIDE DEF D
  <2>6. d.used_dirs_count \in Position
    BY DEF Disk, Position
  <2>7. k \in D => Decr(d.used_dirs_count) = d.used_dirs_count - 1
    <3>1. k \in D => d.used_dirs_count # 0
      BY <2>3, <2>4, <2>5
    <3>2. QED
      BY <2>6, <3>1, CountsExact
  <2>8. QED
    BY <1>6, <2>1, <2>2, <2>3, <2>4, <2>7
<1>8. ASSUME NEW i \in DirsOf(e, M) PROVE e.inode_table[i].i_size = 17 + Cardinality(Bytes(e, i))
  <2>1. CASE i = c
    <3> DEFINE n == EntryBytes(name)
               s == Cardinality(Bytes(e, c))
    <3>1. /\ IsFiniteSet(Bytes(e, c)) /\ s \in Nat /\ 17 + s < SIZE_MOD
          /\ Bytes(e, c) = BytesOf(NamesOf(e, c))
      BY <1>1, BytesBound
    <3>2. Bytes(d, c) = BytesOf(NamesOf(d, c))
      BY BytesBound
    <3>3. n \in Nat
      BY EntryBytesBounds DEF AllNames
    <3>4. Cardinality(Bytes(d, c)) = s + n
      BY <1>1, <1>2, <3>1, <3>2, <3>3, BytesMore
    <3>5. d.inode_table[c].i_size = 17 + s + n
      BY <3>1, <3>3, <3>4 DEF Exact
    <3> HIDE DEF n, s
    <3>6. d.inode_table[c].i_size - n = 17 + s
      BY <3>1, <3>3, <3>5
    <3>7. e.inode_table[c].i_size = (17 + s) % SIZE_MOD
      BY <3>6 DEF n
    <3>8. (17 + s) % SIZE_MOD = 17 + s
      BY <3>1, VolumeAssumption
    <3>9. QED
      BY <2>1, <3>7, <3>8 DEF s
  <2>2. CASE i # c
    <3>1. i \in D /\ i \in L \ {c, k}
      BY <1>6, <2>2 DEF DirsOf
    <3>2. NamesOf(e, i) = NamesOf(d, i)
      BY <3>1, SameDirNames DEF SameDirs
    <3>3. Bytes(e, i) = Bytes(d, i)
      BY <3>2 DEF Bytes
    <3>4. QED
      BY <3>1, <3>3 DEF Exact
  <2>3. QED
    BY <2>1, <2>2
<1>9. QED
  BY <1>4, <1>5, <1>7, <1>8 DEF Exact, Owned

-----------------------------------------------------------------------------
(* What the routines take and give back, while nothing fails.               *)

\* The command has not failed, nor left anything unaccounted for.
Still(r) == r.status = "ok" /\ r.mishaps \cap Leaking = {}

\* The writes of a run do not change whether it goes on.
LEMMA PutStill ==
    ASSUME NEW r \in Run, NEW d, NEW q, q = Put(r, d)
    PROVE  /\ q.mishaps = r.mishaps /\ (Still(q) <=> Still(r))
           /\ Still(q) => q.disk = d
<1>1. CASE r.status = "ok"
  BY <1>1, PutOk DEF Still
<1>2. CASE r.status # "ok"
  BY <1>2 DEF Put, Still
<1>3. QED
  BY <1>1, <1>2

\* A mishap that leaks or damages is the end of it.
LEMMA FlagStill ==
    ASSUME NEW r \in Run, NEW m \in Leaking
    PROVE  ~Still(Flag(r, m))
BY DEF Flag, Run, Still

\* A run that stops has failed.
LEMMA StopStill ==
    ASSUME NEW r \in Run, NEW how \in {"lost", "deep"}
    PROVE  ~Still(Stop(r, how))
BY DEF Stop, Run, Still

\* The inode or block a routine returns changes nothing.
LEMMA ReturnStill ==
    ASSUME NEW r \in Run, NEW n
    PROVE  (Still(Return(r, n)) <=> Still(r)) /\ Return(r, n).disk = r.disk /\ Return(r, n).ret = n
           /\ Return(r, n).mishaps = r.mishaps
BY DEF Return, Run, Still

\* new_block takes one block.
LEMMA NewBlockTakes ==
    ASSUME NEW r \in Run, NEW q, q = new_block(r), Still(q)
    PROVE  /\ Still(r) /\ q.ret \in Block \ r.disk.block_bitmap
           /\ q.disk.block_bitmap = r.disk.block_bitmap \cup {q.ret}
           /\ q.disk.inode_table = r.disk.inode_table /\ q.disk.data = r.disk.data
           /\ q.disk.inode_bitmap = r.disk.inode_bitmap
           /\ q.disk.used_dirs_count = r.disk.used_dirs_count
<1> DEFINE b  == Min(Block \ r.disk.block_bitmap)
           d1 == [r.disk EXCEPT !.block_bitmap = @ \cup {b}]
           r1 == Put(r, d1)
           d2 == [r1.disk EXCEPT !.free_blocks_count = Decr(@)]
           r2 == Put(r1, d2)
<1>1. r.disk.free_blocks_count # 0 /\ r.disk.block_bitmap # Block
  <2>1. r.disk.free_blocks_count # 0
    <3>1. SUFFICES ASSUME r.disk.free_blocks_count = 0 PROVE FALSE
      OBVIOUS
    <3>2. q = Return(Flag(r, "no_block"), 0)
      BY <3>1 DEF new_block
    <3>3. "no_block" \in Leaking /\ "no_block" \in Mishaps
      BY DEF Leaking, Damaging, Mishaps
    <3>4. QED
      BY <3>2, <3>3, FlagType, FlagStill, ReturnStill
  <2>2. r.disk.block_bitmap # Block
    <3>1. SUFFICES ASSUME r.disk.block_bitmap = Block PROVE FALSE
      OBVIOUS
    <3>2. q = Return(Stop(r, "lost"), 0)
      BY <2>1, <3>1 DEF new_block
    <3>3. QED
      BY <3>2, StopType, StopStill, ReturnStill
  <2>3. QED
    BY <2>1, <2>2
<1>2. b \in Block \ r.disk.block_bitmap
  <2>1. r.disk.block_bitmap \subseteq Block
    BY RunDisk DEF Disk
  <2>2. Block \subseteq Nat
    BY DEF Block
  <2>3. Block \ r.disk.block_bitmap \subseteq Nat /\ Block \ r.disk.block_bitmap # {}
    BY <1>1, <2>1, <2>2
  <2>4. QED
    BY <2>3, MinOfNats
<1>3. q = Return(r2, b)
  BY <1>1 DEF new_block
<1> HIDE DEF b
<1>4. /\ d1 \in Disk /\ r1 \in Run
      /\ d1.block_bitmap = r.disk.block_bitmap \cup {b}
      /\ d1.inode_table = r.disk.inode_table /\ d1.data = r.disk.data
      /\ d1.inode_bitmap = r.disk.inode_bitmap
      /\ d1.used_dirs_count = r.disk.used_dirs_count
  <2>1. r.disk \in Disk
    BY RunDisk
  <2>2. /\ d1 \in Disk
        /\ d1.block_bitmap = r.disk.block_bitmap \cup {b}
        /\ d1.inode_table = r.disk.inode_table /\ d1.data = r.disk.data
        /\ d1.inode_bitmap = r.disk.inode_bitmap
        /\ d1.used_dirs_count = r.disk.used_dirs_count
    BY <1>2, <2>1 DEF Disk
  <2>3. QED
    BY <2>2, PutType
<1> HIDE DEF d1
<1>5. Still(r1) => Still(r) /\ r1.disk = d1
  BY <1>4, PutStill
<1> HIDE DEF r1
<1>6. /\ d2 \in Disk /\ r2 \in Run
      /\ d2.block_bitmap = r1.disk.block_bitmap
      /\ d2.inode_table = r1.disk.inode_table /\ d2.data = r1.disk.data
      /\ d2.inode_bitmap = r1.disk.inode_bitmap
      /\ d2.used_dirs_count = r1.disk.used_dirs_count
  <2>1. r1.disk \in Disk
    BY <1>4, RunDisk
  <2>2. Decr(r1.disk.free_blocks_count) \in Position
    BY <2>1, CountsType DEF Disk, Position
  <2>3. /\ d2 \in Disk
        /\ d2.block_bitmap = r1.disk.block_bitmap
        /\ d2.inode_table = r1.disk.inode_table /\ d2.data = r1.disk.data
        /\ d2.inode_bitmap = r1.disk.inode_bitmap
        /\ d2.used_dirs_count = r1.disk.used_dirs_count
    BY <2>1, <2>2 DEF Disk, Position
  <2>4. QED
    BY <1>4, <2>3, PutType
<1> HIDE DEF d2
<1>7. Still(r2) => Still(r1) /\ r2.disk = d2
  BY <1>4, PutStill
<1> HIDE DEF r2
<1>8. Still(r2) /\ q.disk = r2.disk /\ q.ret = b
  BY <1>3, <1>6, ReturnStill
<1>9. QED
  BY <1>2, <1>4, <1>5, <1>6, <1>7, <1>8

\* new_inode takes one inode.
LEMMA NewInodeTakes ==
    ASSUME NEW r \in Run, NEW q, q = new_inode(r), Still(q)
    PROVE  /\ Still(r) /\ q.ret \in Inode \ r.disk.inode_bitmap
           /\ q.disk.inode_bitmap = r.disk.inode_bitmap \cup {q.ret}
           /\ q.disk.block_bitmap = r.disk.block_bitmap
           /\ \A j \in Inode \ {q.ret} : q.disk.inode_table[j] = r.disk.inode_table[j]
           /\ q.disk.inode_table[q.ret].i_blocks = 0
           /\ q.disk.used_dirs_count = r.disk.used_dirs_count
<1> DEFINE i  == Min(Inode \ r.disk.inode_bitmap)
           e  == [ZeroInode EXCEPT !.perm = 6]
           d1 == [r.disk EXCEPT !.inode_bitmap = @ \cup {i}]
           r1 == Put(r, d1)
           d2 == [r1.disk EXCEPT !.inode_table[i] = e]
           r2 == Put(r1, d2)
           d3 == [r2.disk EXCEPT !.free_inodes_count = Decr(@)]
           r3 == Put(r2, d3)
<1>1. r.disk.free_inodes_count # 0 /\ r.disk.inode_bitmap # Inode
  <2>1. r.disk.free_inodes_count # 0
    <3>1. SUFFICES ASSUME r.disk.free_inodes_count = 0 PROVE FALSE
      OBVIOUS
    <3>2. q = Return(Flag(r, "no_inode"), 0)
      BY <3>1 DEF new_inode
    <3>3. "no_inode" \in Leaking /\ "no_inode" \in Mishaps
      BY DEF Leaking, Damaging, Mishaps
    <3>4. QED
      BY <3>2, <3>3, FlagType, FlagStill, ReturnStill
  <2>2. r.disk.inode_bitmap # Inode
    <3>1. SUFFICES ASSUME r.disk.inode_bitmap = Inode PROVE FALSE
      OBVIOUS
    <3>2. q = Return(Stop(r, "lost"), 0)
      BY <2>1, <3>1 DEF new_inode
    <3>3. QED
      BY <3>2, StopType, StopStill, ReturnStill
  <2>3. QED
    BY <2>1, <2>2
<1>2. i \in Inode \ r.disk.inode_bitmap
  <2>1. r.disk.inode_bitmap \subseteq Inode
    BY RunDisk DEF Disk
  <2>2. Inode \subseteq Nat
    BY DEF Inode
  <2>3. Inode \ r.disk.inode_bitmap \subseteq Nat /\ Inode \ r.disk.inode_bitmap # {}
    BY <1>1, <2>1, <2>2
  <2>4. QED
    BY <2>3, MinOfNats
<1>3. q = Return(r3, i)
  BY <1>1, <1>2 DEF new_inode, PutInode
<1>4. e \in InodeEntry /\ e.i_blocks = 0
  BY ZeroInodeType DEF ZeroInode
<1> HIDE DEF i, e
<1>5. /\ d1 \in Disk /\ r1 \in Run
      /\ d1.block_bitmap = r.disk.block_bitmap /\ d1.inode_table = r.disk.inode_table
      /\ d1.inode_bitmap = r.disk.inode_bitmap \cup {i}
      /\ d1.used_dirs_count = r.disk.used_dirs_count
  <2>1. r.disk \in Disk
    BY RunDisk
  <2>2. /\ d1 \in Disk
        /\ d1.block_bitmap = r.disk.block_bitmap /\ d1.inode_table = r.disk.inode_table
        /\ d1.inode_bitmap = r.disk.inode_bitmap \cup {i}
        /\ d1.used_dirs_count = r.disk.used_dirs_count
    BY <1>2, <2>1 DEF Disk
  <2>3. QED
    BY <2>2, PutType
<1> HIDE DEF d1
<1>6. Still(r1) => Still(r) /\ r1.disk = d1
  BY <1>5, PutStill
<1> HIDE DEF r1
<1>7. /\ d2 \in Disk /\ r2 \in Run
      /\ d2.block_bitmap = r1.disk.block_bitmap /\ d2.inode_bitmap = r1.disk.inode_bitmap
      /\ d2.inode_table[i] = e /\ \A j \in Inode \ {i} : d2.inode_table[j] = r1.disk.inode_table[j]
      /\ d2.used_dirs_count = r1.disk.used_dirs_count
  <2>1. r1.disk \in Disk
    BY <1>5, RunDisk
  <2>2. /\ d2 \in Disk
        /\ d2.block_bitmap = r1.disk.block_bitmap /\ d2.inode_bitmap = r1.disk.inode_bitmap
        /\ d2.inode_table[i] = e /\ \A j \in Inode \ {i} : d2.inode_table[j] = r1.disk.inode_table[j]
        /\ d2.used_dirs_count = r1.disk.used_dirs_count
    BY <1>2, <1>4, <2>1 DEF Disk
  <2>3. QED
    BY <1>5, <2>2, PutType
<1> HIDE DEF d2
<1>8. Still(r2) => Still(r1) /\ r2.disk = d2
  BY <1>5, PutStill
<1> HIDE DEF r2
<1>9. /\ d3 \in Disk /\ r3 \in Run
      /\ d3.block_bitmap = r2.disk.block_bitmap /\ d3.inode_bitmap = r2.disk.inode_bitmap
      /\ d3.inode_table = r2.disk.inode_table
      /\ d3.used_dirs_count = r2.disk.used_dirs_count
  <2>1. r2.disk \in Disk
    BY <1>7, RunDisk
  <2>2. Decr(r2.disk.free_inodes_count) \in Position
    BY <2>1, CountsType DEF Disk, Position
  <2>3. /\ d3 \in Disk
        /\ d3.block_bitmap = r2.disk.block_bitmap /\ d3.inode_bitmap = r2.disk.inode_bitmap
        /\ d3.inode_table = r2.disk.inode_table
        /\ d3.used_dirs_count = r2.disk.used_dirs_count
    BY <2>1, <2>2 DEF Disk, Position
  <2>4. QED
    BY <1>7, <2>3, PutType
<1> HIDE DEF d3
<1>10. Still(r3) => Still(r2) /\ r3.disk = d3
  BY <1>7, PutStill
<1> HIDE DEF r3
<1>11. Still(r3) /\ q.disk = r3.disk /\ q.ret = i
  BY <1>3, <1>9, ReturnStill
<1>12. q.disk = d3 /\ r2.disk = d2 /\ r1.disk = d1 /\ Still(r)
  BY <1>6, <1>8, <1>10, <1>11
<1>13. QED
  BY <1>2, <1>4, <1>5, <1>7, <1>9, <1>11, <1>12

\* update_inode_entry changes one inode.
LEMMA PutInodeTakes ==
    ASSUME NEW r \in Run, NEW i \in Inode, NEW e \in InodeEntry, NEW q, q = PutInode(r, i, e)
    PROVE  /\ q \in Run /\ (Still(q) <=> Still(r)) /\ q.mishaps = r.mishaps /\ q.ret = r.ret
           /\ Still(q) =>
                /\ q.disk.inode_table[i] = e
                /\ \A j \in Inode \ {i} : q.disk.inode_table[j] = r.disk.inode_table[j]
                /\ q.disk.inode_bitmap = r.disk.inode_bitmap /\ q.disk.block_bitmap = r.disk.block_bitmap
                /\ q.disk.data = r.disk.data /\ q.disk.used_dirs_count = r.disk.used_dirs_count
<1> DEFINE d == [r.disk EXCEPT !.inode_table[i] = e]
<1>1. q = Put(r, d)
  BY DEF PutInode
<1>2. /\ d \in Disk /\ d.inode_table[i] = e
      /\ \A j \in Inode \ {i} : d.inode_table[j] = r.disk.inode_table[j]
      /\ d.inode_bitmap = r.disk.inode_bitmap /\ d.block_bitmap = r.disk.block_bitmap
      /\ d.data = r.disk.data /\ d.used_dirs_count = r.disk.used_dirs_count
  <2>1. r.disk \in Disk
    BY RunDisk
  <2>2. QED
    BY <2>1 DEF Disk
<1> HIDE DEF d
<1>3. QED
  BY <1>1, <1>2, PutStill, PutType

\* Disk e has the inode k more than disk d, of the given type, and its block.
Made(d, e, k, type) ==
    /\ k \in Inode \ d.inode_bitmap /\ e.inode_bitmap = d.inode_bitmap \cup {k}
    /\ \A j \in Inode \ {k} : e.inode_table[j] = d.inode_table[j]
    /\ IsDir(e, k) <=> type = FT_DIR
    /\ IsDir(e, k) => e.inode_table[k].i_size = 17
    /\ e.used_dirs_count = IF IsDir(e, k) THEN Incr(d.used_dirs_count) ELSE d.used_dirs_count
    /\ \A b \in e.block_bitmap : b \in d.block_bitmap \/ \E x \in Places(e, k) : BlockOf(e, k, x) = b

\* new_dir_entry takes one inode, and one block for a directory.
LEMMA NewDirEntryTakes ==
    ASSUME NEW r \in Run, NEW name, NEW type \in {FT_REG_FILE, FT_DIR}, NEW parent \in Inode,
           NEW q, q = new_dir_entry(r, name, type, parent), Still(q)
    PROVE  Still(r) /\ Made(r.disk, q.disk, q.ret, type)
<1> DEFINE r1 == new_inode(r)
           i  == r1.ret
           e2 == [r1.disk.inode_table[i] EXCEPT
                    !.type = type, !.perm = IF name \in ExecNames THEN 7 ELSE @]
           r2 == IF i = 0 THEN r1 ELSE PutInode(r1, i, e2)
           d3 == [r2.disk EXCEPT !.used_dirs_count = Incr(@)]
           r3 == Put(r2, d3)
           r4 == new_block(r3)
           b  == r4.ret
           r5 == PutBlock(r4, b, DirImage(i, parent))
           e6 == [r5.disk.inode_table[i] EXCEPT
                    !.i_blocks = 1, !.i_size = 17, !.i_block[0] = b, !.perm = 6]
           r6 == IF i = 0 THEN r5 ELSE PutInode(r5, i, e6)
<1>1. r1 \in Run /\ i \in 0..INODE_COUNT /\ i \in Position
  BY NewInodeType, Volume
<1>2. (0 \notin Inode) /\ (i # 0 => i \in Inode)
  BY <1>1, SizesAssumption DEF Inode
<1>3. q = Return(IF type = FT_DIR THEN r6 ELSE r2, i)
  BY DEF new_dir_entry
<1>4. Still(r1) => /\ Still(r) /\ i \in Inode \ r.disk.inode_bitmap
                   /\ r1.disk.inode_bitmap = r.disk.inode_bitmap \cup {i}
                   /\ r1.disk.block_bitmap = r.disk.block_bitmap
                   /\ \A j \in Inode \ {i} : r1.disk.inode_table[j] = r.disk.inode_table[j]
                   /\ r1.disk.used_dirs_count = r.disk.used_dirs_count
  BY NewInodeTakes
<1> HIDE DEF r1, i
<1>5. i \in Inode => e2 \in InodeEntry /\ e2.type = type
  <2> SUFFICES ASSUME i \in Inode PROVE e2 \in InodeEntry /\ e2.type = type
    OBVIOUS
  <2> DEFINE e == r1.disk.inode_table[i]
  <2>1. e \in InodeEntry
    BY <1>1, RunDisk DEF Disk
  <2> HIDE DEF e
  <2> DEFINE p == IF name \in ExecNames THEN 7 ELSE e.perm
  <2>2. p \in 0..7
    BY <2>1 DEF InodeEntry
  <2> HIDE DEF p
  <2> DEFINE f == [e EXCEPT !.type = type, !.perm = p]
  <2>3. f \in InodeEntry /\ f.type = type
    BY <2>1, <2>2 DEF InodeEntry
  <2>4. e2 = f
    BY DEF e, p
  <2>5. QED
    BY <2>3, <2>4
<1> HIDE DEF e2
<1>6. /\ r2 \in Run /\ (Still(r2) <=> Still(r1))
      /\ Still(r2) => /\ r2.disk.inode_table[i] = e2
                      /\ r2.disk.inode_bitmap = r1.disk.inode_bitmap
                      /\ r2.disk.block_bitmap = r1.disk.block_bitmap
                      /\ \A j \in Inode \ {i} : r2.disk.inode_table[j] = r1.disk.inode_table[j]
                      /\ r2.disk.used_dirs_count = r1.disk.used_dirs_count
  <2>1. CASE i = 0
    BY <1>1, <1>2, <1>4, <2>1
  <2>2. CASE i # 0
    <3>1. r2 = PutInode(r1, i, e2) /\ i \in Inode
      BY <1>2, <2>2
    <3>2. QED
      BY <1>1, <1>5, <3>1, PutInodeTakes
  <2>3. QED
    BY <2>1, <2>2
<1> HIDE DEF r2
<1>7. Still(r2) => /\ Still(r) /\ i \in Inode \ r.disk.inode_bitmap
                   /\ r2.disk.inode_bitmap = r.disk.inode_bitmap \cup {i}
                   /\ r2.disk.block_bitmap = r.disk.block_bitmap
                   /\ \A j \in Inode \ {i} : r2.disk.inode_table[j] = r.disk.inode_table[j]
                   /\ r2.disk.used_dirs_count = r.disk.used_dirs_count
                   /\ r2.disk.inode_table[i].type = type
  BY <1>4, <1>5, <1>6
<1>8. CASE type = FT_REG_FILE
  <2>1. FT_REG_FILE # FT_DIR
    BY DEF FT_REG_FILE, FT_DIR
  <2>2. q = Return(r2, i)
    BY <1>3, <1>8, <2>1
  <2>3. Still(r2) /\ q.disk = r2.disk /\ q.ret = i
    BY <1>6, <2>2, ReturnStill
  <2>4. QED
    BY <1>7, <1>8, <2>1, <2>3 DEF Made, IsDir
<1>9. CASE type = FT_DIR
  <2>1. r2.disk \in Disk
    BY <1>6, RunDisk
  <2>2. Incr(r2.disk.used_dirs_count) \in Position
    BY <2>1, CountsType DEF Disk, Position
  <2>3. /\ d3 \in Disk /\ CountersOnly(r2.disk, d3)
        /\ d3.used_dirs_count = Incr(r2.disk.used_dirs_count)
    BY <2>1, <2>2 DEF Disk, Position, CountersOnly
  <2> HIDE DEF d3
  <2>4. r3 \in Run /\ (Still(r3) => Still(r2) /\ r3.disk = d3)
    BY <1>6, <2>3, PutType, PutStill
  <2> HIDE DEF r3
  <2>5. /\ r4 \in Run /\ b \in Block
        /\ Still(r4) => /\ Still(r3)
                        /\ r4.disk.block_bitmap = r3.disk.block_bitmap \cup {b}
                        /\ r4.disk.inode_table = r3.disk.inode_table
                        /\ r4.disk.inode_bitmap = r3.disk.inode_bitmap
                        /\ r4.disk.used_dirs_count = r3.disk.used_dirs_count
    BY <2>4, NewBlockRunType, NewBlockTakes
  <2> HIDE DEF r4, b
  <2>6. DirImage(i, parent) \in Content
    <3>1. parent \in 0..INODE_COUNT /\ NoName \in AllNames
      BY Volume DEF AllNames
    <3>2. QED
      BY <1>1, <3>1, NewBlockType DEF Content
  <2> DEFINE d5 == [r4.disk EXCEPT !.data[b] = DirImage(i, parent)]
  <2>7. r4.disk \in Disk
    BY <2>5, RunDisk
  <2>8. /\ d5 \in Disk /\ d5.block_bitmap = r4.disk.block_bitmap
        /\ d5.inode_table = r4.disk.inode_table /\ d5.inode_bitmap = r4.disk.inode_bitmap
        /\ d5.used_dirs_count = r4.disk.used_dirs_count
    BY <2>5, <2>6, <2>7 DEF Disk
  <2>9. r5 = Put(r4, d5)
    BY DEF PutBlock
  <2> HIDE DEF d5
  <2>10. r5 \in Run /\ (Still(r5) => Still(r4) /\ r5.disk = d5)
    BY <2>5, <2>8, <2>9, PutType, PutStill
  <2> HIDE DEF r5
  <2>11. i \in Inode => /\ e6 \in InodeEntry /\ e6.type = r5.disk.inode_table[i].type
                        /\ e6.i_blocks = 1 /\ e6.i_block[0] = b /\ e6.i_size = 17
    <3>1. r5.disk \in Disk
      BY <2>10, RunDisk
    <3>2. i \in Inode => r5.disk.inode_table[i] \in InodeEntry
      BY <3>1 DEF Disk
    <3>3. 1 \in 0..NDIRECT /\ 17 \in 0..(SIZE_MOD - 1) /\ 6 \in 0..7 /\ 0 \in 0..(NDIRECT - 1)
      BY VolumeAssumption
    <3>4. QED
      BY <2>5, <3>2, <3>3 DEF InodeEntry
  <2> HIDE DEF e6
  <2>12. q = Return(r6, i)
    BY <1>3, <1>9
  <2>13. /\ r6 \in Run /\ (Still(r6) <=> Still(r5))
         /\ Still(r6) /\ i # 0 =>
               /\ r6.disk.inode_table[i] = e6
               /\ r6.disk.inode_bitmap = r5.disk.inode_bitmap
               /\ r6.disk.block_bitmap = r5.disk.block_bitmap
               /\ \A j \in Inode \ {i} : r6.disk.inode_table[j] = r5.disk.inode_table[j]
               /\ r6.disk.used_dirs_count = r5.disk.used_dirs_count
    <3>1. CASE i = 0
      BY <2>10, <3>1
    <3>2. CASE i # 0
      <4>1. r6 = PutInode(r5, i, e6) /\ i \in Inode
        BY <1>2, <3>2
      <4>2. QED
        BY <2>10, <2>11, <4>1, PutInodeTakes
    <3>3. QED
      BY <3>1, <3>2
  <2> HIDE DEF r6
  <2>14. Still(r6) /\ q.disk = r6.disk /\ q.ret = i
    BY <2>12, <2>13, ReturnStill
  <2>15. Still(r2) /\ r3.disk = d3 /\ r5.disk = d5 /\ Still(r4) /\ Still(r3)
    BY <2>4, <2>5, <2>10, <2>13, <2>14
  <2>16. i \in Inode \ r.disk.inode_bitmap /\ i # 0 /\ Still(r)
    BY <1>2, <1>7, <2>15
  <2>17. /\ r6.disk.inode_table[i].type = FT_DIR /\ r6.disk.inode_table[i].i_size = 17
         /\ r6.disk.inode_table[i].i_blocks = 1 /\ r6.disk.inode_table[i].i_block[0] = b
    <3>1. r5.disk.inode_table[i] = r2.disk.inode_table[i]
      BY <2>3, <2>5, <2>8, <2>15 DEF CountersOnly
    <3>2. QED
      BY <1>7, <1>9, <2>11, <2>13, <2>14, <2>15, <2>16, <3>1
  <2>18. IsDir(r6.disk, i) /\ Places(r6.disk, i) = {0} /\ BlockOf(r6.disk, i, 0) = b
    BY <2>17 DEF IsDir, Places, BlockOf
  <2>19. r6.disk.used_dirs_count = Incr(r.disk.used_dirs_count)
    BY <1>7, <2>3, <2>5, <2>8, <2>13, <2>14, <2>15, <2>16
  <2>20. /\ r6.disk.inode_bitmap = r.disk.inode_bitmap \cup {i}
         /\ r6.disk.block_bitmap = r.disk.block_bitmap \cup {b}
    BY <1>7, <2>3, <2>5, <2>8, <2>13, <2>14, <2>15, <2>16 DEF CountersOnly
  <2>21. \A j \in Inode \ {i} : r6.disk.inode_table[j] = r.disk.inode_table[j]
    BY <1>7, <2>3, <2>5, <2>8, <2>13, <2>14, <2>15, <2>16 DEF CountersOnly
  <2>22. QED
    BY <1>9, <2>14, <2>16, <2>17, <2>18, <2>19, <2>20, <2>21 DEF Made
<1>10. QED
  BY <1>8, <1>9

\* Disk e has every block of disk d where it was, and no other but in inode i;
\* nothing else that is counted has changed.
Extends(d, e, i) ==
    /\ e.inode_bitmap = d.inode_bitmap /\ e.used_dirs_count = d.used_dirs_count
    /\ \A j \in Inode : /\ e.inode_table[j].i_size = d.inode_table[j].i_size
                        /\ IsDir(e, j) <=> IsDir(d, j)
    /\ \A j \in Inode \ {i} : Places(e, j) = Places(d, j)
    /\ \A j \in Inode : \A x \in Places(d, j) :
          x \in Places(e, j) /\ BlockOf(e, j, x) = BlockOf(d, j, x)
    /\ \A b \in e.block_bitmap : b \in d.block_bitmap \/ \E x \in Places(e, i) : BlockOf(e, i, x) = b

\* One after the other.
LEMMA ExtendsTransitive ==
    ASSUME NEW d, NEW e, NEW f, NEW i \in Inode, Extends(d, e, i), Extends(e, f, i)
    PROVE  Extends(d, f, i)
<1>1. ASSUME NEW b \in f.block_bitmap
      PROVE  b \in d.block_bitmap \/ \E x \in Places(f, i) : BlockOf(f, i, x) = b
  <2>1. b \in e.block_bitmap \/ \E x \in Places(f, i) : BlockOf(f, i, x) = b
    BY <1>1 DEF Extends
  <2>2. b \in e.block_bitmap => b \in d.block_bitmap \/ \E x \in Places(e, i) : BlockOf(e, i, x) = b
    BY DEF Extends
  <2>3. \A x \in Places(e, i) : x \in Places(f, i) /\ BlockOf(f, i, x) = BlockOf(e, i, x)
    BY DEF Extends
  <2>4. QED
    BY <2>1, <2>2, <2>3
<1>2. ASSUME NEW j \in Inode, NEW x \in Places(d, j)
      PROVE  x \in Places(f, j) /\ BlockOf(f, j, x) = BlockOf(d, j, x)
  <2>1. x \in Places(e, j) /\ BlockOf(e, j, x) = BlockOf(d, j, x)
    BY <1>2 DEF Extends
  <2>2. QED
    BY <2>1 DEF Extends
<1>3. \A j \in Inode \ {i} : Places(f, j) = Places(d, j)
  BY DEF Extends
<1>4. \A j \in Inode : /\ f.inode_table[j].i_size = d.inode_table[j].i_size
                      /\ (IsDir(f, j) <=> IsDir(d, j))
  <2>1. \A j \in Inode : IsDir(f, j) <=> IsDir(d, j)
    BY Zenon DEF Extends
  <2>2. QED
    BY <2>1 DEF Extends
<1>5. f.inode_bitmap = d.inode_bitmap /\ f.used_dirs_count = d.used_dirs_count
  BY DEF Extends
<1>6. QED
  BY <1>1, <1>2, <1>3, <1>4, <1>5 DEF Extends

\* So every block in use still has an owner.
LEMMA ExtendsOwned ==
    ASSUME NEW d, NEW e, NEW i, Extends(d, e, i), NEW L, L \subseteq Inode, i \in L, Owned(d, L)
    PROVE  Owned(e, L)
<1>1. ASSUME NEW b \in e.block_bitmap PROVE \E j \in L : \E x \in Places(e, j) : BlockOf(e, j, x) = b
  <2>1. CASE b \in d.block_bitmap
    <3>1. PICK j \in L : \E x \in Places(d, j) : BlockOf(d, j, x) = b
      BY <2>1 DEF Owned
    <3>2. PICK x \in Places(d, j) : BlockOf(d, j, x) = b
      BY <3>1
    <3>3. x \in Places(e, j) /\ BlockOf(e, j, x) = b
      BY <3>2 DEF Extends
    <3>4. QED
      BY <3>3
  <2>2. CASE b \notin d.block_bitmap
    BY <1>1, <2>2 DEF Extends
  <2>3. QED
    BY <2>1, <2>2
<1>2. QED
  BY <1>1 DEF Owned

\* Writing a data block does so.
LEMMA PutBlockTakes ==
    ASSUME NEW r \in Run, NEW b, r.status = "ok" => b \in Block, NEW content \in Content,
           NEW q, q = PutBlock(r, b, content)
    PROVE  /\ (Still(q) <=> Still(r)) /\ q.mishaps = r.mishaps
           /\ Still(q) => \A i : Extends(r.disk, q.disk, i)
<1> DEFINE d == [r.disk EXCEPT !.data[b] = content]
<1>1. q = Put(r, d)
  BY DEF PutBlock
<1>2. (Still(q) <=> Still(r)) /\ q.mishaps = r.mishaps /\ (Still(q) => q.disk = d)
  BY <1>1, PutStill
<1>3. ASSUME NEW i PROVE Extends(r.disk, d, i)
  <2>1. r.disk \in Disk
    BY RunDisk
  <2>2. /\ d.inode_table = r.disk.inode_table /\ d.inode_bitmap = r.disk.inode_bitmap
        /\ d.block_bitmap = r.disk.block_bitmap /\ d.used_dirs_count = r.disk.used_dirs_count
    BY <2>1 DEF Disk
  <2> HIDE DEF d
  <2>3. QED
    BY <2>2 DEF Extends, Places, BlockOf, IsDir
<1> HIDE DEF d
<1>4. QED
  BY <1>2, <1>3 DEF d

\* So does a block that new_block took, when inode i gets it.
LEMMA LongerExtends ==
    ASSUME NEW d \in Disk, NEW s \in Disk, NEW i \in Inode, NEW b \in Block,
           s.block_bitmap = d.block_bitmap \cup {b}, s.inode_table = d.inode_table,
           s.inode_bitmap = d.inode_bitmap, s.used_dirs_count = d.used_dirs_count,
           NEW n, n = s.inode_table[i].i_blocks, n # NDIRECT, NEW e,
           e = [s EXCEPT !.inode_table[i] = [s.inode_table[i] EXCEPT
                                               !.i_block[n] = b, !.i_blocks = n + 1]]
    PROVE  Extends(d, e, i)
<1>1. Lengthened(s, e, i, n, b)
  BY AddBlock
<1>2. e.used_dirs_count = s.used_dirs_count
  BY DEF Disk
<1>3. ASSUME NEW j \in Inode PROVE e.inode_table[j].i_size = s.inode_table[j].i_size
  <2> DEFINE old == s.inode_table[i]
             at  == [old.i_block EXCEPT ![n] = b]
             new == [old EXCEPT !.i_block = at, !.i_blocks = n + 1]
  <2>1. s.inode_table \in [Inode -> InodeEntry]
    BY DEF Disk
  <2>2. old \in InodeEntry
    BY <2>1
  <2> HIDE DEF at
  <2>3. new.i_size = old.i_size
    BY <2>2 DEF InodeEntry
  <2>4. e = [s EXCEPT !.inode_table[i] = new]
    BY DEF at
  <2> HIDE DEF new
  <2>5. e.inode_table = [s.inode_table EXCEPT ![i] = new]
    BY <2>4 DEF Disk
  <2>6. QED
    BY <2>1, <2>3, <2>5
<1>4. /\ \A j \in Inode : IsDir(e, j) <=> IsDir(s, j)
      /\ e.inode_bitmap = s.inode_bitmap /\ e.block_bitmap = s.block_bitmap
      /\ Places(e, i) = Places(s, i) \cup {n}
      /\ BlockOf(e, i, n) = b /\ \A x \in Places(s, i) : BlockOf(e, i, x) = BlockOf(s, i, x)
      /\ \A j \in Inode \ {i} : /\ Places(e, j) = Places(s, j)
                                /\ \A x : BlockOf(e, j, x) = BlockOf(s, j, x)
  BY <1>1 DEF Lengthened
<1>5. \A j : /\ Places(s, j) = Places(d, j) /\ (IsDir(s, j) <=> IsDir(d, j))
             /\ \A x : BlockOf(s, j, x) = BlockOf(d, j, x)
  BY DEF Places, BlockOf, IsDir
<1>6. QED
  BY <1>2, <1>3, <1>4, <1>5 DEF Extends

\* add_file_block gives inode i the block it takes.
LEMMA AddFileBlockTakes ==
    ASSUME NEW r \in Run, NEW i \in Inode, NEW q, q = add_file_block(r, i), Still(q)
    PROVE  /\ Still(r) /\ Extends(r.disk, q.disk, i) /\ q.disk.data = r.disk.data
           /\ q.ret \in Block
           /\ \E x \in Places(q.disk, i) \ Places(r.disk, i) : BlockOf(q.disk, i, x) = q.ret
<1> DEFINE n == r.disk.inode_table[i].i_blocks
           s == new_block(r)
           e == [s.disk.inode_table[i] EXCEPT !.i_block[n] = s.ret, !.i_blocks = n + 1]
           d == [s.disk EXCEPT !.inode_table[i] = e]
<1>1. n # NDIRECT
  <2>1. SUFFICES ASSUME n = NDIRECT PROVE FALSE
    OBVIOUS
  <2>2. q = Stop(r, "deep")
    BY <2>1 DEF add_file_block
  <2>3. QED
    BY <2>2, StopStill
<1>2. q = Return(Put(s, d), s.ret)
  BY <1>1 DEF add_file_block, PutInode
<1>3. /\ s \in Run /\ s.ret \in Block
      /\ Still(s) => /\ Still(r)
                     /\ s.disk.block_bitmap = r.disk.block_bitmap \cup {s.ret}
                     /\ s.disk.inode_table = r.disk.inode_table /\ s.disk.data = r.disk.data
                     /\ s.disk.inode_bitmap = r.disk.inode_bitmap
                     /\ s.disk.used_dirs_count = r.disk.used_dirs_count
  BY NewBlockRunType, NewBlockTakes
<1> HIDE DEF s
<1>4. d \in Disk
  <2>1. s.disk \in Disk /\ s.disk.inode_table[i] \in InodeEntry
    BY <1>3, RunDisk DEF Disk
  <2>2. e \in InodeEntry
    <3>1. r.disk.inode_table[i] \in InodeEntry
      BY RunDisk DEF Disk
    <3>2. n \in 0..NDIRECT
      BY <3>1 DEF InodeEntry
    <3> DEFINE m == n
    <3>3. m \in 0..NDIRECT /\ m # NDIRECT
      BY <1>1, <3>2
    <3> HIDE DEF m
    <3>4. m \in 0..(NDIRECT - 1) /\ m + 1 \in 0..NDIRECT
      BY <3>3, VolumeAssumption
    <3>5. n \in 0..(NDIRECT - 1) /\ n + 1 \in 0..NDIRECT
      BY <3>4 DEF m
    <3>6. QED
      BY <1>3, <2>1, <3>5 DEF InodeEntry
  <2> HIDE DEF e
  <2>3. QED
    BY <2>1, <2>2 DEF Disk
<1> HIDE DEF d
<1>5. /\ Still(s) /\ q.disk = d /\ q.ret = s.ret
  <2>1. Put(s, d) \in Run
    BY <1>3, <1>4, PutType
  <2>2. QED
    BY <1>2, <1>3, <2>1, PutStill, ReturnStill
<1>6. /\ Still(r) /\ r.disk \in Disk /\ s.disk \in Disk
      /\ s.disk.block_bitmap = r.disk.block_bitmap \cup {s.ret}
      /\ s.disk.inode_table = r.disk.inode_table /\ s.disk.data = r.disk.data
      /\ s.disk.inode_bitmap = r.disk.inode_bitmap
      /\ s.disk.used_dirs_count = r.disk.used_dirs_count
  BY <1>3, <1>5, RunDisk
<1>7. n = s.disk.inode_table[i].i_blocks
      /\ d = [s.disk EXCEPT !.inode_table[i] = [s.disk.inode_table[i] EXCEPT
                                                   !.i_block[n] = s.ret, !.i_blocks = n + 1]]
  BY <1>6 DEF d
<1> HIDE DEF n
<1>8. Extends(r.disk, d, i)
  BY <1>1, <1>3, <1>6, <1>7, LongerExtends
<1>9. Lengthened(s.disk, d, i, n, s.ret)
  BY <1>1, <1>3, <1>6, <1>7, AddBlock
<1>10. Places(s.disk, i) = Places(r.disk, i)
  BY <1>6 DEF Places
<1>11. d.data = r.disk.data /\ n \in Places(d, i) \ Places(r.disk, i) /\ BlockOf(d, i, n) = s.ret
  BY <1>6, <1>9, <1>10 DEF Lengthened
<1>12. QED
  BY <1>3, <1>5, <1>6, <1>8, <1>11

\* Where the entry of k is written.
Linked(d, e, c, k, name) ==
    \/ \E x \in Places(d, c) : /\ CanInsert(BlockAt(d, c, x), name)
                               /\ BlockAt(e, c, x) = Insert(BlockAt(d, c, x), k, name)
    \/ \E x \in Places(e, c) \ Places(d, c) : BlockAt(e, c, x) = FirstEntry(k, name)

\* Only blocks of inode i are written.
Writes(d, e, i) ==
    \A b \in Block : e.data[b] = d.data[b] \/ \E x \in Places(e, i) : BlockOf(e, i, x) = b

\* Link takes a block for the directory at most, and writes one of its blocks.
LEMMA LinkTakes ==
    ASSUME NEW r \in Run, NEW c \in Inode, NEW k \in 0..INODE_COUNT, NEW name \in AllNames,
           Still(r) => \A x \in Places(r.disk, c) : BlockAt(r.disk, c, x) \in Image,
           NEW q, q = Link(r, c, k, name), Still(q)
    PROVE  /\ Still(r) /\ Extends(r.disk, q.disk, c)
           /\ Linked(r.disk, q.disk, c, k, name) /\ Writes(r.disk, q.disk, c)
<1> DEFINE d    == r.disk
           n    == d.inode_table[c].i_blocks
           room == {x \in 0..(n - 1) : CanInsert(BlockAt(d, c, x), name)}
           lost == \E x \in 0..(n - 1) : /\ \A y \in room : x < y
                                         /\ ~Terminates(BlockAt(d, c, x))
           X    == Min(room)
           b    == d.inode_table[c].i_block[X]
           r1   == PutBlock(r, b, Insert(d.data[b], k, name))
           r2   == add_file_block(r, c)
           r3   == PutBlock(Flag(r2, "exposed_block"), r2.ret, FirstEntry(k, name))
<1>1. /\ q = IF r.status # "ok" THEN r
             ELSE IF lost THEN Stop(r, "lost")
             ELSE IF room = {} THEN [r3 EXCEPT !.mishaps = r2.mishaps]
             ELSE IF Overwritten(d.data[b], k, name) = {} THEN r1
             ELSE Flag(r1, "gap_overwrite")
  BY DEF Link
<1>2. d \in Disk /\ r.status = "ok"
  <2>1. r.status # "ok" => q = r
    BY <1>1
  <2>2. QED
    BY <2>1, RunDisk DEF Still
<1> HIDE DEF d
<1>3. ~lost
  BY <1>1, <1>2, StopStill
<1>4. CASE room # {}
  <2>1. X \in Places(d, c) /\ CanInsert(BlockAt(d, c, X), name)
    <3>1. room \subseteq Nat
      OBVIOUS
    <3>2. X \in room
      BY <1>4, <3>1, MinOfNats
    <3>3. QED
      BY <3>2 DEF Places
  <2>2. q = IF Overwritten(d.data[b], k, name) = {} THEN r1 ELSE Flag(r1, "gap_overwrite")
    BY <1>1, <1>2, <1>3, <1>4
  <2> HIDE DEF lost, X, room
  <2>3. b = BlockOf(d, c, X) /\ d.data[b] = BlockAt(d, c, X) /\ b \in Block
    BY <1>2, <2>1, PlacesType DEF BlockOf, BlockAt
  <2> DEFINE content == Insert(BlockAt(d, c, X), k, name)
             e == [d EXCEPT !.data[b] = content]
  <2>4. r1 = Put(r, e)
    BY <2>3 DEF PutBlock, d
  <2>5. r1.mishaps = r.mishaps /\ r1.status = "ok" /\ r1.disk = e
    BY <1>2, <2>4, PutOk
  <2>6. q = r1
    <3>1. SUFFICES ASSUME q = Flag(r1, "gap_overwrite") PROVE FALSE
      BY <2>2
    <3>2. "gap_overwrite" \in q.mishaps
      <4>1. r1 = [r EXCEPT !.disk = e, !.cuts = @ \cup {[disk |-> r.disk, mishaps |-> r.mishaps]}]
        BY <1>2, <2>4 DEF Put
      <4> HIDE DEF e, r1
      <4>2. QED
        BY <2>5, <3>1, <4>1 DEF Flag, Run
    <3>3. QED
      BY <3>2 DEF Still, Leaking
  <2>7. Still(r) /\ content \in Content
    <3>1. Still(r)
      BY <1>2, <2>5, <2>6 DEF Still
    <3>2. QED
      BY <2>1, <3>1, InsertType DEF Content, d
  <2>8. e = [d EXCEPT !.data[b] = content]
    OBVIOUS
  <2>9. content = Insert(BlockAt(d, c, X), k, name)
    OBVIOUS
  <2>10. q = PutBlock(r, b, content)
    BY <2>3, <2>6
  <2> HIDE DEF e, content, r1, b
  <2>11. Extends(r.disk, q.disk, c) /\ q.disk = e
    <3>1. r.status = "ok" => b \in Block
      BY <2>3
    <3>2. Extends(r.disk, q.disk, c)
      BY <2>7, <2>10, <3>1, PutBlockTakes
    <3>3. QED
      BY <2>5, <2>6, <3>2
  <2>12. Places(e, c) = Places(d, c) /\ BlockAt(e, c, X) = content
    BY <1>2, <2>3, <2>7, <2>8, PutData
  <2>13. Linked(d, e, c, k, name)
    BY <2>1, <2>9, <2>12 DEF Linked
  <2>14. Writes(d, e, c)
    <3>1. BlockOf(e, c, X) = b
      BY <1>2, <2>3, <2>7, <2>8, PutData
    <3>2. \A a \in Block \ {b} : e.data[a] = d.data[a]
      BY <1>2, <2>8 DEF Disk
    <3>3. QED
      BY <2>1, <2>12, <3>1, <3>2 DEF Writes
  <2>15. QED
    BY <2>7, <2>11, <2>13, <2>14 DEF d
<1>5. CASE room = {}
  <2> DEFINE content == FirstEntry(k, name)
             e == [r2.disk EXCEPT !.data[r2.ret] = content]
  <2>1. q = [r3 EXCEPT !.mishaps = r2.mishaps]
    BY <1>1, <1>2, <1>3, <1>5
  <2> HIDE DEF lost, room, X, b, r1
  <2>2. r2 \in Run
    BY AddFileBlockType
  <2>3. content \in Content
    BY NewBlockType DEF Content
  <2> DEFINE f == Flag(r2, "exposed_block")
  <2>4. r3 = Put(f, [f.disk EXCEPT !.data[r2.ret] = content])
    BY DEF PutBlock
  <2>5. f \in Run /\ f.disk = r2.disk /\ f.status = r2.status /\ (r2.status # "ok" => f = r2)
    BY <2>2, FlagType DEF Flag, Run, Mishaps
  <2> HIDE DEF f, r3, r2, content, e
  <2>6. r2.status = "ok"
    <3>1. SUFFICES ASSUME r2.status # "ok" PROVE FALSE
      OBVIOUS
    <3>2. r3 = r2
      BY <2>4, <2>5, <3>1 DEF Put
    <3>3. q.status = r2.status
      BY <2>1, <2>2, <3>2 DEF Run
    <3>4. QED
      BY <3>1, <3>3 DEF Still
  <2>7. r3 = [f EXCEPT !.disk = [f.disk EXCEPT !.data[r2.ret] = content],
                       !.cuts = @ \cup {[disk |-> f.disk, mishaps |-> f.mishaps]}]
    BY <2>4, <2>5, <2>6 DEF Put
  <2>8. q.disk = [f.disk EXCEPT !.data[r2.ret] = content]
    BY <2>1, <2>5, <2>7 DEF Run
  <2>9. q.mishaps = r2.mishaps
    BY <2>1, <2>5, <2>7 DEF Run
  <2>10. r2.ret \in Block
    BY <2>6, <2>9, AddFileBlockTakes DEF Still, r2
  <2>11. Still(r2) /\ q.disk = e
    BY <2>5, <2>6, <2>8, <2>9 DEF Still, e
  <2>12. /\ Still(r) /\ Extends(d, r2.disk, c) /\ r2.disk.data = d.data
         /\ \E x \in Places(r2.disk, c) \ Places(d, c) : BlockOf(r2.disk, c, x) = r2.ret
    BY <2>11, AddFileBlockTakes DEF r2, d
  <2>13. e = [r2.disk EXCEPT !.data[r2.ret] = content] /\ content = FirstEntry(k, name)
    BY DEF e, content
  <2>14. Places(e, c) = Places(r2.disk, c) /\ (\A x : BlockOf(e, c, x) = BlockOf(r2.disk, c, x))
         /\ \A x : BlockOf(r2.disk, c, x) = r2.ret => BlockAt(e, c, x) = content
    <3>1. r2.disk \in Disk
      BY <2>2, RunDisk
    <3> DEFINE d2 == r2.disk
               b2 == r2.ret
    <3>2. d2 \in Disk /\ b2 \in Block /\ e = [d2 EXCEPT !.data[b2] = content]
      BY <2>10, <2>13, <3>1
    <3> HIDE DEF d2, b2
    <3>3. Places(e, c) = Places(d2, c) /\ (\A x : BlockOf(e, c, x) = BlockOf(d2, c, x))
          /\ \A x : BlockOf(d2, c, x) = b2 => BlockAt(e, c, x) = content
      BY <2>3, <3>2, PutData
    <3>4. QED
      BY <3>3 DEF d2, b2
  <2>15. Linked(d, e, c, k, name)
    BY <2>12, <2>13, <2>14 DEF Linked
  <2>16. Extends(r2.disk, e, c)
    <3>1. r2.disk.data \in [Block -> Content] /\ r2.disk \in Disk
      BY <2>2, RunDisk DEF Disk
    <3>2. /\ e.inode_table = r2.disk.inode_table /\ e.inode_bitmap = r2.disk.inode_bitmap
          /\ e.block_bitmap = r2.disk.block_bitmap /\ e.used_dirs_count = r2.disk.used_dirs_count
      BY <2>13, <3>1 DEF Disk
    <3>3. QED
      BY <3>2 DEF Extends, Places, BlockOf, IsDir
  <2>17. Extends(d, e, c)
    BY <2>12, <2>16, ExtendsTransitive
  <2>18. Writes(d, e, c)
    <3>1. r2.disk \in Disk
      BY <2>2, RunDisk
    <3>2. \A a \in Block \ {r2.ret} : e.data[a] = r2.disk.data[a]
      BY <2>13, <3>1 DEF Disk
    <3>3. QED
      BY <2>12, <2>14, <3>2 DEF Writes
  <2>19. QED
    BY <2>11, <2>12, <2>15, <2>17, <2>18 DEF d
<1>6. QED
  BY <1>4, <1>5

-----------------------------------------------------------------------------
(* Making, removing and writing what a directory names keeps a volume exact. *)

\* The new name is found where it was written.
LEMMA NameLinked ==
    ASSUME NEW d \in Disk, NEW L, Tree(d, L), NEW c \in DirsOf(d, L), NEW k \in Inode, NEW name \in Names,
           NEW e \in Disk, NEW M, Tree(e, M), c \in DirsOf(e, M),
           \A x \in Places(d, c) : x \in Places(e, c), Linked(d, e, c, k, name)
    PROVE  <<name, k>> \in NamesOf(e, c)
<1>1. /\ c \in Inode /\ DirInOrder(d, L, c) /\ DirInOrder(e, M, c) /\ IsDir(e, c)
      /\ k \in 1..INODE_COUNT /\ name \in AllNames
  BY DEF Tree, DirsOf, Inode, AllNames
<1>2. ASSUME NEW x \in Places(e, c), NEW p \in Spots(e, c, x),
             NameAt(e, c, x, p) = name, InodeAt(e, c, x, p) = k
      PROVE  <<name, k>> \in NamesOf(e, c)
  <2>1. \A t : t \in NamesOf(e, c) <=> \E y \in Places(e, c) : \E q \in Spots(e, c, y) :
           t = <<NameAt(e, c, y, q), InodeAt(e, c, y, q)>>
    BY <1>1, SpotNames
  <2>2. QED
    BY <1>2, <2>1
<1>3. CASE \E x \in Places(d, c) : /\ CanInsert(BlockAt(d, c, x), name)
                                   /\ BlockAt(e, c, x) = Insert(BlockAt(d, c, x), k, name)
  <2>1. PICK x \in Places(d, c) : /\ CanInsert(BlockAt(d, c, x), name)
                                  /\ BlockAt(e, c, x) = Insert(BlockAt(d, c, x), k, name)
    BY <1>3
  <2> DEFINE img == BlockAt(d, c, x)
             new == BlockAt(e, c, x)
  <2>2. img \in Image /\ Tiled(img) /\ x \in Places(e, c)
    BY <1>1 DEF DirInOrder
  <2>3. PICK n \in Walk(new) : n \notin Walk(img) /\ At(new, n).inode = k /\ At(new, n).name = name
    BY <1>1, <2>1, <2>2, InsertOrder
  <2>4. x = 0 => 0 \in Walk(img) /\ 8 \in Walk(img)
    <3>1. Header(BlockAt(d, c, 0), c, Up(d, c))
      BY <1>1 DEF DirInOrder
    <3>2. 0 \in Walk(img)
      BY <2>2, TiledWalk
    <3>3. QED
      BY <3>1, <3>2 DEF Header
  <2>5. n \in Spots(e, c, x)
    BY <2>3, <2>4 DEF Spots
  <2>6. QED
    BY <1>2, <2>2, <2>3, <2>5 DEF NameAt, InodeAt
<1>4. CASE \E x \in Places(e, c) \ Places(d, c) : BlockAt(e, c, x) = FirstEntry(k, name)
  <2>1. PICK x \in Places(e, c) \ Places(d, c) : BlockAt(e, c, x) = FirstEntry(k, name)
    BY <1>4
  <2>2. x # 0
    BY <1>1 DEF DirInOrder
  <2>3. Walk(BlockAt(e, c, x)) = {0} /\ At(BlockAt(e, c, x), 0).inode = k /\ At(BlockAt(e, c, x), 0).name = name
    BY <1>1, <2>1, FirstEntryOrder
  <2>4. QED
    BY <1>2, <2>2, <2>3 DEF Spots, NameAt, InodeAt
<1>5. QED
  BY <1>3, <1>4 DEF Linked

\* The new directory stays empty when its name is written.
LEMMA NewDirEmpty ==
    ASSUME NEW d \in Disk, NEW L, NEW k, NEW c \in L \cap Inode, Ready(d, L, k, c), IsDir(d, k),
           NEW e \in Disk, Writes(d, e, c), Tree(e, L \cup {k}), IsDir(e, k), Places(e, k) = Places(d, k),
           \A x \in Places(d, k) : BlockOf(e, k, x) = BlockOf(d, k, x)
    PROVE  NamesOf(e, k) = {}
<1> DEFINE b == BlockOf(d, k, 0)
<1>1. k \in Inode /\ k # c /\ Places(d, k) = {0} /\ BlockAt(d, k, 0) = DirImage(k, c)
  BY DEF Ready
<1>2. Places(e, k) = {0} /\ BlockOf(e, k, 0) = b
  BY <1>1
<1>3. \A x \in Places(e, c) : BlockOf(e, c, x) # b
  BY <1>1, <1>2 DEF Tree, Allocated
<1>4. b \in Block
  BY <1>1, PlacesType
<1>5. e.data[b] = d.data[b]
  BY <1>3, <1>4 DEF Writes
<1>6. BlockAt(e, k, 0) = DirImage(k, c)
  BY <1>1, <1>2, <1>5 DEF BlockAt, BlockOf
<1>7. Walk(DirImage(k, c)) = {0, 8}
  BY <1>1, DirImageOrder DEF Inode
<1>8. \A x \in Places(e, k) : Spots(e, k, x) = {}
  BY <1>2, <1>6, <1>7 DEF Spots
<1>9. DirInOrder(e, L \cup {k}, k)
  BY <1>1 DEF Tree, DirsOf
<1>10. \A t : t \in NamesOf(e, k) <=> \E y \in Places(e, k) : \E q \in Spots(e, k, y) :
           t = <<NameAt(e, k, y, q), InodeAt(e, k, y, q)>>
  BY <1>1, <1>9, SpotNames
<1>11. QED
  BY <1>8, <1>10

\* Disk e is disk d, but that i_size of inode i has changed by delta.
Sized(d, e, i, delta) ==
    /\ e.inode_bitmap = d.inode_bitmap /\ e.block_bitmap = d.block_bitmap
    /\ e.used_dirs_count = d.used_dirs_count /\ e.data = d.data
    /\ \A j \in Inode : /\ IsDir(e, j) <=> IsDir(d, j)
                        /\ Places(e, j) = Places(d, j)
                        /\ \A x : /\ BlockOf(e, j, x) = BlockOf(d, j, x)
                                  /\ BlockAt(e, j, x) = BlockAt(d, j, x)
    /\ \A j \in Inode \ {i} : e.inode_table[j].i_size = d.inode_table[j].i_size
    /\ e.inode_table[i].i_size = (d.inode_table[i].i_size + delta) % SIZE_MOD

\* Resize does no more than that.
LEMMA ResizeTakes ==
    ASSUME NEW r \in Run, NEW i \in Inode, NEW delta \in Int, NEW q, q = Resize(r, i, delta), Still(q)
    PROVE  Still(r) /\ q.mishaps = r.mishaps /\ Sized(r.disk, q.disk, i, delta)
<1> DEFINE old == r.disk.inode_table[i]
           n == (old.i_size + delta) % SIZE_MOD
           e == [old EXCEPT !.i_size = n]
<1>1. r.disk \in Disk
  BY RunDisk
<1>2. old \in InodeEntry
  BY <1>1 DEF Disk
<1>3. n \in 0..(SIZE_MOD - 1)
  <2>1. old.i_size \in Int /\ SIZE_MOD \in Nat \ {0}
    BY <1>2, VolumeAssumption DEF InodeEntry
  <2>2. QED
    BY <2>1
<1>4. q = PutInode(r, i, e)
  BY DEF Resize
<1>5. n = (r.disk.inode_table[i].i_size + delta) % SIZE_MOD
  OBVIOUS
<1> HIDE DEF n
<1>6. /\ e \in InodeEntry /\ e.type = old.type /\ e.i_blocks = old.i_blocks /\ e.i_block = old.i_block
      /\ e.i_size = n
  BY <1>2, <1>3 DEF InodeEntry
<1> HIDE DEF e
<1>7. /\ Still(r) /\ q.mishaps = r.mishaps
      /\ q.disk.inode_table[i] = e
      /\ \A j \in Inode \ {i} : q.disk.inode_table[j] = r.disk.inode_table[j]
      /\ q.disk.inode_bitmap = r.disk.inode_bitmap /\ q.disk.block_bitmap = r.disk.block_bitmap
      /\ q.disk.data = r.disk.data /\ q.disk.used_dirs_count = r.disk.used_dirs_count
  BY <1>4, <1>6, PutInodeTakes
<1>8. ASSUME NEW j \in Inode
      PROVE  /\ q.disk.inode_table[j].type = r.disk.inode_table[j].type
             /\ q.disk.inode_table[j].i_blocks = r.disk.inode_table[j].i_blocks
             /\ q.disk.inode_table[j].i_block = r.disk.inode_table[j].i_block
  BY <1>6, <1>7
<1>9. ASSUME NEW j \in Inode
      PROVE  /\ IsDir(q.disk, j) <=> IsDir(r.disk, j)
             /\ Places(q.disk, j) = Places(r.disk, j)
             /\ \A x : /\ BlockOf(q.disk, j, x) = BlockOf(r.disk, j, x)
                       /\ BlockAt(q.disk, j, x) = BlockAt(r.disk, j, x)
  BY <1>7, <1>8 DEF IsDir, Places, BlockOf, BlockAt
<1>10. q.disk.inode_table[i].i_size = (r.disk.inode_table[i].i_size + delta) % SIZE_MOD
  BY <1>5, <1>6, <1>7
<1>11. QED
  BY <1>7, <1>9, <1>10 DEF Sized

\* What is exact stays so when a name is made: disk d1 has the new inode, d2
\* its name, e the new size.
LEMMA MadeExact ==
    ASSUME NEW d \in Disk, NEW L, L = Live(d), Tree(d, L), Exact(d, L), NEW c \in DirsOf(d, L),
           NEW name \in Names, NEW k, NEW type,
           NEW d1 \in Disk, Made(d, d1, k, type), Ready(d1, L, k, c), SameDirs(d, d1, L), Tree(d1, L),
           NEW d2 \in Disk, Extends(d1, d2, c), Linked(d1, d2, c, k, name), Writes(d1, d2, c),
           NEW e \in Disk, Sized(d2, e, c, EntryBytes(name)),
           Tree(e, L \cup {k}), SameDirs(d, e, L \ {c}), IsDir(e, c), OneName(d, e, c)
    PROVE  Exact(e, Live(e))
<1> DEFINE M == L \cup {k}
<1>1. L \subseteq Inode /\ c \in L /\ c \in Inode /\ k \in Inode /\ k \in Inode \ L /\ c # k
  BY DEF Tree, DirsOf, Ready
<1>2. c \in DirsOf(d1, L)
  BY <1>1 DEF DirsOf, SameDirs, SameDir
<1>3. /\ Writes(d1, e, c) /\ Linked(d1, e, c, k, name)
      /\ \A x \in Places(d1, c) : x \in Places(e, c)
  <2>1. e.data = d2.data /\ Places(e, c) = Places(d2, c)
        /\ \A x : /\ BlockOf(e, c, x) = BlockOf(d2, c, x)
                  /\ BlockAt(e, c, x) = BlockAt(d2, c, x)
    BY <1>1 DEF Sized
  <2>2. Writes(d1, e, c)
    BY <2>1 DEF Writes
  <2>3. \A x \in Places(d1, c) : x \in Places(d2, c)
    BY <1>1 DEF Extends
  <2>4. Linked(d1, e, c, k, name)
    BY <2>1 DEF Linked
  <2>5. QED
    BY <2>1, <2>2, <2>3, <2>4
<1>4. <<name, k>> \in NamesOf(e, c)
  <2>1. c \in DirsOf(e, M)
    BY <1>1 DEF DirsOf
  <2> HIDE DEF M
  <2>2. Tree(e, M)
    BY DEF M
  <2>3. QED
    BY <1>1, <1>2, <1>3, <2>1, <2>2, NameLinked
<1>5. ASSUME NEW j \in M
      PROVE  /\ IsDir(e, j) <=> IsDir(d1, j)
             /\ \A x \in Places(d1, j) : x \in Places(e, j) /\ BlockOf(e, j, x) = BlockOf(d1, j, x)
             /\ j # c => /\ Places(e, j) = Places(d1, j)
                         /\ e.inode_table[j].i_size = d1.inode_table[j].i_size
  <2>1. j \in Inode
    BY <1>1
  <2>2. /\ IsDir(d2, j) <=> IsDir(d1, j)
        /\ \A x \in Places(d1, j) : x \in Places(d2, j) /\ BlockOf(d2, j, x) = BlockOf(d1, j, x)
        /\ j # c => Places(d2, j) = Places(d1, j)
        /\ d2.inode_table[j].i_size = d1.inode_table[j].i_size
    BY <2>1 DEF Extends
  <2>3. /\ IsDir(e, j) <=> IsDir(d2, j)
        /\ Places(e, j) = Places(d2, j) /\ \A x : BlockOf(e, j, x) = BlockOf(d2, j, x)
        /\ j # c => e.inode_table[j].i_size = d2.inode_table[j].i_size
    BY <2>1 DEF Sized
  <2>4. QED
    BY <2>2, <2>3
<1>6. IsDir(e, k) => NamesOf(e, k) = {}
  <2>1. SUFFICES ASSUME IsDir(e, k) PROVE NamesOf(e, k) = {}
    OBVIOUS
  <2>2. IsDir(d1, k) /\ Places(e, k) = Places(d1, k)
        /\ \A x \in Places(d1, k) : BlockOf(e, k, x) = BlockOf(d1, k, x)
    BY <1>1, <1>5, <2>1
  <2>3. QED
    BY <1>1, <1>3, <2>1, <2>2, NewDirEmpty
<1>7. e.inode_bitmap \subseteq M
  BY <1>1 DEF Sized, Extends, Made, Exact
<1>8. Owned(e, M)
  <2>1. Owned(d1, M)
    <3>1. ASSUME NEW b \in d1.block_bitmap PROVE \E j \in M : \E x \in Places(d1, j) : BlockOf(d1, j, x) = b
      <4>1. CASE b \in d.block_bitmap
        <5>1. PICK j \in L : \E x \in Places(d, j) : BlockOf(d, j, x) = b
          BY <4>1 DEF Exact, Owned
        <5>2. d1.inode_table[j] = d.inode_table[j] /\ j \in M
          BY <1>1 DEF Made
        <5>3. QED
          BY <5>1, <5>2 DEF Places, BlockOf
      <4>2. CASE b \notin d.block_bitmap
        BY <3>1, <4>2 DEF Made
      <4>3. QED
        BY <4>1, <4>2
    <3>2. QED
      BY <3>1 DEF Owned
  <2>2. M \subseteq Inode /\ c \in M
    BY <1>1
  <2> HIDE DEF M
  <2>3. Owned(d2, M)
    BY <2>1, <2>2, ExtendsOwned
  <2>4. QED
    BY <2>2, <2>3 DEF Owned, Sized
<1>9. e.used_dirs_count = IF IsDir(e, k) THEN Incr(d.used_dirs_count) ELSE d.used_dirs_count
  <2>1. e.used_dirs_count = d1.used_dirs_count /\ (IsDir(e, k) <=> IsDir(d1, k))
    BY <1>5 DEF Sized, Extends
  <2>2. QED
    BY <2>1 DEF Made
<1>10. \A i \in L \ {c} : e.inode_table[i].i_size = d.inode_table[i].i_size
  <2>1. \A i \in L : d1.inode_table[i] = d.inode_table[i]
    BY <1>1 DEF Made
  <2>2. QED
    BY <1>5, <2>1
<1>11. e.inode_table[c].i_size = (d.inode_table[c].i_size + EntryBytes(name)) % SIZE_MOD
  <2>1. d1.inode_table[c] = d.inode_table[c]
    BY <1>1 DEF Made
  <2>2. d2.inode_table[c].i_size = d1.inode_table[c].i_size
    BY <1>1 DEF Extends
  <2>3. QED
    BY <2>1, <2>2 DEF Sized
<1>12. IsDir(e, k) => e.inode_table[k].i_size = 17
  BY <1>1, <1>5 DEF Made
<1>13. QED
  BY <1>1, <1>4, <1>6, <1>7, <1>8, <1>9, <1>10, <1>11, <1>12, GrowExact DEF M

\* mkdir and create keep a volume exact.
LEMMA MakeExact ==
    ASSUME Ordered, Exact(disk, Live(disk)), NEW name \in Args, found(name) = 0,
           NEW type \in {FT_REG_FILE, FT_DIR}, NEW q, q = MakeRun(name, type), Still(q)
    PROVE  Exact(q.disk, Live(q.disk))
<1> DEFINE c  == current_dir
           L  == Live(disk)
           r1 == new_dir_entry(Start, name, type, current_dir)
           k  == r1.ret
           r2 == Link(r1, current_dir, k, name)
<1>1. /\ name \in Names /\ name \in AllNames /\ InOrder(q, L \cup {k}) /\ q \in Run /\ q.disk \in Disk
  BY MakeRunInOrder, RunDisk DEF InOrder, AllNames
<1>2. q = Resize(r2, c, EntryBytes(name))
  BY SearchIsStart DEF MakeRun
<1>3. /\ Orderly(r1) /\ k \in 0..INODE_COUNT
      /\ Going(r1) => Ready(r1.disk, L, k, c)
  BY StartOrderly, NewDirEntryOrderly
<1>4. /\ disk \in Disk /\ Tree(disk, L) /\ c \in DirsOf(disk, L) /\ c \in Inode
      /\ Start \in Run /\ Start.disk = disk
  BY StartOrderly DEF Ordered, TypeOK, Orderly, Unmoved, InOrder
<1>5. Still(r1) => Made(disk, r1.disk, k, type)
  BY <1>4, NewDirEntryTakes
<1>6. q.mishaps \cap Leaking = {} /\ q.status = "ok"
  BY DEF Still
<1> HIDE DEF r1, k, L
<1>7. \A r : Still(r) => Going(r)
  BY DEF Still, Going, Clean, Leaking
<1>8. r1 \in Run /\ r1.disk \in Disk
  BY <1>3, RunDisk DEF Orderly, Unmoved, InOrder
<1>9. Still(r1) => /\ Ready(r1.disk, L, k, c) /\ SameDirs(disk, r1.disk, L) /\ Tree(r1.disk, L)
  BY <1>3, <1>7 DEF Orderly, Unmoved, InOrder, L
<1>10. Still(r1) => \A x \in Places(r1.disk, c) : BlockAt(r1.disk, c, x) \in Image
  <2>1. SUFFICES ASSUME Still(r1) PROVE \A x \in Places(r1.disk, c) : BlockAt(r1.disk, c, x) \in Image
    OBVIOUS
  <2>2. c \in DirsOf(r1.disk, L)
    BY <1>4, <1>9, <2>1 DEF SameDirs, SameDir, DirsOf
  <2>3. QED
    BY <1>9, <2>1, <2>2 DEF Tree, DirInOrder
<1>11. r2 \in Run /\ r2.disk \in Disk
  BY <1>1, <1>3, <1>4, <1>8, LinkType, RunDisk
<1>12. EntryBytes(name) \in Int
  BY <1>1, EntryBytesBounds
<1>13. r2 = Link(r1, c, k, name)
  OBVIOUS
<1> HIDE DEF r2
<1>14. Still(r2) /\ Sized(r2.disk, q.disk, c, EntryBytes(name))
  BY <1>2, <1>4, <1>11, <1>12, ResizeTakes
<1>15. /\ Still(r1) /\ Extends(r1.disk, r2.disk, c)
       /\ Linked(r1.disk, r2.disk, c, k, name) /\ Writes(r1.disk, r2.disk, c)
  BY <1>1, <1>3, <1>4, <1>8, <1>10, <1>13, <1>14, LinkTakes
<1>16. /\ Tree(q.disk, L \cup {k}) /\ SameDirs(disk, q.disk, L \ {c}) /\ IsDir(q.disk, c)
       /\ OneName(disk, q.disk, c)
  <2>1. Clean(q.mishaps) /\ "gap_overwrite" \notin q.mishaps /\ Going(q)
    BY <1>6 DEF Going, Clean, Leaking
  <2>2. QED
    BY <1>1, <2>1 DEF InOrder, Fine, L
<1>17. QED
  BY <1>1, <1>4, <1>5, <1>8, <1>9, <1>11, <1>14, <1>15, <1>16, MadeExact DEF L

\* The inode k is freed with its blocks.
Removed(d, e, k) ==
    /\ e.inode_table = d.inode_table /\ e.inode_bitmap = d.inode_bitmap \ {k}
    /\ e.used_dirs_count = d.used_dirs_count
    /\ \A b \in e.block_bitmap : b \in d.block_bitmap /\ \A x \in Places(d, k) : BlockOf(d, k, x) # b

\* Inverting the bit of every block of inode k frees them all.
LEMMA FreedTakes ==
    ASSUME NEW d \in Disk, NEW L, L \subseteq Inode, Allocated(d, L), NEW k \in L, NEW n,
           n = d.inode_table[k].i_blocks, NEW e, e = Freed(d, k, n, n)
    PROVE  /\ e.inode_table = d.inode_table /\ e.inode_bitmap = d.inode_bitmap
           /\ e.used_dirs_count = d.used_dirs_count
           /\ \A b \in e.block_bitmap : b \in d.block_bitmap /\ \A x \in Places(d, k) : BlockOf(d, k, x) # b
<1> DEFINE at == d.inode_table[k].i_block
           times(b) == Cardinality({x \in 0..(n - 1) : at[x] = b})
           bits == {b \in Block : (b \in d.block_bitmap) # (times(b) % 2 = 1)}
           count == (d.free_blocks_count + n) % USHORT
<1>1. e = [d EXCEPT !.block_bitmap = bits, !.free_blocks_count = count]
  BY DEF Freed
<1>2. /\ e.inode_table = d.inode_table /\ e.inode_bitmap = d.inode_bitmap
      /\ e.used_dirs_count = d.used_dirs_count /\ e.block_bitmap = bits
  BY <1>1 DEF Disk
<1>3. \A x : x \in 0..(n - 1) <=> x \in Places(d, k)
  BY DEF Places
<1>4. \A x : at[x] = BlockOf(d, k, x)
  BY DEF BlockOf
<1>5. ASSUME NEW b \in bits, NEW x \in Places(d, k), at[x] = b PROVE FALSE
  <2>1. {y \in 0..(n - 1) : at[y] = b} = {x}
    BY <1>3, <1>4, <1>5 DEF Allocated
  <2>2. times(b) = 1
    BY <2>1, FS_Singleton
  <2>3. b \in d.block_bitmap
    BY <1>4, <1>5 DEF Allocated
  <2> HIDE DEF times
  <2>4. times(b) % 2 = 1
    BY <2>2
  <2>5. QED
    BY <1>5, <2>3, <2>4, Zenon
<1>6. ASSUME NEW b \in bits, b \notin d.block_bitmap PROVE FALSE
  <2>1. ASSUME NEW x \in 0..(n - 1) PROVE at[x] # b
    BY <1>3, <1>4, <1>6 DEF Allocated
  <2>2. {y \in 0..(n - 1) : at[y] = b} = {}
    BY <2>1
  <2>3. times(b) = 0
    BY <2>2, FS_EmptySet
  <2> HIDE DEF times
  <2>4. ~(times(b) % 2 = 1)
    BY <2>3
  <2>5. (b \in d.block_bitmap) # (times(b) % 2 = 1)
    BY <1>6, Zenon
  <2>6. QED
    BY <1>6, <2>4, <2>5
<1> HIDE DEF bits
<1>7. QED
  BY <1>2, <1>4, <1>5, <1>6

\* free_file_blocks does that.
LEMMA FreeFileBlocksTakes ==
    ASSUME NEW r \in Run, NEW k, NEW q, q = free_file_blocks(r, k), Still(q)
    PROVE  /\ Still(r)
           /\ q.disk = Freed(r.disk, k, r.disk.inode_table[k].i_blocks, r.disk.inode_table[k].i_blocks)
<1> DEFINE n == r.disk.inode_table[k].i_blocks
           seen(j) == IF FreesTwice(r.disk, k, j) THEN r.mishaps \cup {"double_free"} ELSE r.mishaps
           more == {[disk |-> Freed(r.disk, k, j, j), mishaps |-> seen(j)] : j \in 0..(n - 1)}
                   \cup {[disk |-> Freed(r.disk, k, j + 1, j), mishaps |-> seen(j + 1)] : j \in 0..(n - 1)}
<1>1. CASE r.status # "ok"
  BY <1>1 DEF free_file_blocks, Still
<1>2. CASE r.status = "ok"
  <2>1. q = [r EXCEPT !.disk = Freed(r.disk, k, n, n), !.mishaps = seen(n), !.cuts = @ \cup more]
    <3>1. q = [r EXCEPT !.disk = Freed(@, k, n, n), !.mishaps = seen(n),
                !.cuts = @ \cup {[disk |-> Freed(r.disk, k, j, j), mishaps |-> seen(j)] : j \in 0..(n - 1)}
                           \cup {[disk |-> Freed(r.disk, k, j + 1, j), mishaps |-> seen(j + 1)] : j \in 0..(n - 1)}]
      BY <1>2 DEF free_file_blocks
    <3> HIDE DEF seen, n
    <3>2. QED
      BY <3>1 DEF Run
  <2> HIDE DEF more, n
  <2>2. q.disk = Freed(r.disk, k, n, n) /\ q.mishaps = seen(n) /\ q.status = r.status
    BY <2>1 DEF Run
  <2>3. r.mishaps \subseteq seen(n)
    OBVIOUS
  <2> HIDE DEF seen
  <2>4. Still(r)
    BY <2>2, <2>3 DEF Still
  <2>5. QED
    BY <2>2, <2>4 DEF n
<1>3. QED
  BY <1>1, <1>2

\* free_inode clears a bit that is set.
LEMMA FreeInodeTakes ==
    ASSUME NEW r \in Run, NEW k \in Inode, NEW q, q = free_inode(r, k), Still(q)
    PROVE  /\ Still(r)
           /\ k \in r.disk.inode_bitmap =>
                /\ q.disk.inode_table = r.disk.inode_table
                /\ q.disk.inode_bitmap = r.disk.inode_bitmap \ {k}
                /\ q.disk.block_bitmap = r.disk.block_bitmap
                /\ q.disk.used_dirs_count = r.disk.used_dirs_count
<1> DEFINE d == r.disk
           e == [d EXCEPT !.inode_bitmap = Inverted(@, k)]
           r1 == Put(r, e)
           r2 == IF k \in d.inode_bitmap THEN r1 ELSE Flag(r1, "double_free")
           f == [r2.disk EXCEPT !.free_inodes_count = Incr(@)]
<1>1. d \in Disk
  BY RunDisk
<1>2. e \in Disk
  BY <1>1 DEF Disk, Inverted
<1>3. q = Put(r2, f)
  BY DEF free_inode
<1> HIDE DEF e
<1>4. r1 \in Run /\ (Still(r1) <=> Still(r)) /\ (Still(r1) => r1.disk = e)
  BY <1>2, PutStill, PutType
<1> HIDE DEF r1
<1>5. r2 \in Run /\ (Still(r2) => Still(r1))
  <2>1. Flag(r1, "double_free") \in Run
    BY <1>4, FlagType DEF Mishaps
  <2>2. Still(Flag(r1, "double_free")) => Still(r1)
    BY <1>4 DEF Still, Flag, Run
  <2>3. QED
    BY <1>4, <2>1, <2>2
<1> HIDE DEF r2
<1>6. Still(r2) /\ q.disk = f
  BY <1>3, <1>5, PutStill
<1>7. ASSUME k \in d.inode_bitmap
      PROVE  /\ q.disk.inode_table = d.inode_table
             /\ q.disk.inode_bitmap = d.inode_bitmap \ {k}
             /\ q.disk.block_bitmap = d.block_bitmap
             /\ q.disk.used_dirs_count = d.used_dirs_count
  <2>1. r2 = r1
    BY <1>7 DEF r2
  <2>2. r2.disk = e
    BY <1>4, <1>6, <2>1
  <2>3. /\ e.inode_table = d.inode_table /\ e.inode_bitmap = d.inode_bitmap \ {k}
        /\ e.block_bitmap = d.block_bitmap /\ e.used_dirs_count = d.used_dirs_count
    BY <1>1, <1>7 DEF e, Disk, Inverted
  <2>4. f = [e EXCEPT !.free_inodes_count = Incr(e.free_inodes_count)]
    BY <2>2
  <2>5. /\ f.inode_table = e.inode_table /\ f.inode_bitmap = e.inode_bitmap
        /\ f.block_bitmap = e.block_bitmap /\ f.used_dirs_count = e.used_dirs_count
    BY <1>2, <2>4 DEF Disk
  <2>6. QED
    BY <1>6, <2>3, <2>5
<1>8. QED
  BY <1>4, <1>5, <1>6, <1>7

\* delete, and rmdir but for the count of directories, take the name and all
\* that it named.
LEMMA RemoveTakes ==
    ASSUME Ordered, NEW name \in Names, found(name) # 0,
           NEW q, q = RemoveRun(name, found(name)), Still(q)
    PROVE  \E e \in Disk : Removed(disk, e, found(name))
                           /\ Sized(e, q.disk, current_dir, -EntryBytes(name))
<1> DEFINE c == current_dir
           k == found(name)
           L == Live(disk)
           r1 == Unlink(Start, current_dir, name)
           r2 == free_file_blocks(r1, k)
           r3 == free_inode(r2, k)
           n == r1.disk.inode_table[k].i_blocks
<1>1. PICK X : NamedHere(name, k, X)
  BY NameFound
<1>2. k \in L /\ k \in Inode /\ c \in Inode /\ L \subseteq Inode /\ disk \in Disk
  BY <1>1 DEF NamedHere, Live, Ordered, TypeOK
<1>3. q = Resize(r3, current_dir, -EntryBytes(name))
  BY SearchIsStart DEF RemoveRun
<1>4. /\ InOrder(r1, L \ {k}) /\ r1.status = "ok"
      /\ Going(r1) => Allocated(r1.disk, L)
  BY <1>1, UnlinkInOrder
<1>5. r1 \in Run /\ r1.disk \in Disk
  BY <1>4, RunDisk DEF InOrder
<1>6. /\ r1.disk.inode_table = disk.inode_table /\ r1.disk.inode_bitmap = disk.inode_bitmap
      /\ r1.disk.block_bitmap = disk.block_bitmap /\ r1.disk.used_dirs_count = disk.used_dirs_count
  <2> DEFINE img == BlockAt(disk, c, X)
             b == BlockOf(disk, c, X)
             content == Delete(img, name)
  <2>1. r1.disk = [disk EXCEPT !.data[b] = content]
    BY <1>1, UnlinkWrites
  <2> HIDE DEF r1, b, content
  <2>2. QED
    BY <1>2, <2>1 DEF Disk
<1> HIDE DEF r1, k
<1>7. InOrder(r2, L \ {k}) /\ (Going(r2) => k \in r2.disk.inode_bitmap)
  BY <1>2, <1>4, FreeFileBlocksInOrder
<1>8. r2 \in Run
  BY <1>7 DEF InOrder
<1>9. r2.status = "ok"
  <2>1. r2.status = r1.status
    BY <1>4, <1>5 DEF free_file_blocks, Run
  <2>2. QED
    BY <1>4, <2>1
<1>10. Still(r2) => Still(r1) /\ r2.disk = Freed(r1.disk, k, n, n)
  BY <1>5, FreeFileBlocksTakes
<1> HIDE DEF r2
<1>11. r3 \in Run /\ r3.disk \in Disk
  BY <1>2, <1>8, FreeInodeType, RunDisk
<1>12. /\ Still(r3) => Still(r2)
       /\ Still(r3) /\ k \in r2.disk.inode_bitmap =>
                /\ r3.disk.inode_table = r2.disk.inode_table
                /\ r3.disk.inode_bitmap = r2.disk.inode_bitmap \ {k}
                /\ r3.disk.block_bitmap = r2.disk.block_bitmap
                /\ r3.disk.used_dirs_count = r2.disk.used_dirs_count
  BY <1>2, <1>8, FreeInodeTakes
<1> HIDE DEF r3, L
<1>13. -EntryBytes(name) \in Int
  BY EntryBytesType, ArgsType
<1>14. Still(r3) /\ Sized(r3.disk, q.disk, c, -EntryBytes(name))
  BY <1>2, <1>3, <1>11, <1>13, ResizeTakes
<1>15. \A r : Still(r) => Going(r)
  BY DEF Still, Going, Clean, Leaking
<1>16. Allocated(r1.disk, L) /\ k \in r2.disk.inode_bitmap /\ r2.disk = Freed(r1.disk, k, n, n)
  BY <1>4, <1>7, <1>10, <1>12, <1>14, <1>15
<1>17. Removed(r1.disk, r3.disk, k)
  <2>1. /\ r2.disk.inode_table = r1.disk.inode_table /\ r2.disk.inode_bitmap = r1.disk.inode_bitmap
        /\ r2.disk.used_dirs_count = r1.disk.used_dirs_count
        /\ \A b \in r2.disk.block_bitmap :
              b \in r1.disk.block_bitmap /\ \A x \in Places(r1.disk, k) : BlockOf(r1.disk, k, x) # b
    BY <1>2, <1>5, <1>16, FreedTakes
  <2>2. QED
    BY <1>12, <1>14, <1>16, <2>1 DEF Removed
<1>18. Removed(disk, r3.disk, k)
  BY <1>6, <1>17 DEF Removed, Places, BlockOf
<1>19. QED
  BY <1>11, <1>14, <1>18 DEF k

\* The name that is found is one of the directory's.
LEMMA FoundNamed ==
    ASSUME Ordered, NEW name \in Names, NEW k, NEW X, NamedHere(name, k, X)
    PROVE  <<name, k>> \in NamesOf(disk, current_dir)
<1> DEFINE c == current_dir
           img == BlockAt(disk, c, X)
           m == Min(Matches(img, name))
<1>1. /\ disk \in Disk /\ c \in Inode /\ IsDir(disk, c) /\ DirInOrder(disk, Live(disk), c)
  BY DEF Ordered, TypeOK, Tree, DirsOf
<1>2. X \in Places(disk, c) /\ Matches(img, name) # {} /\ k = Find(img, name)
  BY DEF NamedHere
<1>3. img \in Image /\ Tiled(img)
  BY <1>1, <1>2 DEF DirInOrder
<1>4. m \in Walk(img) /\ At(img, m).name = name /\ k = At(img, m).inode
  BY <1>2, <1>3, TiledFind
<1>5. m \in Spots(disk, c, X)
  <2>1. X = 0 => m \notin {0, 8}
    <3>1. Header(BlockAt(disk, c, 0), c, Up(disk, c))
      BY <1>1 DEF DirInOrder
    <3>2. X = 0 => At(img, 0).name = "." /\ At(img, 8).name = ".."
      BY <3>1 DEF Header
    <3>3. QED
      BY <1>4, <3>2, NamesAssumption
  <2>2. QED
    BY <1>4, <2>1 DEF Spots
<1>6. NameAt(disk, c, X, m) = name /\ InodeAt(disk, c, X, m) = k
  BY <1>4 DEF NameAt, InodeAt
<1> HIDE DEF m, img
<1>7. \A t : t \in NamesOf(disk, c) <=> \E x \in Places(disk, c) : \E p \in Spots(disk, c, x) :
           t = <<NameAt(disk, c, x, p), InodeAt(disk, c, x, p)>>
  BY <1>1, SpotNames
<1>8. QED
  BY <1>2, <1>5, <1>6, <1>7

\* What is exact stays so when a name is removed: disk e no longer has what it
\* named, f has the new size, and on g a directory is not counted any more.
LEMMA RemovedExact ==
    ASSUME NEW d \in Disk, NEW L, L = Live(d), Tree(d, L), Exact(d, L), NEW c \in DirsOf(d, L),
           NEW k \in L \ {ROOT, c}, NEW name \in Names, <<name, k>> \in NamesOf(d, c),
           IsDir(d, k) => d.inode_table[k].i_size = 17,
           NEW e \in Disk, Removed(d, e, k), NEW f \in Disk, Sized(e, f, c, -EntryBytes(name)),
           NEW g \in Disk, g.inode_table = f.inode_table, g.inode_bitmap = f.inode_bitmap,
           g.block_bitmap = f.block_bitmap,
           g.used_dirs_count = IF IsDir(d, k) THEN Decr(f.used_dirs_count) ELSE f.used_dirs_count,
           Tree(g, L \ {k}), SameDirs(d, g, L \ {c}), IsDir(g, c), OneName(d, g, c)
    PROVE  Exact(g, Live(g))
<1> DEFINE M == L \ {k}
           n == EntryBytes(name)
<1>1. L \subseteq Inode /\ c \in Inode /\ k \in Inode
  BY DEF Tree, DirsOf
<1>2. g.inode_bitmap \subseteq M
  BY DEF Exact, Removed, Sized
<1>3. Owned(g, M)
  <2>1. ASSUME NEW b \in g.block_bitmap PROVE \E i \in M : \E x \in Places(g, i) : BlockOf(g, i, x) = b
    <3>1. b \in e.block_bitmap
      BY <2>1 DEF Sized
    <3>2. b \in d.block_bitmap /\ \A x \in Places(d, k) : BlockOf(d, k, x) # b
      BY <3>1 DEF Removed
    <3>3. PICK i \in L : \E x \in Places(d, i) : BlockOf(d, i, x) = b
      BY <3>2 DEF Exact, Owned
    <3>4. PICK x \in Places(d, i) : BlockOf(d, i, x) = b
      BY <3>3
    <3>5. i \in M /\ i \in Inode
      BY <1>1, <3>2, <3>4
    <3>6. x \in Places(e, i) /\ BlockOf(e, i, x) = b
      BY <3>4 DEF Removed, Places, BlockOf
    <3>7. x \in Places(f, i) /\ BlockOf(f, i, x) = b
      BY <3>5, <3>6 DEF Sized
    <3>8. x \in Places(g, i) /\ BlockOf(g, i, x) = b
      BY <3>7 DEF Places, BlockOf
    <3>9. QED
      BY <3>5, <3>8
  <2>2. QED
    BY <2>1 DEF Owned
<1>4. g.used_dirs_count = IF IsDir(d, k) THEN Decr(d.used_dirs_count) ELSE d.used_dirs_count
  BY DEF Removed, Sized
<1>5. \A i \in L \ {c, k} : g.inode_table[i].i_size = d.inode_table[i].i_size
  BY <1>1 DEF Removed, Sized
<1>6. g.inode_table[c].i_size = (d.inode_table[c].i_size - n) % SIZE_MOD
  <2>1. n \in Nat
    BY EntryBytesBounds DEF AllNames
  <2>2. d.inode_table[c].i_size \in Int
    <3>1. d.inode_table[c] \in InodeEntry
      BY <1>1 DEF Disk
    <3>2. QED
      BY <3>1, VolumeAssumption DEF InodeEntry
  <2> HIDE DEF n
  <2>3. g.inode_table[c].i_size = (d.inode_table[c].i_size + (-n)) % SIZE_MOD
    BY DEF Removed, Sized, n
  <2>4. d.inode_table[c].i_size + (-n) = d.inode_table[c].i_size - n
    BY <2>1, <2>2
  <2>5. QED
    BY <2>3, <2>4
<1>7. QED
  BY <1>2, <1>3, <1>4, <1>5, <1>6, ShrinkExact

\* What delete and rmdir find: a name of the current directory.
LEMMA RemovedName ==
    ASSUME Ordered, NEW name \in Names, found(name) # 0
    PROVE  /\ found(name) \in Live(disk) \ {ROOT, current_dir}
           /\ <<name, found(name)>> \in NamesOf(disk, current_dir)
           /\ disk \in Disk /\ Tree(disk, Live(disk)) /\ current_dir \in DirsOf(disk, Live(disk))
<1>1. PICK X : NamedHere(name, found(name), X)
  BY NameFound
<1>2. QED
  BY <1>1, FoundNamed DEF NamedHere, Ordered, TypeOK

\* A run that goes on, has the inodes of L in order and leaks nothing leaves
\* them so, with one name changed.
LEMMA StillFine ==
    ASSUME NEW q, NEW L, InOrder(q, L), Still(q)
    PROVE  /\ q.disk \in Disk /\ Going(q)
           /\ Tree(q.disk, L) /\ SameDirs(disk, q.disk, Live(disk) \ {current_dir})
           /\ IsDir(q.disk, current_dir) /\ OneName(disk, q.disk, current_dir)
<1>1. Clean(q.mishaps) /\ "gap_overwrite" \notin q.mishaps /\ Going(q)
  BY DEF Still, Going, Clean, Leaking
<1>2. QED
  BY <1>1, RunDisk DEF InOrder, Fine

\* delete keeps a volume exact.
LEMMA RemoveExact ==
    ASSUME Ordered, Exact(disk, Live(disk)), NEW name \in Names, found(name) # 0,
           ~IsDir(disk, found(name)), NEW q, q = RemoveRun(name, found(name)), Still(q)
    PROVE  Exact(q.disk, Live(q.disk))
<1> DEFINE k == found(name)
           c == current_dir
           L == Live(disk)
<1>1. /\ k \in L \ {ROOT, c} /\ <<name, k>> \in NamesOf(disk, c)
      /\ disk \in Disk /\ Tree(disk, L) /\ c \in DirsOf(disk, L)
  BY RemovedName
<1>2. PICK e \in Disk : Removed(disk, e, k) /\ Sized(e, q.disk, c, -EntryBytes(name))
  BY RemoveTakes
<1>3. InOrder(q, L \ {k})
  BY RemoveRunInOrder
<1>4. /\ q.disk \in Disk /\ Tree(q.disk, L \ {k}) /\ SameDirs(disk, q.disk, L \ {c})
      /\ IsDir(q.disk, c) /\ OneName(disk, q.disk, c)
  BY <1>3, StillFine
<1> HIDE DEF k, L
<1>5. QED
  BY <1>1, <1>2, <1>4, RemovedExact DEF k, L

\* rmdir does, as the directory it removes is empty.
LEMMA RmdirExact ==
    ASSUME Ordered, Exact(disk, Live(disk)), NEW name \in Names, found(name) # 0,
           IsDir(disk, found(name)), disk.inode_table[found(name)].i_size = 17,
           NEW q, q = RmdirRun(name, found(name)), Still(q)
    PROVE  Exact(q.disk, Live(q.disk))
<1> DEFINE k == found(name)
           c == current_dir
           L == Live(disk)
           r == RemoveRun(name, k)
           g == [r.disk EXCEPT !.used_dirs_count = Decr(@)]
           s == Put(r, g)
<1>1. /\ k \in L \ {ROOT, c} /\ <<name, k>> \in NamesOf(disk, c)
      /\ disk \in Disk /\ Tree(disk, L) /\ c \in DirsOf(disk, L)
  BY RemovedName
<1>2. InOrder(r, L \ {k}) /\ r \in Run /\ r.disk \in Disk
  BY RemoveRunInOrder, RunDisk DEF InOrder
<1>3. q = IF k \in fopen_table THEN Flag(s, "open_dir_removed") ELSE s
  BY DEF RmdirRun
<1>4. Still(r) => \E e \in Disk : Removed(disk, e, k) /\ Sized(e, r.disk, c, -EntryBytes(name))
  BY RemoveTakes
<1>5. InOrder(q, L \ {k})
  BY RmdirRunInOrder
<1> HIDE DEF r, k, L
<1>6. /\ g \in Disk /\ g.inode_table = r.disk.inode_table /\ g.inode_bitmap = r.disk.inode_bitmap
      /\ g.block_bitmap = r.disk.block_bitmap /\ g.used_dirs_count = Decr(r.disk.used_dirs_count)
  <2>1. Decr(r.disk.used_dirs_count) \in Position
    BY <1>2, CountsType DEF Disk, Position
  <2>2. QED
    BY <1>2, <2>1 DEF Disk, Position
<1> HIDE DEF g
<1>7. s \in Run /\ (Still(s) <=> Still(r)) /\ (Still(s) => s.disk = g)
  BY <1>2, <1>6, PutStill, PutType
<1> HIDE DEF s
<1>8. Still(s) /\ q.disk = s.disk
  <2>1. /\ Still(Flag(s, "open_dir_removed")) => Still(s)
        /\ Flag(s, "open_dir_removed").disk = s.disk
    BY <1>7 DEF Still, Flag, Run
  <2>2. QED
    BY <1>3, <2>1
<1>9. q.disk = g /\ Still(r)
  BY <1>7, <1>8
<1>10. /\ Tree(g, L \ {k}) /\ SameDirs(disk, g, L \ {c})
       /\ IsDir(g, c) /\ OneName(disk, g, c)
  BY <1>5, <1>9, StillFine DEF L
<1>11. PICK e \in Disk : Removed(disk, e, k) /\ Sized(e, r.disk, c, -EntryBytes(name))
  BY <1>4, <1>9
<1>12. IsDir(disk, k) /\ disk.inode_table[k].i_size = 17 /\ L = Live(disk) /\ Exact(disk, L)
  BY DEF k, L
<1>13. Exact(g, Live(g))
  BY <1>1, <1>2, <1>6, <1>10, <1>11, <1>12, RemovedExact
<1>14. QED
  BY <1>9, <1>13

\* A run that has not changed a directory, nor the inodes in use and the sizes
\* of the directories, keeps a volume exact if it takes blocks for what is in
\* use only.
LEMMA UnmovedExact ==
    ASSUME Ordered, Exact(disk, Live(disk)), NEW q, Unmoved(q), Still(q), Owned(q.disk, Live(disk)),
           q.disk.inode_bitmap = disk.inode_bitmap, q.disk.used_dirs_count = disk.used_dirs_count,
           \A j \in DirsOf(disk, Live(disk)) :
                q.disk.inode_table[j].i_size = disk.inode_table[j].i_size
    PROVE  Exact(q.disk, Live(q.disk))
<1>1. InOrder(q, Live(disk)) /\ (Going(q) => SameDirs(disk, q.disk, Live(disk)))
  BY DEF Unmoved
<1>2. q.disk \in Disk /\ Going(q) /\ Tree(q.disk, Live(disk))
  BY <1>1, StillFine
<1>3. disk \in Disk /\ Tree(disk, Live(disk)) /\ SameDirs(disk, q.disk, Live(disk))
  BY <1>1, <1>2 DEF Ordered, TypeOK
<1>4. Tree(q.disk, Live(q.disk)) /\ Tree(q.disk, Live(disk))
  BY <1>2, TreeLive
<1>5. QED
  BY <1>2, <1>3, <1>4, SameExact

\* An inode that is written with the same type, size and blocks.
LEMMA PutInodeExact ==
    ASSUME Ordered, Exact(disk, Live(disk)), NEW i \in Inode, NEW e \in InodeEntry,
           e.type = disk.inode_table[i].type, e.i_blocks = disk.inode_table[i].i_blocks,
           e.i_block = disk.inode_table[i].i_block, e.i_size = disk.inode_table[i].i_size,
           NEW q, q = PutInode(Start, i, e), Still(q)
    PROVE  Exact(q.disk, Live(q.disk))
<1>1. InOrder(Start, Live(disk)) /\ Start.disk = disk /\ Unmoved(Start) /\ Start \in Run
  BY StartOrderly DEF Orderly, Unmoved, InOrder
<1>2. Unmoved(q)
  BY <1>1, PutInodeInOrder
<1>3. /\ q.disk.inode_table[i] = e
      /\ \A j \in Inode \ {i} : q.disk.inode_table[j] = disk.inode_table[j]
      /\ q.disk.inode_bitmap = disk.inode_bitmap /\ q.disk.block_bitmap = disk.block_bitmap
      /\ q.disk.used_dirs_count = disk.used_dirs_count
  BY <1>1, PutInodeTakes
<1>4. ASSUME NEW j \in Inode
      PROVE  /\ q.disk.inode_table[j].i_size = disk.inode_table[j].i_size
             /\ Places(q.disk, j) = Places(disk, j)
             /\ \A x : BlockOf(q.disk, j, x) = BlockOf(disk, j, x)
  BY <1>3 DEF Places, BlockOf
<1>5. Live(disk) \subseteq Inode
  BY DEF Live
<1>6. Owned(q.disk, Live(disk))
  BY <1>3, <1>4, <1>5 DEF Exact, Owned
<1>7. QED
  BY <1>2, <1>3, <1>4, <1>5, <1>6, UnmovedExact DEF DirsOf

\* chmod keeps a volume exact.
LEMMA AttribExact ==
    ASSUME Ordered, Exact(disk, Live(disk)), NEW name \in Args, NEW i \in Inode,
           NEW change \in {2, 4, 6, 7},
           NEW q, q = PutInode(Search(name), i, [entry(i) EXCEPT !.perm = change]), Still(q)
    PROVE  Exact(q.disk, Live(q.disk))
<1> DEFINE old == disk.inode_table[i]
           e == [old EXCEPT !.perm = change]
<1>1. q = PutInode(Start, i, e)
  BY SearchIsStart DEF entry
<1>2. old \in InodeEntry
  BY DEF Ordered, TypeOK, Disk
<1>3. /\ e \in InodeEntry /\ e.type = old.type /\ e.i_blocks = old.i_blocks /\ e.i_block = old.i_block
      /\ e.i_size = old.i_size
  BY <1>2 DEF InodeEntry
<1> HIDE DEF e
<1>4. QED
  BY <1>1, <1>3, PutInodeExact

\* The first block of a file.
LEMMA FirstBlockTakes ==
    ASSUME NEW r \in Run, NEW i \in Inode, r.disk.inode_table[i].i_blocks = 0,
           NEW s, s = new_block(r), NEW q,
           q = PutInode(s, i, [r.disk.inode_table[i] EXCEPT !.i_block[0] = s.ret, !.i_blocks = 1]),
           Still(q)
    PROVE  Still(r) /\ Extends(r.disk, q.disk, i)
<1> DEFINE old == r.disk.inode_table[i]
           e == [old EXCEPT !.i_block[0] = s.ret, !.i_blocks = 1]
           d == [s.disk EXCEPT !.inode_table[i] = e]
<1>1. r.disk \in Disk /\ s \in Run /\ s.disk \in Disk
  BY RunDisk, NewBlockRunType
<1>2. q = Put(s, d)
  BY DEF PutInode
<1> HIDE DEF d
<1>3. Still(s) /\ q.disk = d
  BY <1>1, <1>2, PutStill
<1>4. /\ Still(r) /\ s.ret \in Block
      /\ s.disk.block_bitmap = r.disk.block_bitmap \cup {s.ret}
      /\ s.disk.inode_table = r.disk.inode_table
      /\ s.disk.inode_bitmap = r.disk.inode_bitmap
      /\ s.disk.used_dirs_count = r.disk.used_dirs_count
  BY <1>3, NewBlockTakes
<1> DEFINE n == 0
<1>5. n # NDIRECT /\ n + 1 = 1 /\ n = s.disk.inode_table[i].i_blocks
  BY <1>4, VolumeAssumption
<1>6. d = [s.disk EXCEPT !.inode_table[i] = [s.disk.inode_table[i] EXCEPT
                                                !.i_block[n] = s.ret, !.i_blocks = n + 1]]
  BY <1>4, <1>5 DEF d
<1> HIDE DEF n
<1>7. Extends(r.disk, d, i)
  BY <1>1, <1>4, <1>5, <1>6, LongerExtends
<1>8. QED
  BY <1>3, <1>4, <1>7

\* The last block of a file is one of the volume.
LEMMA FillTakes ==
    ASSUME Ordered, NEW i \in Live(disk), NEW r, HasBlock(r, i),
           NEW q, q = PutBlock(r, LastBlock(r, i), FileBytes), Still(q)
    PROVE  Still(r) /\ Extends(r.disk, q.disk, i)
<1> DEFINE b == LastBlock(r, i)
           n == r.disk.inode_table[i].i_blocks
<1>1. r \in Run /\ r.disk \in Disk /\ i \in Inode /\ FileBytes \in Content
  BY RunDisk DEF HasBlock, Writing, Orderly, Unmoved, InOrder, Live, Content
<1>2. Still(r)
  BY <1>1, PutStill DEF PutBlock
<1>3. Places(r.disk, i) # {}
  BY <1>2 DEF HasBlock, Still, Going, Clean, Leaking
<1>4. n \in Nat
  <2>1. r.disk.inode_table[i] \in InodeEntry
    BY <1>1 DEF Disk
  <2>2. QED
    BY <2>1, VolumeAssumption DEF InodeEntry
<1>5. n - 1 \in Places(r.disk, i) /\ b = BlockOf(r.disk, i, n - 1)
  BY <1>3, <1>4 DEF Places, BlockOf, LastBlock
<1> HIDE DEF b, n
<1>6. b \in Block
  BY <1>1, <1>5, PlacesType
<1>7. q = PutBlock(r, b, FileBytes)
  BY DEF b
<1>8. QED
  BY <1>1, <1>2, <1>6, <1>7, PutBlockTakes

\* A run so far has taken blocks for inode i only.
Grown(r, i) == r \in Run /\ (Still(r) => Extends(disk, r.disk, i))

\* What a file is written in was its own, or was spare.
LEMMA WriteTakes ==
    ASSUME Ordered, NEW i \in Live(disk), entry(i).type # FT_DIR, NEW w, w = WriteStart(Start, i),
           NEW full, full = add_file_block(PutBlock(w.run, LastBlock(w.run, i), FileBytes), i)
    PROVE  Grown(w.run, i) /\ Grown(full, i)
<1> DEFINE e == disk.inode_table[i]
           s == new_block(Start)
           r2 == PutInode(s, i, [e EXCEPT !.i_block[0] = s.ret, !.i_blocks = 1])
           filled == PutBlock(w.run, LastBlock(w.run, i), FileBytes)
<1>1. Start \in Run /\ Start.disk = disk /\ i \in Inode
  BY StartOrderly DEF Orderly, Unmoved, InOrder, Live
<1>2. HasBlock(w.run, i) /\ HasBlock(full, i)
  BY WriteSteps
<1>3. w.run \in Run /\ full \in Run
  BY <1>2 DEF HasBlock, Writing, Orderly, Unmoved, InOrder
<1>4. Still(w.run) => Extends(disk, w.run.disk, i)
  <2>1. CASE e.i_blocks = 0
    <3>1. w.run = r2
      BY <1>1, <2>1 DEF WriteStart
    <3>2. QED
      BY <1>1, <2>1, <3>1, FirstBlockTakes
  <2>2. CASE e.i_blocks # 0 /\ e.i_size % BLOCK_SIZE = 0
    <3>1. w.run = add_file_block(Start, i)
      BY <1>1, <2>2 DEF WriteStart
    <3>2. QED
      BY <1>1, <3>1, AddFileBlockTakes
  <2>3. CASE e.i_blocks # 0 /\ e.i_size % BLOCK_SIZE # 0
    <3>1. w.run = Start
      BY <1>1, <2>3 DEF WriteStart
    <3>2. QED
      BY <1>1, <3>1 DEF Extends
  <2>4. QED
    BY <2>1, <2>2, <2>3
<1>5. filled \in Run
  BY <1>2, FillFile DEF HasBlock, Writing, Orderly, Unmoved, InOrder
<1>6. Still(filled) => Still(w.run) /\ Extends(w.run.disk, filled.disk, i)
  BY <1>2, FillTakes
<1>7. full = add_file_block(filled, i)
  OBVIOUS
<1> HIDE DEF filled
<1>8. Still(full) => Still(filled) /\ Extends(filled.disk, full.disk, i)
  BY <1>1, <1>5, <1>7, AddFileBlockTakes
<1>9. Still(full) => Extends(disk, full.disk, i)
  <2>1. SUFFICES ASSUME Still(full) PROVE Extends(disk, full.disk, i)
    OBVIOUS
  <2>2. Extends(disk, w.run.disk, i) /\ Extends(w.run.disk, filled.disk, i) /\ Extends(filled.disk, full.disk, i)
    BY <1>4, <1>6, <1>8, <2>1
  <2>3. Extends(disk, filled.disk, i)
    BY <1>1, <2>2, ExtendsTransitive
  <2>4. QED
    BY <1>1, <2>2, <2>3, ExtendsTransitive
<1>10. QED
  BY <1>3, <1>4, <1>9 DEF Grown

\* write keeps a volume exact.
LEMMA WriteExact ==
    ASSUME Ordered, Exact(disk, Live(disk)), NEW name \in Args, found(name) # 0, NEW n \in Nat,
           NEW q, q = WriteRun(name, found(name), n), Still(q)
    PROVE  Exact(q.disk, Live(q.disk))
<1> DEFINE i == found(name)
           r0 == IF entry(i).type = FT_DIR THEN Flag(Search(name), "dir_written") ELSE Search(name)
           w == WriteStart(r0, i)
           fill(r) == PutBlock(r, LastBlock(r, i), FileBytes)
           full == add_file_block(fill(w.run), i)
           r1 == IF w.pos + n < BLOCK_SIZE THEN w.run ELSE full
           r2 == fill(r1)
<1>1. i \in Live(disk) /\ i \in Inode /\ disk \in Disk /\ Live(disk) \subseteq Inode
  BY FoundInode DEF Ordered, TypeOK, Live
<1>2. q = Resize(r2, i, n - 1)
  BY DEF WriteRun
<1>3. Search(name) = Start
  BY SearchIsStart
<1>4. entry(i).type # FT_DIR
  <2>1. SUFFICES ASSUME entry(i).type = FT_DIR PROVE FALSE
    OBVIOUS
  <2> DEFINE f == Flag(Start, "dir_written")
  <2>2. Keeps(f, q, 0, 0)
    <3>1. TypeOK /\ q = WriteRun(name, i, n) /\ 0 \in Int
      BY DEF Ordered
    <3> HIDE DEF i
    <3>2. Keeps(Flag(Search(name), "dir_written"), q, 0, 0)
      BY <1>1, <2>1, <3>1, WriteRunKeeps
    <3>3. QED
      BY <1>3, <3>2
  <2>3. "dir_written" \in f.mishaps
    BY DEF Flag, Start, Begin
  <2> HIDE DEF f
  <2>4. "dir_written" \in q.mishaps
    BY <2>2, <2>3 DEF Keeps
  <2>5. QED
    BY <2>4 DEF Still, Leaking, Damaging
<1>5. Unmoved(q)
  BY <1>4, WriteRunInOrder
<1>6. r0 = Start
  BY <1>3, <1>4
<1> HIDE DEF i, r0
<1>7. /\ HasBlock(w.run, i) /\ HasBlock(full, i)
      /\ Grown(w.run, i) /\ Grown(full, i)
  BY <1>1, <1>4, <1>6, WriteSteps, WriteTakes
<1> HIDE DEF w, full
<1>8. HasBlock(r1, i) /\ Grown(r1, i)
  BY <1>7
<1> HIDE DEF r1
<1>9. r2 \in Run /\ (Still(r2) => Still(r1) /\ Extends(r1.disk, r2.disk, i))
  <2>1. HasBlock(r2, i)
    BY <1>1, <1>8, FillFile
  <2>2. Still(r2) => Still(r1) /\ Extends(r1.disk, r2.disk, i)
    BY <1>1, <1>8, FillTakes
  <2> HIDE DEF r2
  <2>3. QED
    BY <2>1, <2>2 DEF HasBlock, Writing, Orderly, Unmoved, InOrder
<1> HIDE DEF r2
<1>10. Still(r2) /\ Sized(r2.disk, q.disk, i, n - 1)
  <2>1. n - 1 \in Int
    OBVIOUS
  <2>2. QED
    BY <1>1, <1>2, <1>9, <2>1, ResizeTakes
<1>11. Extends(disk, r2.disk, i)
  BY <1>1, <1>8, <1>9, <1>10, ExtendsTransitive DEF Grown
<1>12. Owned(q.disk, Live(disk))
  <2>1. Owned(disk, Live(disk))
    BY DEF Exact
  <2>2. Owned(r2.disk, Live(disk))
    BY <1>1, <1>11, <2>1, ExtendsOwned
  <2>3. QED
    BY <1>1, <1>10, <2>2 DEF Owned, Sized
<1>13. q.disk.inode_bitmap = disk.inode_bitmap /\ q.disk.used_dirs_count = disk.used_dirs_count
  BY <1>10, <1>11 DEF Extends, Sized
<1>14. ASSUME NEW j \in DirsOf(disk, Live(disk))
       PROVE  q.disk.inode_table[j].i_size = disk.inode_table[j].i_size
  <2>1. j \in Inode /\ j # i
    BY <1>1, <1>4, <1>14 DEF DirsOf, IsDir, entry
  <2>2. QED
    BY <1>10, <1>11, <2>1 DEF Extends, Sized
<1>15. QED
  BY <1>5, <1>12, <1>13, <1>14, UnmovedExact

-----------------------------------------------------------------------------
(* What a command leaves.                                                   *)

\* A volume in order in which the shell stands in a directory.
Sound ==
    Clean(mishaps) =>
        /\ "double_free" \notin mishaps
        /\ Tree(disk, Live(disk)) /\ current_dir \in DirsOf(disk, Live(disk))

\* What changes only the names of the current directory leaves a path to it.
LEMMA StillLive ==
    ASSUME Ordered, NEW e \in Disk, NEW M, Tree(e, M),
           SameDirs(disk, e, Live(disk) \ {current_dir}), IsDir(e, current_dir)
    PROVE  Tree(e, Live(e)) /\ current_dir \in DirsOf(e, Live(e))
<1>1. Tree(e, Live(e)) /\ disk \in Disk /\ Tree(disk, Live(disk)) /\ current_dir \in Live(disk)
  BY TreeLive DEF Ordered, TypeOK, DirsOf
<1>2. SUFFICES ASSUME current_dir \notin Live(e) PROVE FALSE
  BY <1>1 DEF DirsOf
<1> DEFINE S == Live(e) \cap Live(disk)
<1>3. ROOT \in S /\ S \in SUBSET Inode
  BY <1>1 DEF Tree, DirsOf
<1>4. ASSUME NEW i \in S PROVE Children(disk, i) \subseteq S
  <2>1. SameDir(disk, e, i)
    BY <1>2, <1>4 DEF SameDirs
  <2>2. Children(e, i) = Children(disk, i)
    BY <2>1, SameDirNames
  <2>3. Children(e, i) \subseteq Live(e) /\ Children(disk, i) \subseteq Live(disk)
    BY <1>1, <1>4, TreeClosed
  <2>4. QED
    BY <2>2, <2>3
<1> HIDE DEF S
<1>5. Live(disk) \subseteq S
  BY <1>1, <1>3, <1>4, TreeLive
<1>6. QED
  BY <1>1, <1>2, <1>5 DEF S

\* So what a command may leave is in order.
LEMMA FineSound ==
    ASSUME Ordered, NEW e \in Disk, NEW m, Fine(e, m), Clean(m)
    PROVE  /\ "double_free" \notin m
           /\ Tree(e, Live(e)) /\ current_dir \in DirsOf(e, Live(e)) /\ ROOT \in DirsOf(e, Live(e))
<1>1. PICK M : Tree(e, M)
  BY DEF Fine
<1>2. /\ "double_free" \notin m
      /\ SameDirs(disk, e, Live(disk) \ {current_dir}) /\ IsDir(e, current_dir)
  BY DEF Fine
<1>3. Tree(e, Live(e)) /\ current_dir \in DirsOf(e, Live(e))
  BY <1>1, <1>2, StillLive
<1>4. QED
  BY <1>2, <1>3 DEF Tree

\* Whether it completes, gets lost or is killed.
LEMMA DoesFine ==
    ASSUME Ordered, NEW r, NEW L, InOrder(r, L), Does(r)
    PROVE  /\ Fine(disk', mishaps') /\ disk' \in Disk
           /\ \/ current_dir' = current_dir /\ fopen_table' = fopen_table /\ Completes(r)
              \/ current_dir' = ROOT /\ fopen_table' = {}
<1>1. r \in Run /\ r.disk \in Disk /\ Fine(r.disk, r.mishaps)
  BY RunDisk DEF InOrder
<1>2. CASE Completes(r) /\ UNCHANGED <<current_dir, fopen_table>>
  BY <1>1, <1>2 DEF Completes
<1>3. CASE GetsLost(r)
  BY <1>1, <1>3 DEF GetsLost, Restarted
<1>4. CASE IsCut(r, {})
  <2>1. PICK c \in r.cuts : disk' = c.disk /\ mishaps' = c.mishaps \cup {"cut"}
    BY <1>4 DEF IsCut
  <2>2. Fine(c.disk, c.mishaps) /\ c.disk \in Disk
    BY <1>1, <2>1, RunDisk DEF InOrder, Cut
  <2>3. Fine(disk', mishaps')
    BY <2>1, <2>2 DEF Fine, Clean, Damaging
  <2>4. QED
    BY <1>4, <2>1, <2>2, <2>3 DEF IsCut, Restarted
<1>5. QED
  BY <1>2, <1>3, <1>4 DEF Does

\* So a command keeps a volume in order.
LEMMA DoesSound ==
    ASSUME TypeOK, Sound, NEW r, Does(r), Keeps(Start, r, 0, 0), Ordered => \E L : InOrder(r, L)
    PROVE  Sound'
<1>1. Start.mishaps = mishaps /\ Start.cuts = {}
  BY DEF Start, Begin
<1>2. mishaps \subseteq mishaps'
  <2>1. mishaps \subseteq r.mishaps /\ \A c \in r.cuts : mishaps \subseteq c.mishaps
    BY <1>1 DEF Keeps
  <2>2. QED
    BY <2>1 DEF Does, Completes, GetsLost, IsCut
<1>3. CASE ~Clean(mishaps)
  BY <1>2, <1>3 DEF Sound, Clean
<1>4. CASE Clean(mishaps)
  <2>1. Ordered
    BY <1>4 DEF Sound, Ordered
  <2>2. PICK L : InOrder(r, L)
    BY <2>1
  <2>3. Fine(disk', mishaps') /\ disk' \in Disk /\ current_dir' \in {current_dir, ROOT}
    BY <2>1, <2>2, DoesFine
  <2>4. SUFFICES ASSUME Clean(mishaps')
                 PROVE  /\ "double_free" \notin mishaps'
                        /\ Tree(disk', Live(disk')) /\ current_dir' \in DirsOf(disk', Live(disk'))
    BY DEF Sound
  <2>5. QED
    BY <2>1, <2>3, <2>4, FineSound
<1>5. QED
  BY <1>3, <1>4

\* cd and cd .. lead to a directory that a path leads to.
LEMMA CdLive ==
    ASSUME Ordered, cdUp \/ \E name \in Names : cd(name)
    PROVE  current_dir' \in DirsOf(disk, Live(disk))
<1>1. CASE cdUp
  <2> DEFINE k == current_dir
  <2>1. k \in Live(disk) \ {ROOT} /\ disk \in Disk /\ Tree(disk, Live(disk)) /\ IsDir(disk, k)
    BY <1>1 DEF cdUp, Ordered, DirsOf, TypeOK
  <2>2. current_dir' = Up(disk, k)
    BY <1>1 DEF cdUp, Up, BlockAt, entry
  <2> HIDE DEF k
  <2>3. PICK j \in DirsOf(disk, Live(disk)) \ {k} : \E x \in Places(disk, j) : \E p \in Spots(disk, j, x) :
           InodeAt(disk, j, x, p) = k
    BY <2>1, NamedBySome
  <2>4. DirInOrder(disk, Live(disk), j)
    BY <2>1 DEF Tree
  <2>5. Up(disk, k) = j
    BY <2>1, <2>3, <2>4 DEF DirInOrder, EntryInOrder
  <2>6. QED
    BY <2>2, <2>3, <2>5
<1>2. CASE \E name \in Names : cd(name)
  <2>1. PICK name \in Names : cd(name)
    BY <1>2
  <2>2. found(name) # 0 /\ current_dir' = found(name) /\ entry(found(name)).type = FT_DIR
    BY <2>1 DEF cd, Target
  <2>3. found(name) \in Live(disk)
    BY <2>2, NameFound DEF NamedHere
  <2>4. QED
    BY <2>2, <2>3 DEF DirsOf, IsDir, entry
<1>3. QED
  BY <1>1, <1>2

\* The root directory of a fresh volume is in order.
LEMMA FreshTree ==
    Tree(FreshDisk, Live(FreshDisk)) /\ ROOT \in DirsOf(FreshDisk, Live(FreshDisk))
<1> DEFINE d == Formatted
           L == {ROOT}
           img == DirImage(ROOT, ROOT)
<1>1. /\ d \in Disk /\ d.inode_bitmap = {ROOT} /\ d.block_bitmap = {0}
      /\ d.inode_table[ROOT] = RootInode /\ d.data[0] = img
  <2>1. Formatted \in Disk
    BY FreshDiskFormatted, FreshDiskType
  <2>2. ROOT \in Inode /\ 0 \in Block
    BY Volume
  <2>3. d.inode_table[ROOT] = RootInode
    BY <2>2 DEF Formatted
  <2>4. d.data[0] = img
    BY <2>2 DEF Formatted
  <2>5. d.inode_bitmap = {ROOT} /\ d.block_bitmap = {0}
    BY DEF Formatted
  <2>6. QED
    BY <2>1, <2>3, <2>4, <2>5
<1>2. ROOT \in Inode /\ 0 \in 0..(NDIRECT - 1)
  BY Volume, VolumeAssumption
<1> HIDE DEF d
<1>3. /\ Places(d, ROOT) = {0} /\ BlockOf(d, ROOT, 0) = 0 /\ IsDir(d, ROOT)
      /\ BlockAt(d, ROOT, 0) = img
  <2>1. RootInode.i_blocks = 1 /\ RootInode.type = FT_DIR
    BY DEF RootInode
  <2>2. RootInode.i_block[0] = 0
    BY <1>2 DEF RootInode
  <2> HIDE DEF img
  <2>3. QED
    BY <1>1, <2>1, <2>2 DEF Places, BlockOf, IsDir, BlockAt
<1>4. img \in Image /\ Tiled(img) /\ Walk(img) = {0, 8} /\ Header(img, ROOT, ROOT)
  <2>1. ROOT \in 1..INODE_COUNT /\ ROOT \in 0..INODE_COUNT /\ NoName \in AllNames
    BY <1>2, Volume DEF Inode, AllNames
  <2>2. QED
    BY <2>1, DirImageOrder, NewBlockType
<1> HIDE DEF img
<1>5. Spots(d, ROOT, 0) = {} /\ Up(d, ROOT) = ROOT
  BY <1>3, <1>4 DEF Spots, Up, Header
<1>6. DirsOf(d, L) = {ROOT}
  BY <1>3 DEF DirsOf
<1>7. Allocated(d, L)
  BY <1>1, <1>3 DEF Allocated
<1>8. DirInOrder(d, L, ROOT)
  BY <1>3, <1>4, <1>5 DEF DirInOrder
<1>9. NamedOnce(d, L)
  BY <1>3, <1>5, <1>6 DEF NamedOnce
<1>10. Tree(d, L)
  BY <1>2, <1>5, <1>6, <1>7, <1>8, <1>9 DEF Tree
<1>11. Tree(d, Live(d))
  BY <1>1, <1>10, TreeLive
<1>12. QED
  BY <1>11, FreshDiskFormatted DEF Tree, d

-----------------------------------------------------------------------------
(* The steps of the shell.                                                  *)

\* A command that writes: its run, what it keeps, and that an open inode is
\* freed by the removal of an open directory only.
Commands(r) ==
    /\ r \in Run /\ Does(r) /\ Keeps(Start, r, 0, 0)
    /\ Ordered => \E L : InOrder(r, L)
    /\ Ordered /\ Exact(disk, Live(disk)) /\ Still(r) => Exact(r.disk, Live(r.disk))
    /\ r.status = "ok" => \/ "open_dir_removed" \in r.mishaps
                          \/ fopen_table \cap disk.inode_bitmap \subseteq r.disk.inode_bitmap

\* A step that leaves the volume alone.
Moves ==
    /\ UNCHANGED <<disk, mishaps, crashes>>
    /\ current_dir' \in {current_dir, ROOT} \/ cdUp \/ \E name \in Names : cd(name)
    /\ \A i \in fopen_table' \ fopen_table :
          \E name \in Args : found(name) = i /\ i # 0

\* Nothing drifts where the counts were right.
LEMMA NoDrift == Drift(0, 0)
<1>1. Abs(0) = 0 /\ MaxCrashes \in Nat
  BY SessionAssumption DEF Abs
<1>2. QED
  BY <1>1 DEF Drift

\* mkdir and create.
LEMMA MakeCommand ==
    ASSUME TypeOK, NEW name \in Args, found(name) = 0, NEW type \in {FT_REG_FILE, FT_DIR},
           NEW r, r = MakeRun(name, type), Does(r)
    PROVE  Commands(r)
<1>1. r \in Run /\ Keeps(Start, r, 0, 0) /\ Marks(Start, r)
  BY ArgsType, MakeRunType, MakeRunKeeps
<1>2. Ordered => \E L : InOrder(r, L)
  BY MakeRunInOrder
<1>3. Ordered /\ Exact(disk, Live(disk)) /\ Still(r) => Exact(r.disk, Live(r.disk))
  BY MakeExact
<1>4. disk.inode_bitmap \subseteq r.disk.inode_bitmap
  BY <1>1 DEF Marks, Start, Begin
<1>5. QED
  BY <1>1, <1>2, <1>3, <1>4 DEF Commands

\* delete.
LEMMA DeleteCommand ==
    ASSUME TypeOK, NEW name \in Args, delete(name)
    PROVE  \E r : Commands(r)
<1> DEFINE i == found(name)
           r == RemoveRun(name, i)
<1>1. /\ i # 0 /\ i \in Target(name) /\ entry(i).type = FT_REG_FILE /\ i \notin fopen_table
      /\ Does(r)
  BY DEF delete, Target
<1>2. i \in Inode
  BY <1>1, TargetType
<1>3. /\ r \in Run /\ Keeps(Start, r, 0, 0)
      /\ disk.inode_bitmap \ {i} \subseteq r.disk.inode_bitmap
  BY <1>2, ArgsType, NoDrift, RemoveRunType, RemoveRunKeeps
<1>4. ASSUME Ordered PROVE name \in Names
  <2>1. ASSUME name \in {".", ".."} PROVE FALSE
    <3>1. entry(i).type = FT_DIR
      BY <1>4, <2>1, DotsFound DEF DirsOf, IsDir, entry
    <3>2. QED
      BY <1>1, <3>1 DEF FT_DIR, FT_REG_FILE
  <2>2. QED
    BY <2>1, DotsAssumption DEF Args
<1>5. Ordered => \E L : InOrder(r, L)
  BY <1>1, <1>4, RemoveRunInOrder
<1>6. ~IsDir(disk, i)
  BY <1>1 DEF IsDir, entry, FT_DIR, FT_REG_FILE
<1>7. Ordered /\ Exact(disk, Live(disk)) /\ Still(r) => Exact(r.disk, Live(r.disk))
  BY <1>1, <1>4, <1>6, RemoveExact
<1>8. QED
  BY <1>1, <1>3, <1>5, <1>7 DEF Commands

\* rmdir.
LEMMA RmdirCommand ==
    ASSUME TypeOK, NEW name \in Names, rmdir(name)
    PROVE  \E r : Commands(r)
<1> DEFINE i == found(name)
           r == RmdirRun(name, i)
<1>1. /\ i # 0 /\ i \in Target(name) /\ Does(r)
      /\ entry(i).type = FT_DIR /\ entry(i).i_size = 17
  BY DEF rmdir, Target
<1>2. i \in Inode
  BY <1>1, TargetType
<1>3. /\ r \in Run /\ Keeps(Start, r, 0, 0)
      /\ disk.inode_bitmap \ {i} \subseteq r.disk.inode_bitmap
  BY <1>2, ArgsType, NoDrift, RemoveRunType, RemoveRunKeeps
<1>4. Ordered => \E L : InOrder(r, L)
  BY <1>1, RmdirRunInOrder
<1>5. Ordered /\ Exact(disk, Live(disk)) /\ Still(r) => Exact(r.disk, Live(r.disk))
  <2>1. IsDir(disk, i) /\ disk.inode_table[i].i_size = 17
    BY <1>1 DEF IsDir, entry
  <2>2. QED
    BY <1>1, <2>1, RmdirExact
<1>6. ASSUME i \in fopen_table, r.status = "ok" PROVE "open_dir_removed" \in r.mishaps
  <2> DEFINE q == RemoveRun(name, i)
             s == Put(q, [q.disk EXCEPT !.used_dirs_count = Decr(@)])
  <2>1. r = Flag(s, "open_dir_removed")
    BY <1>6 DEF RmdirRun
  <2>2. s \in Run
    <3>1. q \in Run
      BY <1>2, ArgsType, RemoveRunType
    <3> HIDE DEF q
    <3>2. Decr(q.disk.used_dirs_count) \in Position
      BY <3>1, RunDisk, CountsType DEF Disk, Position
    <3>3. [q.disk EXCEPT !.used_dirs_count = Decr(@)] \in Disk
      BY <3>1, <3>2, RunDisk DEF Disk, Position
    <3>4. QED
      BY <3>1, <3>3, PutType
  <2> HIDE DEF s, r
  <2>3. QED
    BY <1>6, <2>1, <2>2 DEF Flag, Run
<1>7. QED
  BY <1>1, <1>3, <1>4, <1>5, <1>6 DEF Commands

\* chmod.
LEMMA AttribCommand ==
    ASSUME TypeOK, NEW name \in Args, NEW change, attrib(name, change)
    PROVE  \E r : Commands(r)
<1>1. PICK i \in Target(name) :
         /\ change \in {2, 4, 6, 7}
         /\ Does(PutInode(Search(name), i, [entry(i) EXCEPT !.perm = change]))
  BY DEF attrib
<1> DEFINE r == PutInode(Search(name), i, [entry(i) EXCEPT !.perm = change])
<1>2. r \in Run /\ Keeps(Start, r, 0, 0) /\ Marks(Start, r)
  <2>1. i \in Inode /\ 0 \in Int
    BY TargetType
  <2>2. r \in Run
    BY <1>1, <2>1, AttribRunType
  <2>3. Keeps(Start, r, 0, 0) /\ Marks(Start, r)
    BY <2>1, AttribRunKeeps
  <2>4. QED
    BY <2>2, <2>3
<1>3. Ordered => \E L : InOrder(r, L)
  BY <1>1, TargetType, AttribRunInOrder
<1>4. Ordered /\ Exact(disk, Live(disk)) /\ Still(r) => Exact(r.disk, Live(r.disk))
  BY <1>1, TargetType, AttribExact
<1> HIDE DEF r
<1>5. disk.inode_bitmap \subseteq r.disk.inode_bitmap
  BY <1>2 DEF Marks, Start, Begin
<1>6. Does(r)
  BY <1>1 DEF r
<1>7. QED
  BY <1>2, <1>3, <1>4, <1>5, <1>6 DEF Commands

\* write.
LEMMA WriteCommand ==
    ASSUME TypeOK, NEW name \in Args, NEW n \in WriteLens, write(name, n)
    PROVE  \E r : Commands(r)
<1> DEFINE i == found(name)
           r == WriteRun(name, i, n)
<1>1. i # 0 /\ i \in Target(name) /\ Does(r)
  BY DEF write, Target
<1>2. i \in Inode /\ n \in Nat
  BY <1>1, TargetType, SizesAssumption, SessionAssumption
<1>3. r \in Run /\ Keeps(Start, r, 0, 0) /\ Marks(Start, r)
  <2>1. r \in Run
    BY <1>2, WriteRunType
  <2>2. 0 \in Int
    OBVIOUS
  <2>3. Keeps(Start, r, 0, 0) /\ Marks(Start, r)
    BY <1>2, <2>2, WriteRunKeeps
  <2>4. QED
    BY <2>1, <2>3
<1>4. Ordered => \E L : InOrder(r, L)
  BY <1>1, <1>2, WriteRunInOrder
<1>5. Ordered /\ Exact(disk, Live(disk)) /\ Still(r) => Exact(r.disk, Live(r.disk))
  BY <1>1, <1>2, WriteExact
<1> HIDE DEF r
<1>6. disk.inode_bitmap \subseteq r.disk.inode_bitmap
  BY <1>3 DEF Marks, Start, Begin
<1>7. QED
  BY <1>1, <1>3, <1>4, <1>5, <1>6 DEF Commands

\* Every step is a command that writes, a format, or leaves the volume alone.
LEMMA StepCases ==
    ASSUME TypeOK, [Next]_vars
    PROVE  Moves \/ format \/ \E r : Commands(r)
<1>1. ASSUME NEW name \in Args, mkdir(name) PROVE \E r : Commands(r)
  BY <1>1, MakeCommand DEF mkdir
<1>2. ASSUME NEW name \in Args, create(name) PROVE \E r : Commands(r)
  BY <1>2, MakeCommand DEF create
<1>3. ASSUME NEW name \in Args, open(name) PROVE Moves
  <2>1. fopen_table' = fopen_table \cup {found(name)} /\ found(name) # 0
    BY <1>3 DEF open, Target
  <2>2. QED
    BY <1>3, <2>1 DEF open, Moves
<1>4. ASSUME NEW name \in Args, close(name) PROVE Moves
  <2>1. fopen_table' \subseteq fopen_table
    BY <1>4 DEF close
  <2>2. QED
    BY <1>4, <2>1 DEF close, Moves
<1>5. ASSUME NEW name \in Names, cd(name) PROVE Moves
  BY <1>5 DEF cd, Moves
<1>6. CASE cdRoot
  BY <1>6 DEF cdRoot, Moves
<1>7. CASE cdUp
  BY <1>7 DEF cdUp, Moves
<1>8. CASE restart
  BY <1>8 DEF restart, Restarted, Moves
<1>9. CASE UNCHANGED vars
  BY <1>9 DEF vars, Moves
<1>10. QED
  BY <1>1, <1>2, <1>3, <1>4, <1>5, <1>6, <1>7, <1>8, <1>9, DeleteCommand, RmdirCommand,
     AttribCommand, WriteCommand DEF Next

-----------------------------------------------------------------------------
(* The invariant, and the properties that follow from it.                   *)

\* Mishaps are forgotten by a format only.
LEMMA MishapsStay ==
    ASSUME NEW r, Commands(r)
    PROVE  mishaps \subseteq mishaps'
<1>1. mishaps \subseteq r.mishaps /\ \A c \in r.cuts : mishaps \subseteq c.mishaps
  BY DEF Commands, Keeps, Start, Begin
<1>2. QED
  BY <1>1 DEF Commands, Does, Completes, GetsLost, IsCut

\* A format leaves a fresh volume, or is killed.
LEMMA FormatLeaves ==
    ASSUME TypeOK, format
    PROVE  /\ current_dir' = ROOT /\ fopen_table' = {}
           /\ \/ disk' = FreshDisk /\ mishaps' = {} /\ crashes' = 0
              \/ "cut" \in mishaps' /\ ~Clean(mishaps')
<1>1. FormatRun.disk = FreshDisk
  BY FormattedDisk, FreshDiskFormatted DEF TypeOK, FormatRun
<1>2. CASE disk' = FormatRun.disk /\ Restarted /\ mishaps' = {} /\ crashes' = 0
  BY <1>1, <1>2 DEF Restarted
<1>3. CASE IsCut(FormatRun, {"format_cut"})
  <2>1. "format_cut" \in mishaps' /\ "cut" \in mishaps'
    BY <1>3 DEF IsCut
  <2>2. QED
    BY <1>3, <2>1 DEF IsCut, Restarted, Clean, Damaging
<1>4. QED
  BY <1>2, <1>3 DEF format

\* As long as the directories were never damaged they are a tree of allocated
\* inodes in which the shell stands, and no bit was freed twice: every command
\* keeps it so, completed or killed.
THEOREM VolumeInOrder == Spec => []Sound
<1>1. Init => Sound
  BY FreshTree DEF Init, Sound
<1>2. TypeOK /\ Sound /\ [Next]_vars => Sound'
  <2> SUFFICES ASSUME TypeOK, Sound, [Next]_vars PROVE Sound'
    OBVIOUS
  <2>1. CASE Moves
    <3>1. SUFFICES ASSUME Clean(mishaps) PROVE current_dir' \in DirsOf(disk, Live(disk))
      BY <2>1 DEF Moves, Sound
    <3>2. Ordered
      BY <3>1 DEF Sound, Ordered
    <3>3. CASE current_dir' \in {current_dir, ROOT}
      BY <3>2, <3>3 DEF Ordered, Tree
    <3>4. QED
      BY <2>1, <3>2, <3>3, CdLive DEF Moves
  <2>2. CASE format
    BY <2>2, FormatLeaves, FreshTree DEF Sound
  <2>3. ASSUME NEW r, Commands(r) PROVE Sound'
    BY <2>3, DoesSound DEF Commands
  <2>4. QED
    BY <2>1, <2>2, <2>3, StepCases
<1>3. Spec => []TypeOK
  BY TypeCorrect
<1>4. QED
  BY <1>1, <1>2, <1>3, PTL DEF Spec

\* No directory that a path leads to names a freed inode, and no file or
\* directory that a path leads to uses a freed block.
THEOREM ReachableStaysAllocated == Spec => []ReachableIsAllocated
<1>1. TypeOK /\ Sound => ReachableIsAllocated
  <2>1. SUFFICES ASSUME TypeOK, Sound, Clean(mishaps) PROVE ReachableIsAllocated
    BY DEF ReachableIsAllocated, Unless, Clean
  <2>2. QED
    BY <2>1, TreeAllocates DEF Sound, TypeOK
<1>2. QED
  BY <1>1, TypeCorrect, VolumeInOrder, PTL

\* No data block belongs to two inodes that a path leads to, or twice to one.
THEOREM BlocksStayOwnedOnce == Spec => []BlocksOwnedOnce
<1>1. TypeOK /\ Sound => BlocksOwnedOnce
  <2>1. SUFFICES ASSUME TypeOK, Sound, Clean(mishaps) PROVE BlocksOwnedOnce
    BY DEF BlocksOwnedOnce, Unless, Clean
  <2>2. QED
    BY <2>1, TreeAllocates DEF Sound, TypeOK
<1>2. QED
  BY <1>1, TypeCorrect, VolumeInOrder, PTL

\* The directories stay a tree whose names are told apart and whose ".." lead
\* up, through every create, mkdir, delete and rmdir, completed or killed.
THEOREM TreeStays == Spec => []TreeShape
<1>1. TypeOK /\ Sound => TreeShape
  <2>1. SUFFICES ASSUME TypeOK, Sound, Clean(mishaps) PROVE TreeShape
    BY DEF TreeShape, Unless, Clean
  <2>2. QED
    BY <2>1, TreeShapes DEF Sound, TypeOK
<1>2. QED
  BY <1>1, TypeCorrect, VolumeInOrder, PTL

\* The shell never stands in a directory that no path leads to: rmdir does not
\* reach the current directory, and cd and cd .. only lead to directories.
THEOREM CurrentDirStaysLive == Spec => []CurrentDirLive
<1>1. Sound => CurrentDirLive
  BY DEF Sound, CurrentDirLive, Unless, Clean, DirsOf
<1>2. QED
  BY <1>1, VolumeInOrder, PTL

\* bitmap_neg_k (L227) never inverts a bit that is already clear while the
\* directories are in order, kills or not.
THEOREM NeverFreedTwice == Spec => []NoDoubleFree
<1>1. Sound => NoDoubleFree
  BY DEF Sound, NoDoubleFree, Unless, Clean
<1>2. QED
  BY <1>1, VolumeInOrder, PTL

\* No open inode is freed, unless an open directory is removed.
THEOREM OpenStaysAllocated == Spec => []OpenIsAllocated
<1>1. Init => OpenIsAllocated
  BY DEF Init, OpenIsAllocated
<1>2. TypeOK /\ Sound /\ OpenIsAllocated /\ [Next]_vars => OpenIsAllocated'
  <2> SUFFICES ASSUME TypeOK, Sound, OpenIsAllocated, [Next]_vars,
                      mishaps' \cap (Damaging \cup {"open_dir_removed"}) = {}
               PROVE  fopen_table' \subseteq disk'.inode_bitmap
    BY DEF OpenIsAllocated, Unless
  <2>1. ASSUME mishaps \subseteq mishaps'
        PROVE  Ordered /\ fopen_table \subseteq disk.inode_bitmap
    <3>1. mishaps \cap (Damaging \cup {"open_dir_removed"}) = {}
      BY <2>1
    <3>2. QED
      BY <3>1 DEF OpenIsAllocated, Unless, Sound, Ordered, Clean
  <2>2. CASE Moves
    <3>1. Ordered /\ fopen_table \subseteq disk.inode_bitmap /\ disk' = disk
      BY <2>1, <2>2 DEF Moves
    <3>2. Live(disk) \subseteq disk.inode_bitmap
      BY <3>1 DEF Ordered, Tree, Allocated
    <3>3. ASSUME NEW i \in fopen_table' \ fopen_table PROVE i \in Live(disk)
      BY <2>2, <3>1, <3>3, FoundInode DEF Moves
    <3>4. QED
      BY <3>1, <3>2, <3>3
  <2>3. CASE format
    BY <2>3, FormatLeaves
  <2>4. ASSUME NEW r, Commands(r) PROVE fopen_table' \subseteq disk'.inode_bitmap
    <3>1. Ordered /\ fopen_table \subseteq disk.inode_bitmap
      BY <2>1, <2>4, MishapsStay
    <3>2. PICK L : InOrder(r, L)
      BY <2>4, <3>1 DEF Commands
    <3>3. \/ current_dir' = current_dir /\ fopen_table' = fopen_table /\ Completes(r)
          \/ fopen_table' = {}
      BY <2>4, <3>1, <3>2, DoesFine DEF Commands
    <3>4. CASE fopen_table' = fopen_table /\ Completes(r)
      <4>1. r.status = "ok" /\ disk' = r.disk /\ "open_dir_removed" \notin r.mishaps
        BY <3>4 DEF Completes
      <4>2. fopen_table \cap disk.inode_bitmap \subseteq r.disk.inode_bitmap
        BY <2>4, <4>1 DEF Commands
      <4>3. QED
        BY <3>1, <3>4, <4>1, <4>2
    <3>5. QED
      BY <3>3, <3>4
  <2>5. QED
    BY <2>2, <2>3, <2>4, StepCases
<1>3. QED
  BY <1>1, <1>2, TypeCorrect, VolumeInOrder, PTL DEF Spec

\* A kill is remembered until the volume is formatted.
CutSeen == crashes > 0 => "cut" \in mishaps

\* Every kill is recorded.
THEOREM KillsAreSeen == Spec => []CutSeen
<1>1. Init => CutSeen
  BY DEF Init, CutSeen
<1>2. TypeOK /\ CutSeen /\ [Next]_vars => CutSeen'
  <2> SUFFICES ASSUME TypeOK, CutSeen, [Next]_vars PROVE CutSeen'
    OBVIOUS
  <2>1. CASE Moves
    BY <2>1 DEF Moves, CutSeen
  <2>2. CASE format
    BY <2>2, FormatLeaves DEF CutSeen
  <2>3. ASSUME NEW r, Commands(r) PROVE CutSeen'
    <3>1. mishaps \subseteq mishaps'
      BY <2>3, MishapsStay
    <3>2. crashes' = crashes \/ "cut" \in mishaps'
      BY <2>3 DEF Commands, Does, Completes, GetsLost, IsCut
    <3>3. QED
      BY <3>1, <3>2 DEF CutSeen
  <2>4. QED
    BY <2>1, <2>2, <2>3, StepCases
<1>3. QED
  BY <1>1, <1>2, TypeCorrect, PTL DEF Spec

\* On a volume that no kill touched the free counts are those of the bitmaps.
LEMMA CountsAgree ==
    ASSUME Ordered, DriftBounded, CutSeen, "cut" \notin mishaps
    PROVE  Level(Start, 0, 0)
<1>1. mishaps \cap {"double_free", "format_cut"} = {}
  BY DEF Ordered, Clean, Damaging
<1>2. crashes = 0
  <2>1. crashes \in Nat
    BY SessionAssumption DEF Ordered, TypeOK
  <2>2. QED
    BY <2>1 DEF CutSeen
<1>3. InodeDrift(disk) \in Int /\ BlockDrift(disk) \in Int
  BY DriftType DEF Ordered, TypeOK
<1>4. Abs(InodeDrift(disk)) + Abs(BlockDrift(disk)) <= 0
  BY <1>1, <1>2 DEF DriftBounded, Unless
<1>5. InodeDrift(disk) = 0 /\ BlockDrift(disk) = 0
  BY <1>3, <1>4 DEF Abs
<1>6. QED
  BY <1>5 DEF Level, Start, Begin

\* No search, and no scan of a bitmap, runs past the end of what it scans on a
\* volume that was never killed or damaged.
THEOREM StaysFound == Spec => []NeverLost
<1>1. Init => NeverLost
  BY DEF Init, NeverLost
<1>2. TypeOK /\ Sound /\ DriftBounded /\ CutSeen /\ NeverLost /\ [Next]_vars => NeverLost'
  <2> SUFFICES ASSUME TypeOK, Sound, DriftBounded, NeverLost, CutSeen, [Next]_vars
               PROVE  NeverLost'
    OBVIOUS
  <2>1. CASE Moves
    BY <2>1 DEF Moves, NeverLost, Unless
  <2>2. CASE format
    <3>1. CASE mishaps' = {}
      BY <3>1 DEF NeverLost
    <3>2. CASE "cut" \in mishaps'
      BY <3>2 DEF NeverLost, Unless
    <3>3. QED
      BY <2>2, <3>1, <3>2, FormatLeaves
  <2>3. ASSUME NEW r, Commands(r) PROVE NeverLost'
    <3>1. mishaps \subseteq mishaps'
      BY <2>3, MishapsStay
    <3>2. SUFFICES ASSUME mishaps' \cap (Damaging \cup {"cut"}) = {}
                   PROVE  "lost" \notin mishaps'
      BY DEF NeverLost, Unless
    <3>3. mishaps \cap (Damaging \cup {"cut"}) = {} /\ "lost" \notin mishaps /\ "cut" \notin mishaps
      BY <3>1, <3>2 DEF NeverLost, Unless
    <3>4. Ordered
      BY <3>3 DEF Sound, Ordered, Clean
    <3>5. Level(Start, 0, 0)
      BY <3>3, <3>4, CountsAgree
    <3>6. r.status # "lost" \/ ~(mishaps' = r.mishaps)
      <4>1. PICK L : InOrder(r, L)
        BY <2>3, <3>4 DEF Commands
      <4>2. QED
        BY <3>2, <3>5, <4>1 DEF InOrder, Clean
    <3>7. CASE Completes(r)
      <4>1. "lost" \in r.mishaps => "lost" \in mishaps
        BY <2>3, <3>7 DEF Commands, Completes, Keeps, Start, Begin
      <4>2. QED
        BY <3>3, <3>7, <4>1 DEF Completes
    <3>8. QED
      BY <2>3, <3>2, <3>6, <3>7 DEF Commands, Does, GetsLost, IsCut
  <2>4. QED
    BY <2>1, <2>2, <2>3, StepCases
<1>3. QED
  BY <1>1, <1>2, TypeCorrect, VolumeInOrder, DriftIsBounded, KillsAreSeen, PTL DEF Spec

\* A command changes one name of the current directory at most, and none of any
\* other directory, whether it completes or is killed half way.
THEOREM OneNameChanges == Spec => ChangesOneName
<1> DEFINE Change ==
             \/ mishaps' \cap (Damaging \cup {"gap_overwrite"}) # {}
             \/ disk' \in {disk, FreshDisk}
             \/ \A i \in Inode :
                  LET old == NamesOf(disk, i)
                      new == NamesOf(disk', i)
                  IN  \/ new = old
                      \/ i = current_dir /\ Cardinality((old \ new) \cup (new \ old)) <= 1
                      \/ i \notin Live(disk) \cap Live(disk')
<1>1. TypeOK /\ Sound /\ [Next]_vars => Change
  <2> SUFFICES ASSUME TypeOK, Sound, [Next]_vars,
                      mishaps' \cap (Damaging \cup {"gap_overwrite"}) = {}
               PROVE  Change
    OBVIOUS
  <2>1. CASE Moves
    BY <2>1 DEF Moves
  <2>2. CASE format
    BY <2>2, FormatLeaves DEF Clean
  <2>3. ASSUME NEW r, Commands(r) PROVE Change
    <3>1. Ordered
      <4>1. Clean(mishaps)
        BY <2>3, MishapsStay DEF Clean
      <4>2. QED
        BY <4>1 DEF Sound, Ordered
    <3>2. PICK L : InOrder(r, L)
      BY <2>3, <3>1 DEF Commands
    <3>3. Fine(disk', mishaps')
      BY <2>3, <3>1, <3>2, DoesFine DEF Commands
    <3>4. /\ SameDirs(disk, disk', Live(disk) \ {current_dir})
          /\ OneName(disk, disk', current_dir)
      BY <3>3 DEF Fine, Clean
    <3>5. ASSUME NEW i \in Live(disk) \ {current_dir} PROVE NamesOf(disk', i) = NamesOf(disk, i)
      BY <3>4, SameDirNames DEF SameDirs
    <3> DEFINE old == NamesOf(disk, current_dir)
               new == NamesOf(disk', current_dir)
    <3>6. Cardinality((old \ new) \cup (new \ old)) <= 1
      <4>1. PICK a : \A t : t # a => (t \in old <=> t \in new)
        BY <3>4 DEF OneName
      <4> HIDE DEF old, new
      <4>2. (old \ new) \cup (new \ old) \in {{}, {a}}
        BY <4>1
      <4>3. Cardinality({}) = 0 /\ Cardinality({a}) = 1
        BY FS_EmptySet, FS_Singleton
      <4>4. QED
        BY <4>2, <4>3
    <3>7. QED
      BY <3>5, <3>6
  <2>4. QED
    BY <2>1, <2>2, <2>3, StepCases
<1>2. QED
  BY <1>1, TypeCorrect, VolumeInOrder, PTL DEF Spec, ChangesOneName

-----------------------------------------------------------------------------
(* All of a volume that no kill touched is accounted for.                   *)

\* The bitmaps, the count of directories and their sizes tell what a path
\* leads to.
Accounted == mishaps \cap Leaking = {} => Exact(disk, Live(disk))

\* They do on a fresh volume.
LEMMA FreshExact == Exact(FreshDisk, Live(FreshDisk))
<1> DEFINE d == Formatted
           L == {ROOT}
<1>1. FreshDisk = d /\ d \in Disk
  BY FreshDiskFormatted, FreshDiskType
<1>2. ROOT \in Inode /\ 0 \in 0..(NDIRECT - 1)
  BY Volume, VolumeAssumption
<1>3. /\ d.inode_bitmap = {ROOT} /\ d.block_bitmap = {0} /\ d.used_dirs_count = Incr(0)
      /\ d.inode_table[ROOT] = RootInode /\ d.data[0] = DirImage(ROOT, ROOT)
  <2>1. 0 \in Block
    BY Volume
  <2>2. QED
    BY <1>2, <2>1 DEF Formatted
<1> HIDE DEF d
<1>4. Live(d) = {ROOT} /\ Tree(d, {ROOT})
  <2>1. Tree(d, Live(d))
    BY <1>1, FreshTree
  <2>2. ROOT \in Live(d) /\ Live(d) \subseteq d.inode_bitmap
    BY <2>1 DEF Tree, DirsOf, Allocated
  <2>3. QED
    BY <1>3, <2>1, <2>2
<1>5. /\ Places(d, ROOT) = {0} /\ BlockOf(d, ROOT, 0) = 0 /\ IsDir(d, ROOT)
      /\ d.inode_table[ROOT].i_size = 17
      /\ BlockAt(d, ROOT, 0) = DirImage(ROOT, ROOT)
  <2> DEFINE img == DirImage(ROOT, ROOT)
  <2>1. RootInode.i_blocks = 1 /\ RootInode.type = FT_DIR /\ RootInode.i_size = 17
    BY DEF RootInode
  <2>2. RootInode.i_block[0] = 0
    BY <1>2 DEF RootInode
  <2>3. d.data[0] = img
    BY <1>3
  <2> HIDE DEF img
  <2>4. BlockAt(d, ROOT, 0) = img
    BY <1>3, <2>2, <2>3 DEF BlockAt
  <2>5. QED
    BY <1>3, <2>1, <2>2, <2>4 DEF Places, BlockOf, IsDir, img
<1>6. NamesOf(d, ROOT) = {}
  <2>1. Walk(DirImage(ROOT, ROOT)) = {0, 8}
    BY <1>2, DirImageOrder DEF Inode
  <2>2. \A x \in Places(d, ROOT) : Spots(d, ROOT, x) = {}
    BY <1>5, <2>1 DEF Spots
  <2>3. DirInOrder(d, {ROOT}, ROOT)
    BY <1>4, <1>5 DEF Tree, DirsOf
  <2>4. \A t : t \in NamesOf(d, ROOT) <=>
           \E x \in Places(d, ROOT) : \E p \in Spots(d, ROOT, x) :
              t = <<NameAt(d, ROOT, x, p), InodeAt(d, ROOT, x, p)>>
    BY <1>1, <1>2, <1>5, <2>3, SpotNames
  <2>5. QED
    BY <2>2, <2>4
<1>7. Cardinality(Bytes(d, ROOT)) = 0
  BY <1>6, NoNamesNoBytes
<1>8. DirsOf(d, L) = {ROOT}
  BY <1>5 DEF DirsOf
<1>9. Cardinality(DirsOf(d, L)) = 1
  BY <1>8, FS_Singleton
<1>10. Incr(0) = 1
  <2>1. 0 \in Position /\ 0 + 1 < USHORT
    BY Ushort DEF Position
  <2>2. QED
    BY <2>1, CountsExact
<1>11. Owned(d, L)
  BY <1>3, <1>5 DEF Owned
<1>12. Exact(d, L)
  BY <1>3, <1>5, <1>7, <1>8, <1>9, <1>10, <1>11 DEF Exact
<1>13. QED
  BY <1>1, <1>4, <1>12

\* Every command gives back what it took when it fails, and all of what it
\* removes, unless it is killed or has to go on without an inode or a block.
THEOREM VolumeAccounted == Spec => []Accounted
<1>1. Init => Accounted
  BY FreshExact DEF Init, Accounted
<1>2. TypeOK /\ Sound /\ DriftBounded /\ CutSeen /\ Accounted /\ [Next]_vars => Accounted'
  <2> SUFFICES ASSUME TypeOK, Sound, DriftBounded, CutSeen, Accounted, [Next]_vars,
                      mishaps' \cap Leaking = {}
               PROVE  Exact(disk', Live(disk'))
    BY DEF Accounted
  <2>1. CASE Moves
    BY <2>1 DEF Moves, Accounted
  <2>2. CASE format
    BY <2>2, FormatLeaves, FreshExact DEF Leaking
  <2>3. ASSUME NEW r, Commands(r) PROVE Exact(disk', Live(disk'))
    <3>1. mishaps \cap Leaking = {} /\ "cut" \notin mishaps /\ "cut" \notin mishaps'
      BY <2>3, MishapsStay DEF Leaking
    <3>2. Ordered /\ Exact(disk, Live(disk))
      BY <3>1 DEF Sound, Ordered, Clean, Leaking, Accounted
    <3>3. CASE Completes(r)
      <4>1. Still(r) /\ disk' = r.disk
        BY <3>3 DEF Completes, Still
      <4>2. QED
        BY <2>3, <3>2, <4>1 DEF Commands
    <3>4. CASE GetsLost(r)
      <4>1. Level(Start, 0, 0)
        BY <3>1, <3>2, CountsAgree
      <4>2. PICK L : InOrder(r, L)
        BY <2>3, <3>2 DEF Commands
      <4>3. QED
        BY <3>4, <4>1, <4>2 DEF GetsLost, InOrder, Clean, Leaking
    <3>5. CASE IsCut(r, {})
      BY <3>1, <3>5 DEF IsCut
    <3>6. QED
      BY <2>3, <3>3, <3>4, <3>5 DEF Commands, Does
  <2>4. QED
    BY <2>1, <2>2, <2>3, StepCases
<1>3. QED
  BY <1>1, <1>2, TypeCorrect, VolumeInOrder, DriftIsBounded, KillsAreSeen, PTL DEF Spec

\* Nothing is allocated that no path leads to, as long as none of the mishaps of
\* Leaking happened since the format: no kill, no entry wiped out by an insertion
\* (gap_overwrite) or kept by a removal (first_entry), no failed allocation
\* (no_inode, no_block) and no directory written like a file (dir_written).
THEOREM NothingEverLeaks == Spec => []NothingLeaks
<1>1. TypeOK /\ Sound /\ Accounted => NothingLeaks
  <2>1. SUFFICES ASSUME TypeOK, Sound, Exact(disk, Live(disk)), mishaps \cap Leaking = {}
                 PROVE  /\ disk.inode_bitmap = Live(disk)
                        /\ disk.block_bitmap = UNION {BlocksOf(disk, i) : i \in Live(disk)}
    BY DEF NothingLeaks, Unless, Accounted
  <2>2. Allocated(disk, Live(disk))
    BY <2>1 DEF Sound, Clean, Leaking, Tree
  <2>3. \A i : \A b : b \in BlocksOf(disk, i) <=> \E x \in Places(disk, i) : BlockOf(disk, i, x) = b
    BY DEF BlocksOf, Places, BlockOf
  <2>4. ASSUME NEW b \in disk.block_bitmap PROVE \E i \in Live(disk) : b \in BlocksOf(disk, i)
    BY <2>1, <2>3, <2>4 DEF Exact, Owned
  <2>5. ASSUME NEW i \in Live(disk), NEW b \in BlocksOf(disk, i) PROVE b \in disk.block_bitmap
    BY <2>2, <2>3, <2>5 DEF Allocated
  <2>6. QED
    BY <2>1, <2>4, <2>5 DEF Exact
<1>2. QED
  BY <1>1, TypeCorrect, VolumeInOrder, VolumeAccounted, PTL

\* used_dirs_count is the number of directories that a path leads to.
THEOREM DirsStayCounted == Spec => []DirsCounted
<1>1. Accounted => DirsCounted
  BY DEF Accounted, DirsCounted, Unless, Exact, DirsOf
<1>2. QED
  BY <1>1, VolumeAccounted, PTL

\* The size of a directory is that of its entries, so that rmdir takes for
\* empty what is empty.
THEOREM SizesStay == Spec => []SizesMatch
<1>1. Accounted => SizesMatch
  BY DEF Accounted, SizesMatch, Unless, Exact, DirsOf, entry
<1>2. QED
  BY <1>1, VolumeAccounted, PTL
=============================================================================
