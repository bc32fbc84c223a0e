----------------------------- MODULE Ext2FsProofs ----------------------------
(***************************************************************************)
(* The file system for every size of the volume, every set of names and    *)
(* any number of kills: its types, the volume that format leaves and the   *)
(* drift between the free counts and the bitmaps.                          *)
(*                                                                         *)
(* What a walk over a block of a directory finds, inserts and deletes is   *)
(* shown first, for every image of a block, with the theorems of           *)
(* DirBlockOps about a block that is used on its own.                      *)
(*                                                                         *)
(* Then, every routine of Ext2Disk turns a run into a run: the disk it     *)
(* leaves, and every disk a kill on the way leaves, is a Disk, and what it *)
(* returns is an inode or a block of the volume.  Then every command is a  *)
(* run, and every step of Ext2Fs keeps TypeOK.                             *)
(*                                                                         *)
(* Within a command the counts lag behind the bitmaps by at most one write,*)
(* so every routine of Ext2Disk leaves the drift as it found it, and every *)
(* disk that a kill on the way leaves is off by one more at most.  The     *)
(* relation Keeps says that of a step of a run; it is transitive, so a     *)
(* command keeps what its routines keep.                                   *)
(***************************************************************************)
EXTENDS Ext2Fs, DirBlockOps, WellFoundedInduction, FiniteSetTheorems, TLAPS

Position == 0..(USHORT - 1)

\* Unsigned short arithmetic stays in its range.  From here on USHORT is a
\* number of which only this is known.
LEMMA Ushort ==
    /\ USHORT \in Nat /\ USHORT > 1
    /\ \A n \in Int : n % USHORT \in Position
<1>1. USHORT \in Nat /\ USHORT > 1
  BY DEF USHORT
<1>2. ASSUME NEW n \in Int PROVE n % USHORT \in Int /\ 0 <= n % USHORT /\ n % USHORT < USHORT
  BY DEF USHORT
<1>3. QED
  BY <1>1, <1>2 DEF Position

-----------------------------------------------------------------------------
(* Minima and maxima.                                                       *)

\* Every non-empty set of naturals has a least element, which is what Min of
\* the first matching entry, gap or free bit relies on (L212, L445, L476).
LEMMA MinOfNats ==
    ASSUME NEW S, S \subseteq Nat, S # {}
    PROVE  Min(S) \in S /\ \A y \in S : Min(S) <= y
<1> DEFINE R == {ss \in Nat \X Nat : ss[1] < ss[2]}
<1>1. R = OpToRel(<, Nat)
  BY DEF OpToRel
<1>2. IsWellFoundedOn(R, Nat)
  BY <1>1, NatLessThanWellFounded, Zenon
<1> HIDE DEF R
<1>3. PICK x \in S : \A y \in S : ~ (<<y, x>> \in R)
  BY <1>2, WFMin, Zenon
<1>4. \A y \in S : x <= y
  <2>1. SUFFICES ASSUME NEW y \in S, ~ (x <= y) PROVE FALSE
    OBVIOUS
  <2>2. x \in Nat /\ y \in Nat
    OBVIOUS
  <2>3. <<y, x>> \in R
    BY <2>1, <2>2 DEF R
  <2>4. QED
    BY <2>3, <1>3
<1>5. QED
  BY <1>4 DEF Min

\* A non-empty set of naturals below a bound has a greatest element: the last
\* entry of a walk (L455, L479, L506).
LEMMA MaxOfNats ==
    ASSUME NEW S, NEW n \in Nat, S \subseteq 0..n, S # {}
    PROVE  Max(S) \in S /\ \A y \in S : Max(S) >= y
<1> DEFINE T == {n - x : x \in S}
<1>1. T \subseteq Nat /\ T # {}
  <2>1. ASSUME NEW x \in S PROVE n - x \in Nat
    <3>1. x \in 0..n
      OBVIOUS
    <3>2. QED
      BY <3>1
  <2>2. QED
    BY <2>1
<1>2. Min(T) \in T /\ \A y \in T : Min(T) <= y
  BY <1>1, MinOfNats
<1>3. PICK x \in S : Min(T) = n - x
  BY <1>2
<1>4. \A y \in S : x >= y
  <2>1. TAKE y \in S
  <2>2. n - y \in T
    OBVIOUS
  <2>3. n - x <= n - y
    BY <2>2, <1>2, <1>3
  <2>4. QED
    BY <2>3
<1>5. QED
  BY <1>4 DEF Max

-----------------------------------------------------------------------------
(* Types.                                                                   *)

\* The bytes of an entry are a number of at least 7, the header of dir_entry.
LEMMA EntryBytesType ==
    ASSUME NEW name \in AllNames
    PROVE  EntryBytes(name) \in Nat
BY LengthsAssumption DEF EntryBytes

\* Reading at any position gives a slot, a zero one where nothing was written.
LEMMA AtType ==
    ASSUME NEW img \in Image, NEW p \in Position
    PROVE  At(img, p) \in Slot /\ At(img, p).pos = p
<1>1. CASE \E s \in img : s.pos = p
  <2>1. At(img, p) \in img /\ At(img, p).pos = p
    BY <1>1 DEF At
  <2>2. QED
    BY <2>1 DEF Image
<1>2. CASE ~ \E s \in img : s.pos = p
  <2>1. At(img, p) = [pos |-> p, inode |-> 0, rec_len |-> 0, name |-> NoName]
    BY <1>2 DEF At
  <2>2. QED
    BY <2>1, SizesAssumption, Ushort DEF Slot, Position, AllNames
<1>3. QED
  BY <1>1, <1>2

\* A walk stops at positions an unsigned short can hold, and at byte 0 first.
LEMMA WalkType ==
    ASSUME NEW img \in Image
    PROVE  0 \in Walk(img) /\ Walk(img) \subseteq Position
<1>1. Position = 0..(USHORT - 1) /\ 0 \in Position
  BY Ushort DEF Position
<1>2. \A s \in img : s.pos \in Position
  BY DEF Image, Slot, Position
<1>3. QED
  BY <1>1, <1>2 DEF Walk

\* So is the position current_pos has when the loop ends.
LEMMA EndType ==
    ASSUME NEW img \in Image
    PROVE  End(img) \in Position
<1>1. Max(Walk(img)) \in Position
  BY WalkType, MaxOfNats, Ushort DEF Position
<1>2. At(img, Max(Walk(img))).rec_len \in Nat /\ Max(Walk(img)) \in Nat
  BY <1>1, AtType DEF Slot, Position
<1>3. QED
  BY <1>2, Ushort DEF End, NextPos

\* free_space is an unsigned short, whatever rec_len and name_len hold.
LEMMA SlackType ==
    ASSUME NEW img \in Image, NEW p \in Position
    PROVE  Slack(img, p) \in Position
<1>1. At(img, p).rec_len \in Nat /\ EntryBytes(At(img, p).name) \in Nat
  BY AtType, EntryBytesType DEF Slot
<1> DEFINE n == At(img, p).rec_len + USHORT - EntryBytes(At(img, p).name)
<1>2. n \in Int
  BY <1>1, Ushort
<1>3. n % USHORT \in Position
  BY <1>2, Ushort
<1>4. QED
  BY <1>3 DEF Slack

\* The struct assignment of an entry leaves a block of slots.
LEMMA StoreType ==
    ASSUME NEW img \in Image, NEW s \in Slot
    PROVE  Store(img, s) \in Image
BY DEF Store, Image

\* search_in_block returns an inode number or 0.
LEMMA FindType ==
    ASSUME NEW img \in Image \cup {FileBytes}, NEW name
    PROVE  Find(img, name) \in 0..INODE_COUNT
<1>1. CASE img = FileBytes \/ Matches(img, name) = {}
  BY <1>1, SizesAssumption DEF Find
<1>2. CASE img # FileBytes /\ Matches(img, name) # {}
  <2>1. img \in Image /\ Matches(img, name) \subseteq Position
    BY <1>2, WalkType DEF Matches
  <2>2. Min(Matches(img, name)) \in Position
    BY <1>2, <2>1, MinOfNats DEF Position
  <2>3. QED
    BY <1>2, <2>1, <2>2, AtType DEF Find, Slot
<1>3. QED
  BY <1>1, <1>2

\* What an insertion leaves is a block of slots again (L447-L463).
LEMMA InsertType ==
    ASSUME NEW img \in Image, NEW inode \in 0..INODE_COUNT, NEW name \in AllNames
    PROVE  Insert(img, inode, name) \in Image
<1> DEFINE gaps == Gaps(img, name)
           host == At(img, Min(gaps))
           used == EntryBytes(host.name)
           short == [host EXCEPT !.rec_len = used % USHORT]
           kept == {s \in img : s.pos # host.pos} \cup {short}
           next == [pos |-> (host.pos + used) % USHORT, inode |-> inode,
                    rec_len |-> Slack(img, host.pos), name |-> name]
           last == [pos |-> End(img), inode |-> inode,
                    rec_len |-> EntryBytes(name) % USHORT, name |-> name]
<1>1. CASE gaps # {}
  <2>1. Min(gaps) \in Position
    <3>1. gaps \subseteq Position /\ gaps \subseteq Nat
      BY WalkType DEF Gaps, Position
    <3>2. QED
      BY <1>1, <3>1, MinOfNats
  <2>2. host \in Slot
    BY <2>1, AtType
  <2>3. host.pos \in Position /\ host.name \in AllNames /\ used \in Nat
    BY <2>2, EntryBytesType DEF Slot, Position
  <2>4. used % USHORT \in Position /\ (host.pos + used) % USHORT \in Position
    <3>1. used \in Int /\ host.pos + used \in Int
      BY <2>3 DEF Position
    <3>2. QED
      BY <3>1, Ushort
  <2>5. short \in Slot
    BY <2>2, <2>4 DEF Slot, Position
  <2>6. next \in Slot
    BY <2>3, <2>4, SlackType DEF Slot, Position
  <2>7. kept \in Image
    BY <2>5 DEF Image
  <2>8. Store(kept, next) \in Image
    BY <2>6, <2>7, StoreType
  <2>9. QED
    BY <1>1, <2>8 DEF Insert
<1>2. CASE gaps = {}
  <2>1. EntryBytes(name) % USHORT \in Position
    BY EntryBytesType, Ushort
  <2>2. last \in Slot
    BY <2>1, EndType DEF Slot, Position
  <2>3. Store(img, last) \in Image
    BY <2>2, StoreType
  <2>4. QED
    BY <1>2, <2>3 DEF Insert
<1>3. QED
  BY <1>1, <1>2

\* So is what a deletion leaves (L499-L503).
LEMMA DeleteType ==
    ASSUME NEW img \in Image, NEW name, Matches(img, name) # {}
    PROVE  Delete(img, name) \in Image
<1> DEFINE gone == At(img, Min(Matches(img, name)))
           pre  == At(img, Before(img, gone.pos))
           long == [pre EXCEPT !.rec_len = (@ + gone.rec_len) % USHORT]
<1>1. Min(Matches(img, name)) \in Position
  <2>1. Matches(img, name) \subseteq Position /\ Matches(img, name) \subseteq Nat
    BY WalkType DEF Matches, Position
  <2>2. QED
    BY <2>1, MinOfNats
<1>2. gone \in Slot
  BY <1>1, AtType
<1>3. gone.pos \in Position /\ gone.rec_len \in Position
  BY <1>2 DEF Slot, Position
<1>4. Before(img, gone.pos) \in Position
  <2>1. CASE gone.pos = 0
    BY <2>1, WalkType DEF Before
  <2>2. CASE gone.pos # 0
    <3> DEFINE S == {q \in Walk(img) : q < gone.pos}
    <3>1. 0 \in S
      BY <2>2, <1>3, WalkType DEF Position
    <3>2. S \subseteq Position
      BY WalkType
    <3> HIDE DEF S
    <3>3. Max(S) \in S
      <4>1. USHORT - 1 \in Nat
        BY Ushort
      <4>2. S \subseteq 0..(USHORT - 1) /\ S # {}
        BY <3>1, <3>2 DEF Position
      <4>3. QED
        BY <4>1, <4>2, MaxOfNats
    <3>4. QED
      BY <2>2, <3>2, <3>3 DEF Before, S
  <2>3. QED
    BY <2>1, <2>2
<1>5. pre \in Slot
  BY <1>4, AtType
<1>6. (pre.rec_len + gone.rec_len) % USHORT \in Position
  <2>1. pre.rec_len + gone.rec_len \in Int
    BY <1>3, <1>5 DEF Slot, Position
  <2>2. QED
    BY <2>1, Ushort
<1>7. long \in Slot
  BY <1>5, <1>6 DEF Slot, Position
<1>8. QED
  BY <1>7 DEF Delete, Image

\* The blocks new_dir_entry, mkdir and create write from scratch.
LEMMA NewBlockType ==
    ASSUME NEW i \in 0..INODE_COUNT, NEW j \in 0..INODE_COUNT, NEW name \in AllNames
    PROVE  DirImage(i, j) \in Image /\ FirstEntry(i, name) \in Image
<1>1. {0, 8, 9} \subseteq Position
  BY DEF Position, USHORT
<1>2. EntryBytes(name) % USHORT \in Position
  BY EntryBytesType, Ushort
<1>3. QED
  BY <1>1, <1>2 DEF DirImage, FirstEntry, Image, Slot, Position, AllNames

-----------------------------------------------------------------------------
(* Walking.                                                                 *)

\* The positions that hold an entry in use.
InUse(img) == {s.pos : s \in {x \in img : x.inode # 0}}

\* Position p follows one that is in W.
Follows(img, W, p) ==
    \/ p > 0 /\ NextPos(img, 0) = p
    \/ \E q \in InUse(img) : 0 < q /\ q < p /\ NextPos(img, q) = p /\ q \in W

\* The recursive function in Walk has a value: the positions reached from
\* byte 0 are the least set closed under Follows.
LEMMA WalkFollows ==
    ASSUME NEW img
    PROVE  \A p : p \in Walk(img) <=> p = 0 \/ (p \in InUse(img) /\ Follows(img, Walk(img) \ {0}, p))
<1> DEFINE U == InUse(img)
           Closed(S) == \A p \in U : Follows(img, S, p) => p \in S
           L == {p \in U : \A S \in SUBSET U : Closed(S) => p \in S}
           IsOn(f) == f = [p \in U |->
                             \/ p > 0 /\ NextPos(img, 0) = p
                             \/ \E q \in U : 0 < q /\ q < p /\ NextPos(img, q) = p /\ f[q]]
           on == CHOOSE f : IsOn(f)
<1>1. \A S, T, p : S \subseteq T /\ Follows(img, S, p) => Follows(img, T, p)
  BY Zenon DEF Follows
<1>2. \A p \in U : Follows(img, L, p) => p \in L
  <2>1. SUFFICES ASSUME NEW p \in U, Follows(img, L, p), NEW S \in SUBSET U, Closed(S)
                 PROVE  p \in S
    BY Zenon
  <2>2. L \subseteq S
    BY <2>1
  <2>3. QED
    BY <2>1, <2>2, <1>1
<1>3. \A p \in L : Follows(img, L, p)
  <2>1. SUFFICES ASSUME NEW p \in L, ~Follows(img, L, p) PROVE FALSE
    OBVIOUS
  <2>2. Closed(L \ {p})
    <3>1. SUFFICES ASSUME NEW r \in U, Follows(img, L \ {p}, r) PROVE r \in L \ {p}
      OBVIOUS
    <3>2. Follows(img, L, r)
      BY <3>1, <1>1
    <3>3. QED
      BY <3>2, <2>1, <1>2
  <2>3. L \ {p} \in SUBSET U
    OBVIOUS
  <2>4. QED
    BY <2>2, <2>3
<1> HIDE DEF L
<1>4. L \subseteq U
  BY DEF L
<1>5. IsOn([p \in U |-> p \in L])
  <2> DEFINE f == [p \in U |-> p \in L]
             g == [p \in U |-> \/ p > 0 /\ NextPos(img, 0) = p
                               \/ \E q \in U : 0 < q /\ q < p /\ NextPos(img, q) = p /\ f[q]]
  <2>1. ASSUME NEW p \in U
        PROVE  (p \in L) <=> \/ p > 0 /\ NextPos(img, 0) = p
                           \/ \E q \in U : 0 < q /\ q < p /\ NextPos(img, q) = p /\ f[q]
    <3>1. (p \in L) <=> Follows(img, L, p)
      BY <1>2, <1>3
    <3>2. \A q \in U : f[q] = (q \in L)
      OBVIOUS
    <3>3. QED
      BY <3>1, <3>2, Zenon DEF Follows
  <2>2. ASSUME NEW p \in U PROVE f[p] = g[p]
    <3> DEFINE B == \/ p > 0 /\ NextPos(img, 0) = p
                    \/ \E q \in U : 0 < q /\ q < p /\ NextPos(img, q) = p /\ f[q]
    <3>1. f[p] = (p \in L) /\ g[p] = B
      BY Zenon
    <3>2. (p \in L) <=> B
      BY <2>1
    <3>3. (p \in L) = B
      <4> HIDE DEF B
      <4>1. CASE p \in L
        BY <3>2, <4>1, Zenon
      <4>2. CASE p \notin L
        BY <3>2, <4>2, Zenon
      <4> QED BY <4>1, <4>2
    <3>4. QED
      BY <3>1, <3>3, Zenon
  <2>3. f = g
    BY <2>2, Zenon
  <2>4. QED
    BY <2>3, Zenon
<1>6. IsOn(on)
  BY <1>5, Zenon
<1>7. Walk(img) = {0} \cup {p \in U : on[p]}
  BY DEF Walk, InUse
<1> HIDE DEF on
<1>8. ASSUME NEW p \in U
      PROVE  on[p] = (\/ p > 0 /\ NextPos(img, 0) = p
                      \/ \E q \in U : 0 < q /\ q < p /\ NextPos(img, q) = p /\ on[q])
  BY <1>6, Zenon
<1>9. ASSUME NEW p \in U, p # 0 PROVE p \in Walk(img) <=> Follows(img, Walk(img) \ {0}, p)
  <2>1. p \in Walk(img) <=> on[p]
    BY <1>7, <1>9, Zenon
  <2>2. \A q \in U : 0 < q => (on[q] <=> q \in Walk(img) \ {0})
    BY <1>7
  <2>3. QED
    BY <2>1, <2>2, <1>8 DEF Follows
<1>10. QED
  BY <1>7, <1>9

\* A set that is closed like a walk, and grounded like one, is the walk.
LEMMA WalkUnique ==
    ASSUME NEW img \in Image, NEW W \in SUBSET Position, 0 \in W,
           \A p \in Position \ {0} : p \in W <=> p \in InUse(img) /\ Follows(img, W \ {0}, p)
    PROVE  Walk(img) = W
<1> DEFINE V == Walk(img)
           D == {p \in Position : ~ (p \in W <=> p \in V)}
<1>1. 0 \in V /\ V \subseteq Position
  BY WalkType
<1>2. \A p : p \in V <=> p = 0 \/ (p \in InUse(img) /\ Follows(img, V \ {0}, p))
  BY WalkFollows
<1> HIDE DEF V
<1>3. SUFFICES ASSUME D # {} PROVE FALSE
  <2>1. ASSUME D = {} PROVE V = W
    BY <1>1, <2>1
  <2>2. QED
    BY <2>1 DEF V
<1>4. PICK m \in D : \A y \in D : m <= y
  <2>1. D \subseteq Nat
    BY DEF Position
  <2>2. QED
    BY <2>1, <1>3, MinOfNats
<1>5. m \in Position /\ m # 0 /\ ~ (m \in W <=> m \in V)
  BY <1>1, <1>4
<1>6. \A q \in InUse(img) : 0 < q /\ q < m => (q \in W \ {0} <=> q \in V \ {0})
  <2>1. \A q \in InUse(img) : q \in Position
    BY DEF InUse, Image, Slot, Position
  <2>2. \A q \in Position : q < m => q \notin D
    BY <1>4, <1>5 DEF Position
  <2>3. QED
    BY <2>1, <2>2
<1>7. Follows(img, W \ {0}, m) <=> Follows(img, V \ {0}, m)
  BY <1>6 DEF Follows
<1>8. QED
  BY <1>2, <1>5, <1>7

-----------------------------------------------------------------------------
(* Blocks in order.                                                         *)

\* Where the entry at p ends.
Ends(img, p) == p + At(img, p).rec_len

\* Slot s lies behind the name of the entry at p, and within what it takes.
InSlack(img, p, s) ==
    /\ p + EntryBytes(At(img, p).name) <= s.pos
    /\ s.pos + EntryBytes(s.name) <= Ends(img, p)

\* The entries at W tile the block from byte 0 up to byte e.  What is left of
\* deleted entries lies within those that took their place, or behind the end
\* where an insertion has cut the walk short.
Tiling(img, W, e) ==
    /\ \A s, t \in img : s.pos = t.pos => s = t
    /\ 0 \in W /\ e <= BLOCK_SIZE
    /\ \A p \in W : /\ p \in InUse(img)
                    /\ EntryBytes(At(img, p).name) <= At(img, p).rec_len
                    /\ Ends(img, p) <= e
                    /\ Ends(img, p) \in W \/ Ends(img, p) = e
                    /\ p # 0 => \E q \in W : Ends(img, q) = p
    /\ \A s \in img : \/ s.pos \in W
                      \/ \E p \in W : InSlack(img, p, s)
                      \/ e + 2 <= s.pos

\* A block in order: what a walk visits tiles it up to where the walk ends.
Tiled(img) == Tiling(img, Walk(img), End(img))

\* The bytes of an entry, name included.
LEMMA EntryBytesBounds ==
    ASSUME NEW name \in AllNames
    PROVE  /\ EntryBytes(name) \in Nat /\ 7 <= EntryBytes(name)
           /\ EntryBytes(name) + 2 <= DIR_ENTRY_BYTES /\ EntryBytes(name) < BLOCK_SIZE
BY LengthsAssumption, LayoutAssumption, SizesAssumption DEF EntryBytes

\* A block is shorter than what an unsigned short counts.
LEMMA BlockBound ==
    /\ BLOCK_SIZE \in Nat /\ 17 < BLOCK_SIZE /\ 2 * BLOCK_SIZE <= USHORT /\ BLOCK_SIZE < USHORT
    /\ \A n \in 0..BLOCK_SIZE : n % USHORT = n
<1>1. BLOCK_SIZE \in Nat /\ 17 < BLOCK_SIZE /\ 2 * BLOCK_SIZE <= USHORT /\ BLOCK_SIZE < USHORT
  BY SizesAssumption, LayoutAssumption, Ushort
<1>2. QED
  BY <1>1 DEF USHORT

\* A slot is what the program reads at its position.
LEMMA AtSlot ==
    ASSUME NEW img, \A s, t \in img : s.pos = t.pos => s = t, NEW s \in img
    PROVE  At(img, s.pos) = s
BY DEF At

\* The entries of a block in order.
LEMMA TilingEntry ==
    ASSUME NEW img \in Image, NEW W, NEW e \in Nat, Tiling(img, W, e), NEW p \in W
    PROVE  /\ p \in Nat /\ p \in Position /\ At(img, p) \in img /\ At(img, p).pos = p
           /\ At(img, p).inode # 0 /\ At(img, p).inode \in 0..INODE_COUNT
           /\ At(img, p).name \in AllNames
           /\ At(img, p).rec_len \in Nat /\ At(img, p).rec_len < USHORT
           /\ EntryBytes(At(img, p).name) \in Nat /\ 7 <= EntryBytes(At(img, p).name)
           /\ EntryBytes(At(img, p).name) <= At(img, p).rec_len
           /\ Ends(img, p) \in Nat /\ p + 7 <= Ends(img, p) /\ Ends(img, p) <= e
           /\ p + EntryBytes(At(img, p).name) <= Ends(img, p)
           /\ NextPos(img, p) = Ends(img, p)
<1>1. PICK s \in img : s.pos = p /\ s.inode # 0
  BY DEF Tiling, InUse
<1>2. At(img, p) = s
  BY <1>1, AtSlot DEF Tiling
<1>3. /\ p \in Nat /\ p \in Position /\ s.name \in AllNames /\ s.inode \in 0..INODE_COUNT
      /\ s.rec_len \in Nat /\ s.rec_len < USHORT
  BY <1>1, Ushort DEF Image, Slot, Position
<1>4. EntryBytes(s.name) \in Nat /\ 7 <= EntryBytes(s.name) /\ EntryBytes(s.name) <= s.rec_len
  BY <1>2, <1>3, EntryBytesBounds DEF Tiling
<1>5. p + s.rec_len <= e /\ e <= BLOCK_SIZE
  BY <1>2 DEF Tiling, Ends
<1>6. (p + s.rec_len) % USHORT = p + s.rec_len
  BY <1>3, <1>5, BlockBound
<1>7. QED
  BY <1>1, <1>2, <1>3, <1>4, <1>5, <1>6 DEF Ends, NextPos

\* No slot is in use where the entries end.
LEMMA TilingSlot ==
    ASSUME NEW img \in Image, NEW W, NEW e \in Nat, Tiling(img, W, e), NEW s \in img
    PROVE  /\ s.pos \in Nat /\ EntryBytes(s.name) \in Nat /\ 7 <= EntryBytes(s.name)
           /\ s.pos + EntryBytes(s.name) <= e \/ e + 2 <= s.pos
<1>1. s.pos \in Nat /\ EntryBytes(s.name) \in Nat /\ 7 <= EntryBytes(s.name)
  BY EntryBytesBounds, Ushort DEF Image, Slot, Position
<1>2. CASE s.pos \in W
  <2>1. At(img, s.pos) = s
    BY AtSlot DEF Tiling
  <2>2. QED
    BY <1>1, <1>2, <2>1, TilingEntry
<1>3. CASE \E p \in W : InSlack(img, p, s)
  BY <1>1, <1>3, TilingEntry DEF InSlack
<1>4. CASE e + 2 <= s.pos
  BY <1>1, <1>4
<1>5. QED
  BY <1>2, <1>3, <1>4 DEF Tiling

\* The entries that tile a block are those a walk visits, and it ends where
\* they end.
LEMMA TilingWalk ==
    ASSUME NEW img \in Image, NEW W, NEW e \in Nat, Tiling(img, W, e)
    PROVE  Walk(img) = W /\ End(img) = e /\ Tiled(img) /\ e \notin W /\ W \subseteq Position
<1>1. \A p \in W : /\ p \in Nat /\ p \in Position /\ p \in InUse(img)
                   /\ Ends(img, p) \in Nat /\ p + 7 <= Ends(img, p) /\ Ends(img, p) <= e
                   /\ NextPos(img, p) = Ends(img, p)
                   /\ Ends(img, p) \in W \/ Ends(img, p) = e
                   /\ p # 0 => \E q \in W : Ends(img, q) = p
  BY TilingEntry DEF Tiling
<1>2. e \notin W /\ W \subseteq Position /\ 0 \in W
  BY <1>1 DEF Tiling
<1>3. e \notin InUse(img)
  BY TilingSlot DEF InUse
<1>4. Walk(img) = W
  <2>1. ASSUME NEW p \in Position \ {0}, p \in W PROVE Follows(img, W \ {0}, p)
    BY <1>1, <1>2, <2>1 DEF Follows
  <2>2. ASSUME NEW p \in Position \ {0}, p \in InUse(img), Follows(img, W \ {0}, p) PROVE p \in W
    BY <1>1, <1>2, <1>3, <2>2 DEF Follows
  <2>3. QED
    BY <1>1, <1>2, <2>1, <2>2, WalkUnique
<1>5. End(img) = e
  <2> DEFINE m == Max(W)
  <2>1. m \in W /\ \A y \in W : m >= y
    <3>1. USHORT - 1 \in Nat /\ W \subseteq 0..(USHORT - 1) /\ W # {}
      BY <1>2, Ushort DEF Position
    <3>2. QED
      BY <3>1, MaxOfNats
  <2> HIDE DEF m
  <2>2. Ends(img, m) = e
    BY <1>1, <2>1
  <2>3. QED
    BY <1>1, <1>4, <2>1, <2>2 DEF End, m
<1>6. QED
  BY <1>2, <1>4, <1>5 DEF Tiled

\* No entry begins within another.
LEMMA TilingApart ==
    ASSUME NEW img \in Image, NEW W, NEW e \in Nat, Tiling(img, W, e),
           NEW p \in W, NEW q \in W, p < q
    PROVE  Ends(img, p) <= q
<1> DEFINE D == {y \in W : \E x \in W : x < y /\ y < Ends(img, x)}
<1>1. \A x \in W : x \in Nat /\ Ends(img, x) \in Nat
  BY TilingEntry
<1>2. SUFFICES ASSUME D # {} PROVE FALSE
  BY <1>1
<1>3. PICK y \in D : \A z \in D : y <= z
  <2>1. D \subseteq Nat
    BY <1>1
  <2>2. QED
    BY <2>1, <1>2, MinOfNats
<1>4. PICK x \in W : x < y /\ y < Ends(img, x)
  BY <1>3
<1>5. y \in W /\ y # 0
  BY <1>1, <1>3, <1>4
<1>6. PICK z \in W : z < y /\ Ends(img, z) = y
  BY <1>5, TilingEntry DEF Tiling
<1>7. CASE z < x
  <2>1. x \in D
    BY <1>4, <1>6, <1>7
  <2>2. QED
    BY <2>1, <1>1, <1>3, <1>4, <1>5
<1>8. CASE z = x
  BY <1>1, <1>4, <1>5, <1>6, <1>8
<1>9. CASE x < z
  <2>1. z \in D
    BY <1>1, <1>4, <1>5, <1>6, <1>9
  <2>2. QED
    BY <2>1, <1>1, <1>3, <1>5, <1>6
<1>10. QED
  BY <1>1, <1>7, <1>8, <1>9

\* A walk over a block in order comes to an end (L442, L475, L498).
LEMMA TiledTerminates ==
    ASSUME NEW img \in Image, NEW W, NEW e \in Nat, Tiling(img, W, e)
    PROVE  Terminates(img)
<1>1. \A s \in img : /\ s.pos \in Nat /\ EntryBytes(s.name) \in Nat /\ 7 <= EntryBytes(s.name)
                     /\ s.pos + EntryBytes(s.name) <= e \/ e + 2 <= s.pos
  BY TilingSlot
<1>2. At(img, e).inode = 0
  <2>1. \A s \in img : s.pos # e
    BY <1>1
  <2>2. QED
    BY <2>1 DEF At
<1>3. ~InsideEntry(img, e)
  <2>1. ASSUME NEW s \in img PROVE ~ (e + 1 \in s.pos..(s.pos + 6 + NameLen[s.name]))
    <3>1. NameLen[s.name] \in Nat /\ EntryBytes(s.name) = 7 + NameLen[s.name]
      BY LengthsAssumption DEF EntryBytes, Image, Slot
    <3>2. QED
      BY <1>1, <3>1
  <2>2. QED
    BY <2>1 DEF InsideEntry
<1>4. e + 1 < 2 * BLOCK_SIZE
  BY BlockBound DEF Tiling
<1>5. img # FileBytes
  BY ContentAssumption
<1>6. End(img) = e
  BY TilingWalk
<1>7. QED
  BY <1>2, <1>3, <1>4, <1>5, <1>6 DEF Terminates

-----------------------------------------------------------------------------
(* Inserting.                                                               *)

\* What the operations leave alone at p.
SameEntry(img, new, p) ==
    At(new, p).inode = At(img, p).inode /\ At(new, p).name = At(img, p).name

\* In a block in order, what an entry takes past its own name.
LEMMA TilingSlack ==
    ASSUME NEW img \in Image, NEW W, NEW e \in Nat, Tiling(img, W, e), NEW p \in W
    PROVE  Slack(img, p) = At(img, p).rec_len - EntryBytes(At(img, p).name)
<1> DEFINE k == At(img, p).rec_len
           u == EntryBytes(At(img, p).name)
<1>1. k \in Nat /\ u \in Nat /\ 7 <= u /\ u <= k /\ k < USHORT
  BY TilingEntry
<1> HIDE DEF k, u
<1>2. (k + USHORT - u) % USHORT = k - u
  BY <1>1 DEF USHORT
<1>3. QED
  BY <1>2 DEF Slack, k, u

\* The first gap that is large enough, as Insert uses it.
LEMMA GapFacts ==
    ASSUME NEW img \in Image, NEW W, NEW e \in Nat, Tiling(img, W, e),
           NEW name \in AllNames, Gaps(img, name) # {},
           NEW g, g = Min(Gaps(img, name))
    PROVE  /\ g \in W
           /\ Slack(img, g) = At(img, g).rec_len - EntryBytes(At(img, g).name)
           /\ EntryBytes(name) <= Slack(img, g)
           /\ (g + EntryBytes(At(img, g).name)) % USHORT = g + EntryBytes(At(img, g).name)
           /\ EntryBytes(At(img, g).name) % USHORT = EntryBytes(At(img, g).name)
<1>1. Gaps(img, name) \subseteq W /\ W \subseteq Position
  BY TilingWalk DEF Gaps
<1>2. g \in Gaps(img, name)
  <2>1. Gaps(img, name) \subseteq Nat
    BY <1>1, TilingEntry
  <2>2. QED
    BY <2>1, MinOfNats
<1>3. g \in W /\ EntryBytes(name) <= Slack(img, g)
  BY <1>1, <1>2 DEF Gaps
<1>4. /\ g \in Nat /\ EntryBytes(At(img, g).name) \in Nat
      /\ g + EntryBytes(At(img, g).name) <= e /\ e <= BLOCK_SIZE
  BY <1>3, TilingEntry DEF Tiling
<1>5. QED
  BY <1>3, <1>4, TilingSlack, BlockBound

\* Whose gap it is, and where the new entry goes.
GapHost(img, name) == Min(Gaps(img, name))
GapPos(img, name) == GapHost(img, name) + EntryBytes(At(img, GapHost(img, name)).name)

\* The new entry, at n, fills the gap of the entry at g.  The walk goes on
\* behind it, unless the struct assignment wiped out what comes next.
GapFilled(img, W, e, inode, name, new, g, n) ==
    /\ g \in W /\ n \notin W /\ n \in Nat
    /\ At(new, n).inode = inode /\ At(new, n).name = name
    /\ SameEntry(img, new, g)
    /\ Ends(img, g) < n + DIR_ENTRY_BYTES =>
         /\ Tiling(new, {p \in W : p <= g} \cup {n}, Ends(img, g))
         /\ \A p \in W : p < g => At(new, p) = At(img, p)
    /\ ~ (Ends(img, g) < n + DIR_ENTRY_BYTES) =>
         /\ Tiling(new, W \cup {n}, e)
         /\ \A p \in W \ {g} : At(new, p) = At(img, p)

\* The new entry fills the first gap that is large enough.
LEMMA InsertInGap ==
    ASSUME NEW img \in Image, NEW W, NEW e \in Nat, Tiling(img, W, e),
           NEW inode \in 1..INODE_COUNT, NEW name \in AllNames, Gaps(img, name) # {},
           NEW new, new = Insert(img, inode, name)
    PROVE  GapFilled(img, W, e, inode, name, new, GapHost(img, name), GapPos(img, name))
<1> SUFFICES ASSUME NEW g, g = Min(Gaps(img, name)),
                    NEW n, n = g + EntryBytes(At(img, g).name)
             PROVE  GapFilled(img, W, e, inode, name, new, g, n)
  BY DEF GapHost, GapPos
<1> DEFINE host == At(img, g)
           used == EntryBytes(host.name)
           room == EntryBytes(name)
           f == Ends(img, g)
           slot == [pos |-> n, inode |-> inode, rec_len |-> Slack(img, g), name |-> name]
           short == [host EXCEPT !.rec_len = used]
<1>1. /\ g \in W /\ EntryBytes(name) <= Slack(img, g)
      /\ Slack(img, g) = host.rec_len - used
      /\ (g + used) % USHORT = n /\ used % USHORT = used
  BY GapFacts
<1>2. /\ g \in Nat /\ host \in img /\ host.pos = g /\ host.inode # 0
      /\ host.name \in AllNames
      /\ host.rec_len \in Nat /\ used \in Nat /\ 7 <= used /\ used <= host.rec_len
      /\ f \in Nat /\ f <= e /\ f = g + host.rec_len
  BY <1>1, TilingEntry DEF Ends
<1>3. room \in Nat /\ 7 <= room /\ room + 2 <= DIR_ENTRY_BYTES /\ DIR_ENTRY_BYTES \in Nat
  BY EntryBytesBounds, SizesAssumption
<1>4. n \in Nat /\ g + 7 <= n /\ n + room <= f /\ f = n + slot.rec_len /\ slot.rec_len \in Nat
  BY <1>1, <1>2, <1>3
<1>5. /\ slot.pos = n /\ slot.inode = inode /\ slot.name = name
      /\ short.pos = g /\ short.inode = host.inode /\ short.name = host.name
      /\ short.rec_len = used
  BY <1>2 DEF Image, Slot
<1>6. host.pos = g
  BY <1>2
<1>7. new = {s \in {x \in img : x.pos # g} \cup {short} :
                s.pos \notin n..(n + DIR_ENTRY_BYTES - 1)} \cup {slot}
  BY <1>1, <1>6 DEF Insert, Store
<1> HIDE DEF slot, short, host, used, room, f
<1>8. /\ slot \in new /\ short \in new
      /\ \A s \in img : s.pos # g /\ (s.pos < n \/ n + DIR_ENTRY_BYTES <= s.pos) => s \in new
      /\ \A s \in new : \/ s = slot \/ s = short
                        \/ s \in img /\ s.pos # g /\ (s.pos < n \/ n + DIR_ENTRY_BYTES <= s.pos)
  <2>1. \A s \in img : s.pos \in Nat
    BY TilingSlot
  <2>2. n + DIR_ENTRY_BYTES - 1 \in Nat /\ g < n /\ g \in Nat /\ n \in Nat
    BY <1>2, <1>3, <1>4
  <2>3. short \in new /\ slot \in new
    BY <1>5, <1>7, <2>2
  <2>4. ASSUME NEW s \in img, s.pos # g, s.pos < n \/ n + DIR_ENTRY_BYTES <= s.pos
        PROVE  s \in new
    BY <1>3, <1>7, <2>1, <2>2, <2>4
  <2>5. ASSUME NEW s \in new, s # slot, s # short
        PROVE  s \in img /\ s.pos # g /\ (s.pos < n \/ n + DIR_ENTRY_BYTES <= s.pos)
    BY <1>3, <1>7, <2>1, <2>2, <2>5
  <2>6. QED
    BY <2>3, <2>4, <2>5
<1>9. \A s, t \in new : s.pos = t.pos => s = t
  <2>1. \A s, t \in img : s.pos = t.pos => s = t
    BY DEF Tiling
  <2>2. QED
    BY <2>1, <1>3, <1>4, <1>5, <1>8, <1>2
<1>10. At(new, n) = slot /\ At(new, g) = short
  BY <1>5, <1>8, <1>9, AtSlot
<1>11. \A p \in W : p < g \/ (g < p /\ n + DIR_ENTRY_BYTES <= p) => At(new, p) = At(img, p)
  <2>1. TAKE p \in W
  <2>2. HAVE p < g \/ (g < p /\ n + DIR_ENTRY_BYTES <= p)
  <2>3. At(img, p) \in img /\ At(img, p).pos = p /\ p \in Nat
    BY TilingEntry
  <2>4. At(img, p) \in new
    BY <1>2, <1>4, <1>8, <2>2, <2>3
  <2>5. QED
    BY <2>3, <2>4, <1>9, AtSlot
<1>12. \A p \in W : g < p => f <= p
  BY <1>1, TilingApart DEF f
<1>13. \A p \in W : p < g => Ends(img, p) <= g
  BY <1>1, TilingApart
<1>14. n \notin W
  BY <1>2, <1>3, <1>4, <1>12
<1>15. \A p \in W : /\ p \in Nat /\ At(img, p).inode # 0 /\ At(img, p) \in img
                    /\ At(img, p).pos = p
                    /\ Ends(img, p) \in Nat /\ Ends(img, p) <= e /\ p + 7 <= Ends(img, p)
                    /\ EntryBytes(At(img, p).name) <= At(img, p).rec_len
                    /\ EntryBytes(At(img, p).name) \in Nat /\ 7 <= EntryBytes(At(img, p).name)
                    /\ Ends(img, p) \in W \/ Ends(img, p) = e
                    /\ p # 0 => \E q \in W : Ends(img, q) = p
  BY TilingEntry DEF Tiling
<1>16. Ends(new, n) = f /\ Ends(new, g) = n
  <2>1. n = g + used
    BY DEF used, host
  <2>2. QED
    BY <2>1, <1>4, <1>5, <1>10 DEF Ends
<1>17. ASSUME NEW p, At(new, p) = At(img, p)
       PROVE  Ends(new, p) = Ends(img, p)
  BY <1>17 DEF Ends
<1>18. \A s \in img : /\ s.pos \in Nat /\ EntryBytes(s.name) \in Nat /\ 7 <= EntryBytes(s.name)
                      /\ \/ s.pos \in W
                         \/ \E p \in W : InSlack(img, p, s)
                         \/ e + 2 <= s.pos
  BY TilingSlot DEF Tiling
<1>19. n \in InUse(new) /\ g \in InUse(new)
  <2>1. slot.inode # 0 /\ short.inode # 0
    BY <1>2, <1>5
  <2>2. QED
    BY <2>1, <1>5, <1>8 DEF InUse
<1>20. CASE f < n + DIR_ENTRY_BYTES
  <2> DEFINE V == {p \in W : p <= g} \cup {n}
  <2>1. \A p \in W : p < g => At(new, p) = At(img, p) /\ Ends(new, p) = Ends(img, p)
    BY <1>11, <1>17
  <2>2. ASSUME NEW p \in V
        PROVE  /\ p \in InUse(new)
               /\ EntryBytes(At(new, p).name) <= At(new, p).rec_len
               /\ Ends(new, p) <= f
               /\ Ends(new, p) \in V \/ Ends(new, p) = f
               /\ p # 0 => \E q \in V : Ends(new, q) = p
    <3>1. CASE p = n
      BY <3>1, <1>1, <1>2, <1>3, <1>4, <1>5, <1>10, <1>16, <1>19 DEF room
    <3>2. CASE p = g
      <4>1. g # 0 => \E q \in V : Ends(new, q) = g
        <5>1. SUFFICES ASSUME g # 0 PROVE \E q \in V : Ends(new, q) = g
          OBVIOUS
        <5>2. PICK q \in W : Ends(img, q) = g
          BY <1>1, <1>15, <5>1
        <5>3. q < g
          BY <1>15, <5>2, <1>1, <1>2
        <5>4. QED
          BY <2>1, <5>2, <5>3, <1>15, <1>2
      <4>2. QED
        <5>1. EntryBytes(At(new, g).name) <= At(new, g).rec_len
          BY <1>2, <1>5, <1>10 DEF used
        <5>2. Ends(new, g) <= f /\ Ends(new, g) \in V
          BY <1>2, <1>3, <1>4, <1>16
        <5>3. QED
          <6> HIDE DEF V
          <6> QED
            BY <3>2, <4>1, <5>1, <5>2, <1>19
    <3>3. CASE p \in W /\ p < g
      <4>1. At(new, p) = At(img, p) /\ Ends(new, p) = Ends(img, p) /\ Ends(img, p) <= g
        BY <2>1, <3>3, <1>13
      <4>2. p \in InUse(new)
        <5>1. At(img, p) \in new
          <6>1. At(img, p) \in img /\ At(img, p).pos = p /\ p # g /\ p < n
            BY <1>2, <1>4, <1>15, <3>3
          <6>2. QED
            BY <6>1, <1>8
        <5>2. QED
          BY <5>1, <1>15, <3>3 DEF InUse
      <4>3. Ends(img, p) \in V
        BY <1>15, <1>2, <3>3, <4>1
      <4>4. p # 0 => \E q \in V : Ends(new, q) = p
        <5>1. SUFFICES ASSUME p # 0 PROVE \E q \in V : Ends(new, q) = p
          OBVIOUS
        <5>2. PICK q \in W : Ends(img, q) = p
          BY <1>15, <3>3, <5>1
        <5>3. q < g
          BY <1>15, <5>2, <3>3, <1>2
        <5>4. QED
          BY <2>1, <5>2, <5>3, <1>15, <1>2
      <4>5. QED
        BY <4>1, <4>2, <4>3, <4>4, <1>15, <1>2, <1>4, <1>3, <3>3
    <3>4. QED
      BY <3>1, <3>2, <3>3, <1>15, <1>2
  <2>3. ASSUME NEW s \in new
        PROVE  s.pos \in V \/ (\E p \in V : InSlack(new, p, s)) \/ f + 2 <= s.pos
    <3>1. CASE s = slot \/ s = short
      BY <3>1, <1>1, <1>2, <1>5
    <3>2. CASE s \in img /\ s.pos # g /\ (s.pos < n \/ n + DIR_ENTRY_BYTES <= s.pos)
      <4>1. CASE s.pos \in W
        <5>1. CASE s.pos <= g
          BY <4>1, <5>1
        <5>2. CASE g < s.pos
          <6>1. f <= s.pos /\ f < s.pos
            BY <1>12, <4>1, <5>2, <3>2, <1>20, <1>3, <1>4, <1>18
          <6>2. f \in W
            <7>1. f \in W \/ f = e
              BY <1>1, <1>15 DEF f
            <7>2. s.pos + 7 <= e /\ s.pos \in Nat
              <8>1. \A p \in W : p \in Nat /\ p + 7 <= e
                BY <1>15
              <8>2. QED
                BY <4>1, <8>1
            <7>3. QED
              BY <7>1, <7>2, <6>1
          <6>3. Ends(img, f) <= s.pos
            BY <4>1, <6>1, <6>2, TilingApart
          <6>4. QED
            BY <3>2, <6>2, <6>3, <1>15, <1>18
        <5>3. QED
          BY <3>2, <5>1, <5>2, <1>18, <1>2
      <4>2. CASE \E p \in W : InSlack(img, p, s)
        <5>1. PICK p \in W : InSlack(img, p, s)
          BY <4>2
        <5>2. CASE p < g
          <6>1. p \in V /\ InSlack(new, p, s)
            BY <2>1, <5>1, <5>2, <1>15, <1>2 DEF InSlack
          <6>2. QED
            BY <6>1
        <5>3. CASE p = g
          BY <5>1, <5>3, <3>2, <1>18, <1>20, <1>2, <1>3, <1>4 DEF InSlack, f, used, host
        <5>4. CASE g < p
          BY <5>1, <5>4, <1>12, <1>15, <1>18, <1>2, <3>2 DEF InSlack
        <5>5. QED
          BY <5>2, <5>3, <5>4, <1>15, <1>2
      <4>3. CASE e + 2 <= s.pos
        BY <3>2, <4>3, <1>2, <1>18
      <4>4. QED
        BY <3>2, <4>1, <4>2, <4>3, <1>18
    <3>3. QED
      BY <1>8, <3>1, <3>2
  <2>4. 0 \in V /\ f <= BLOCK_SIZE
    BY <1>2, BlockBound DEF Tiling
  <2>5. Tiling(new, V, f)
    <3> HIDE DEF V
    <3> QED
      BY <1>9, <2>2, <2>3, <2>4 DEF Tiling
  <2>6. QED
    BY <1>1, <1>4, <1>5, <1>10, <1>14, <1>20, <2>1, <2>5 DEF f, host, SameEntry, GapFilled
<1>21. CASE ~ (f < n + DIR_ENTRY_BYTES)
  <2> DEFINE V == W \cup {n}
  <2>1. \A p \in W \ {g} : At(new, p) = At(img, p) /\ Ends(new, p) = Ends(img, p)
    <3>1. ASSUME NEW p \in W \ {g} PROVE p < g \/ (g < p /\ n + DIR_ENTRY_BYTES <= p)
      <4>1. p \in Nat /\ n + DIR_ENTRY_BYTES <= f
        BY <1>2, <1>3, <1>4, <1>15, <1>21
      <4>2. QED
        BY <4>1, <1>2, <1>3, <1>4, <1>12
    <3>2. QED
      BY <3>1, <1>11, <1>17
  <2>2. ASSUME NEW p \in V
        PROVE  /\ p \in InUse(new)
               /\ EntryBytes(At(new, p).name) <= At(new, p).rec_len
               /\ Ends(new, p) <= e
               /\ Ends(new, p) \in V \/ Ends(new, p) = e
               /\ p # 0 => \E q \in V : Ends(new, q) = p
    <3>1. CASE p = n
      <4>1. f \in W \/ f = e
        BY <1>1, <1>15 DEF f
      <4>2. QED
        BY <3>1, <4>1, <1>1, <1>2, <1>3, <1>4, <1>5, <1>10, <1>16, <1>19 DEF room
    <3>2. CASE p = g
      <4>1. g # 0 => \E q \in V : Ends(new, q) = g
        BY <1>1, <1>2, <1>15, <2>1
      <4>2. EntryBytes(At(new, g).name) <= At(new, g).rec_len
        BY <1>2, <1>5, <1>10 DEF used
      <4>3. Ends(new, g) <= e /\ Ends(new, g) \in V
        BY <1>2, <1>3, <1>4, <1>16
      <4>4. QED
        BY <3>2, <4>1, <4>2, <4>3, <1>19
    <3>3. CASE p \in W \ {g}
      <4>1. p \in InUse(new)
        BY <1>2, <1>3, <1>4, <1>8, <1>12, <1>15, <1>21, <3>3 DEF InUse
      <4>2. p # 0 => \E q \in V : Ends(new, q) = p
        <5>1. SUFFICES ASSUME p # 0 PROVE \E q \in V : Ends(new, q) = p
          OBVIOUS
        <5>2. PICK q \in W : Ends(img, q) = p
          BY <1>15, <3>3, <5>1
        <5>3. CASE q = g
          BY <5>2, <5>3, <1>16 DEF f
        <5>4. CASE q # g
          BY <5>2, <5>4, <2>1
        <5>5. QED
          BY <5>3, <5>4
      <4>3. QED
        BY <4>1, <4>2, <1>15, <2>1, <3>3
    <3>4. QED
      BY <3>1, <3>2, <3>3
  <2>3. ASSUME NEW s \in new
        PROVE  s.pos \in V \/ (\E p \in V : InSlack(new, p, s)) \/ e + 2 <= s.pos
    <3>1. CASE s = slot \/ s = short
      BY <3>1, <1>1, <1>2, <1>5
    <3>2. CASE s \in img /\ s.pos # g /\ (s.pos < n \/ n + DIR_ENTRY_BYTES <= s.pos)
      <4>1. CASE \E p \in W : InSlack(img, p, s)
        <5>1. PICK p \in W : InSlack(img, p, s)
          BY <4>1
        <5>2. CASE p # g
          BY <2>1, <5>1, <5>2 DEF InSlack
        <5>3. CASE p = g
          <6>1. n <= s.pos /\ s.pos + EntryBytes(s.name) <= f
            BY <5>1, <5>3 DEF InSlack, f, host
          <6>2. InSlack(new, n, s)
            BY <6>1, <3>2, <1>3, <1>4, <1>5, <1>10, <1>16, <1>18 DEF InSlack, room
          <6>3. QED
            BY <6>2
        <5>4. QED
          BY <5>2, <5>3
      <4>2. QED
        BY <3>2, <4>1, <1>18
    <3>3. QED
      BY <1>8, <3>1, <3>2
  <2>4. 0 \in V /\ e <= BLOCK_SIZE
    BY DEF Tiling
  <2>5. Tiling(new, V, e)
    <3> HIDE DEF V
    <3> QED
      BY <1>9, <2>2, <2>3, <2>4 DEF Tiling
  <2>6. QED
    BY <1>1, <1>4, <1>5, <1>10, <1>14, <1>21, <2>1, <2>5 DEF f, host, SameEntry, GapFilled
<1>22. QED
  BY <1>20, <1>21

\* The new entry goes behind the last one.
LEMMA InsertAtEnd ==
    ASSUME NEW img \in Image, NEW W, NEW e \in Nat, Tiling(img, W, e),
           NEW inode \in 1..INODE_COUNT, NEW name \in AllNames, Gaps(img, name) = {},
           e + EntryBytes(name) < BLOCK_SIZE,
           NEW new, new = Insert(img, inode, name)
    PROVE  /\ e \notin W
           /\ At(new, e).inode = inode /\ At(new, e).name = name
           /\ \A p \in W : At(new, p) = At(img, p)
           /\ Tiling(new, W \cup {e}, e + EntryBytes(name))
<1> DEFINE room == EntryBytes(name)
           f == e + room
           V == W \cup {e}
           slot == [pos |-> e, inode |-> inode, rec_len |-> room, name |-> name]
<1>1. /\ room \in Nat /\ 7 <= room /\ room + 2 <= DIR_ENTRY_BYTES /\ DIR_ENTRY_BYTES \in Nat
      /\ f \in Nat /\ f < BLOCK_SIZE /\ BLOCK_SIZE \in Nat /\ room % USHORT = room
  <2>1. /\ room \in Nat /\ 7 <= room /\ room + 2 <= DIR_ENTRY_BYTES /\ DIR_ENTRY_BYTES \in Nat
        /\ room < BLOCK_SIZE
    BY EntryBytesBounds, SizesAssumption
  <2>2. QED
    BY <2>1, BlockBound
<1>2. End(img) = e /\ e \notin W
  BY TilingWalk
<1>3. /\ slot.pos = e /\ slot.inode = inode /\ slot.name = name /\ slot.rec_len = room
      /\ f = e + slot.rec_len
  OBVIOUS
<1>4. new = {s \in img : s.pos \notin e..(e + DIR_ENTRY_BYTES - 1)} \cup {slot}
  BY <1>1, <1>2 DEF Insert, Store
<1> HIDE DEF slot, room, f
<1>5. \A s \in img : /\ s.pos \in Nat /\ EntryBytes(s.name) \in Nat /\ 7 <= EntryBytes(s.name)
                     /\ s.pos + EntryBytes(s.name) <= e \/ e + 2 <= s.pos
                     /\ \/ s.pos \in W
                        \/ \E p \in W : InSlack(img, p, s)
                        \/ e + 2 <= s.pos
  BY TilingSlot DEF Tiling
<1>6. /\ slot \in new
      /\ \A s \in img : s.pos < e => s \in new
      /\ \A s \in new : s = slot \/ (s \in img /\ (s.pos < e \/ e + DIR_ENTRY_BYTES <= s.pos))
  <2>1. e + DIR_ENTRY_BYTES - 1 \in Nat
    BY <1>1
  <2>2. QED
    BY <1>1, <1>4, <1>5, <2>1
<1>7. \A s, t \in new : s.pos = t.pos => s = t
  <2>1. \A s, t \in img : s.pos = t.pos => s = t
    BY DEF Tiling
  <2>2. QED
    BY <2>1, <1>1, <1>3, <1>5, <1>6
<1>8. At(new, e) = slot
  BY <1>3, <1>6, <1>7, AtSlot
<1>9. \A p \in W : /\ p \in Nat /\ At(img, p).inode # 0 /\ At(img, p) \in img
                   /\ At(img, p).pos = p
                   /\ Ends(img, p) \in Nat /\ Ends(img, p) <= e /\ p + 7 <= Ends(img, p)
                   /\ EntryBytes(At(img, p).name) <= At(img, p).rec_len
                   /\ Ends(img, p) \in W \/ Ends(img, p) = e
                   /\ p # 0 => \E q \in W : Ends(img, q) = p
  BY TilingEntry DEF Tiling
<1>10. \A p \in W : At(img, p) \in new
  BY <1>6, <1>9
<1>11. \A p \in W : At(new, p) = At(img, p) /\ Ends(new, p) = Ends(img, p)
  <2>1. \A p \in W : At(new, p) = At(img, p)
    BY <1>7, <1>9, <1>10, AtSlot
  <2>2. QED
    BY <2>1 DEF Ends
<1>12. Ends(new, e) = f
  BY <1>3, <1>8 DEF Ends
<1>13. ASSUME NEW p \in V
       PROVE  /\ p \in InUse(new)
              /\ EntryBytes(At(new, p).name) <= At(new, p).rec_len
              /\ Ends(new, p) <= f
              /\ Ends(new, p) \in V \/ Ends(new, p) = f
              /\ p # 0 => \E q \in V : Ends(new, q) = p
  <2>1. CASE p = e
    <3>1. e \in InUse(new)
      BY <1>3, <1>6 DEF InUse
    <3>2. EntryBytes(At(new, e).name) <= At(new, e).rec_len
      BY <1>1, <1>3, <1>8 DEF room
    <3>3. \E q \in W : Ends(img, q) = e
      <4>1. End(img) = Ends(img, Max(W)) /\ Max(W) \in W
        <5>1. Walk(img) = W /\ W \subseteq Position /\ 0 \in W
          BY TilingWalk DEF Tiling
        <5>2. Max(W) \in W
          <6>1. USHORT - 1 \in Nat /\ W \subseteq 0..(USHORT - 1) /\ W # {}
            BY <5>1, Ushort DEF Position
          <6>2. QED
            BY <6>1, MaxOfNats
        <5>3. NextPos(img, Max(W)) = Ends(img, Max(W))
          BY <5>2, TilingEntry
        <5>4. QED
          BY <5>1, <5>2, <5>3 DEF End
      <4>2. QED
        BY <4>1, <1>2
    <3>4. \E q \in V : Ends(new, q) = e
      BY <3>3, <1>11
    <3>5. QED
      BY <2>1, <3>1, <3>2, <3>4, <1>1, <1>12
  <2>2. CASE p \in W
    <3>1. p \in InUse(new)
      BY <2>2, <1>9, <1>10 DEF InUse
    <3>2. QED
      BY <2>2, <3>1, <1>1, <1>9, <1>11 DEF f
  <2>3. QED
    BY <2>1, <2>2
<1>14. ASSUME NEW s \in new
       PROVE  s.pos \in V \/ (\E p \in V : InSlack(new, p, s)) \/ f + 2 <= s.pos
  <2>1. CASE s = slot
    BY <2>1, <1>3
  <2>2. CASE s \in img /\ (s.pos < e \/ e + DIR_ENTRY_BYTES <= s.pos)
    <3>1. CASE \E p \in W : InSlack(img, p, s)
      BY <3>1, <1>11 DEF InSlack
    <3>2. CASE e + 2 <= s.pos
      BY <2>2, <3>2, <1>1, <1>5 DEF f
    <3>3. QED
      BY <2>2, <3>1, <3>2, <1>5
  <2>3. QED
    BY <2>1, <2>2, <1>6
<1>15. 0 \in V /\ f <= BLOCK_SIZE
  BY <1>1 DEF Tiling
<1>16. Tiling(new, V, f)
  <2> HIDE DEF V
  <2> QED
    BY <1>7, <1>13, <1>14, <1>15 DEF Tiling
<1>17. QED
  BY <1>2, <1>3, <1>8, <1>11, <1>16 DEF f, room

-----------------------------------------------------------------------------
(* Deleting.                                                                *)

\* The entry before the one that goes takes its bytes.
LEMMA DeleteJoins ==
    ASSUME NEW img \in Image, NEW W, NEW e \in Nat, Tiling(img, W, e),
           NEW name, Matches(img, name) # {},
           NEW p, p = Min(Matches(img, name)), p # 0,
           NEW new, new = Delete(img, name)
    PROVE  /\ p \in W /\ At(img, p).name = name
           /\ Tiling(new, W \ {p}, e)
           /\ \A q \in W \ {p} : SameEntry(img, new, q)
           /\ \A q \in W : (q # p /\ Ends(img, q) # p) => At(new, q) = At(img, q)
<1> DEFINE gone == At(img, p)
           b == Before(img, p)
           pre == At(img, b)
           long == [pre EXCEPT !.rec_len = pre.rec_len + gone.rec_len]
           V == W \ {p}
<1>1. Walk(img) = W /\ W \subseteq Position /\ 0 \in W
  BY TilingWalk DEF Tiling
<1>2. p \in W /\ gone.name = name
  <2>1. Matches(img, name) \subseteq Nat
    BY <1>1, TilingEntry DEF Matches
  <2>2. p \in Matches(img, name)
    BY <2>1, MinOfNats
  <2>3. QED
    BY <2>2, <1>1 DEF Matches
<1>3. \A q \in W : /\ q \in Nat /\ At(img, q).inode # 0 /\ At(img, q) \in img
                   /\ At(img, q).pos = q
                   /\ Ends(img, q) \in Nat /\ Ends(img, q) <= e /\ q + 7 <= Ends(img, q)
                   /\ EntryBytes(At(img, q).name) <= At(img, q).rec_len
                   /\ EntryBytes(At(img, q).name) \in Nat
                   /\ Ends(img, q) \in W \/ Ends(img, q) = e
                   /\ q # 0 => \E r \in W : Ends(img, r) = q
                   /\ At(img, q).rec_len \in Nat
                   /\ q + EntryBytes(At(img, q).name) <= Ends(img, q)
  BY TilingEntry DEF Tiling
<1>4. PICK r \in W : Ends(img, r) = p
  BY <1>2, <1>3
<1>5. b = r
  <2> DEFINE Q == {q \in W : q < p}
  <2>1. r \in Q
    BY <1>3, <1>4
  <2>2. Q \subseteq 0..p
    BY <1>2, <1>3
  <2>3. p \in Nat
    BY <1>2, <1>3
  <2>4. Max(Q) \in Q /\ \A y \in Q : Max(Q) >= y
    BY <2>1, <2>2, <2>3, MaxOfNats
  <2>5. b = Max(Q)
    BY <1>1 DEF Before
  <2>6. PICK m \in W : m = Max(Q) /\ m < p /\ m >= r
    BY <2>1, <2>4
  <2>7. ~ (r < m)
    <3>1. SUFFICES ASSUME r < m PROVE FALSE
      OBVIOUS
    <3>2. Ends(img, r) <= m
      BY <3>1, TilingApart
    <3>3. m \in Nat
      BY <1>3
    <3>4. p <= m /\ m < p
      BY <3>2, <2>6, <1>4
    <3>5. QED
      BY <3>3, <3>4, <2>3
  <2> HIDE DEF Q, b
  <2>8. m = r
    <3>1. m \in Nat /\ r \in Nat
      BY <1>3
    <3>2. QED
      BY <3>1, <2>6, <2>7
  <2>9. QED
    BY <2>5, <2>6, <2>8
<1> HIDE DEF b
<1>6. b \in W /\ b \in V /\ Ends(img, b) = p /\ b < p /\ b \in Nat /\ p \in Nat
  BY <1>2, <1>3, <1>4, <1>5
<1>7. /\ pre \in img /\ pre.pos = b /\ pre.inode # 0 /\ gone \in img /\ gone.pos = p
      /\ pre.rec_len \in Nat /\ gone.rec_len \in Nat
      /\ b + pre.rec_len = p /\ p + gone.rec_len = Ends(img, p)
  BY <1>2, <1>3, <1>6 DEF Ends
<1>8. (pre.rec_len + gone.rec_len) % USHORT = pre.rec_len + gone.rec_len
  <2>1. Ends(img, p) <= BLOCK_SIZE
    BY <1>2, <1>3, BlockBound DEF Tiling
  <2>2. pre.rec_len + gone.rec_len \in 0..BLOCK_SIZE
    BY <2>1, <1>6, <1>7, <1>2, <1>3, BlockBound
  <2>3. QED
    BY <2>2, BlockBound
<1>9. /\ long.pos = b /\ long.inode = pre.inode /\ long.name = pre.name
      /\ long.rec_len = pre.rec_len + gone.rec_len
  BY <1>7 DEF Image, Slot
<1>10. new = {s \in img : s.pos # b} \cup {long}
  BY <1>7, <1>8 DEF Delete, b
<1> HIDE DEF long, pre, gone
<1>11. /\ long \in new
       /\ \A s \in img : s.pos # b => s \in new
       /\ \A s \in new : s = long \/ (s \in img /\ s.pos # b)
  BY <1>10
<1>12. \A s, t \in new : s.pos = t.pos => s = t
  <2>1. \A s, t \in img : s.pos = t.pos => s = t
    BY DEF Tiling
  <2>2. QED
    BY <2>1, <1>9, <1>11
<1>13. At(new, b) = long
  BY <1>9, <1>11, <1>12, AtSlot
<1>14. \A q \in W : q # b => At(img, q) \in new
  BY <1>3, <1>11
<1>15. \A q \in W : q # b => At(new, q) = At(img, q) /\ Ends(new, q) = Ends(img, q)
  <2>1. \A q \in W : q # b => At(new, q) = At(img, q)
    BY <1>3, <1>12, <1>14, AtSlot
  <2>2. QED
    BY <2>1 DEF Ends
<1>16. Ends(new, b) = Ends(img, p)
  BY <1>6, <1>7, <1>9, <1>13 DEF Ends
<1>17. \A q \in W : q # b => Ends(img, q) # p
  <2>1. TAKE q \in W
  <2>2. HAVE q # b
  <2>3. CASE q < b
    BY <2>3, <1>6, TilingApart
  <2>4. CASE b < q
    <3>1. p <= q
      BY <2>4, <1>6, TilingApart
    <3>2. QED
      BY <3>1, <1>3, <1>6
  <2>5. QED
    BY <2>2, <2>3, <2>4, <1>3, <1>6
<1>18. ASSUME NEW q \in V
       PROVE  /\ q \in InUse(new)
              /\ EntryBytes(At(new, q).name) <= At(new, q).rec_len
              /\ Ends(new, q) <= e
              /\ Ends(new, q) \in V \/ Ends(new, q) = e
              /\ q # 0 => \E x \in V : Ends(new, x) = q
  <2>1. ASSUME q # 0 PROVE \E x \in V : Ends(new, x) = q
    <3>1. PICK x \in W : Ends(img, x) = q
      BY <2>1, <1>3
    <3>2. CASE x = p
      BY <3>1, <3>2, <1>6, <1>16
    <3>3. CASE x # p
      <4>1. x # b
        BY <3>1, <1>6
      <4>2. QED
        BY <3>1, <3>3, <4>1, <1>15
    <3>4. QED
      BY <3>2, <3>3
  <2>2. CASE q = b
    <3>1. b \in InUse(new)
      BY <1>7, <1>9, <1>11 DEF InUse
    <3>2. EntryBytes(At(new, b).name) <= At(new, b).rec_len
      <4>1. EntryBytes(pre.name) <= pre.rec_len /\ EntryBytes(pre.name) \in Nat
        BY <1>3, <1>6 DEF pre
      <4>2. QED
        BY <4>1, <1>7, <1>9, <1>13
    <3>3. Ends(new, b) <= e /\ (Ends(new, b) \in V \/ Ends(new, b) = e)
      BY <1>2, <1>3, <1>16
    <3>4. QED
      BY <2>1, <2>2, <3>1, <3>2, <3>3
  <2>3. CASE q # b
    <3>1. q \in InUse(new)
      BY <2>3, <1>3, <1>14 DEF InUse
    <3>2. Ends(img, q) # p
      BY <2>3, <1>17
    <3>3. QED
      BY <2>1, <2>3, <3>1, <3>2, <1>3, <1>15
  <2>4. QED
    BY <2>2, <2>3
<1>19. ASSUME NEW s \in new
       PROVE  s.pos \in V \/ (\E q \in V : InSlack(new, q, s)) \/ e + 2 <= s.pos
  <2>1. CASE s = long
    BY <2>1, <1>6, <1>9
  <2>2. CASE s \in img /\ s.pos # b
    <3>1. /\ s.pos \in Nat /\ EntryBytes(s.name) \in Nat
          /\ s.pos \in W \/ (\E q \in W : InSlack(img, q, s)) \/ e + 2 <= s.pos
      BY <2>2, TilingSlot DEF Tiling
    <3>2. b + EntryBytes(At(new, b).name) <= p
      BY <1>3, <1>6, <1>9, <1>13 DEF pre
    <3>3. EntryBytes(At(new, b).name) \in Nat /\ Ends(img, b) <= Ends(img, p)
      BY <1>2, <1>3, <1>6, <1>9, <1>13 DEF pre
    <3>4. CASE s.pos = p
      <4>1. s = gone
        BY <2>2, <3>4, <1>7 DEF Tiling
      <4>2. p + EntryBytes(s.name) <= Ends(img, p)
        BY <4>1, <1>2, <1>3 DEF gone
      <4>3. InSlack(new, b, s)
        BY <3>2, <3>4, <4>2, <1>16 DEF InSlack
      <4>4. QED
        BY <4>3, <1>6
    <3>5. CASE \E q \in W : InSlack(img, q, s)
      <4>1. PICK q \in W : InSlack(img, q, s)
        BY <3>5
      <4>2. CASE q = p
        <5>1. p <= s.pos /\ s.pos + EntryBytes(s.name) <= Ends(img, p)
          BY <4>1, <4>2, <1>2, <1>3, <3>1 DEF InSlack
        <5>2. InSlack(new, b, s)
          BY <5>1, <3>1, <3>2, <3>3, <1>6, <1>16 DEF InSlack
        <5>3. QED
          BY <5>2, <1>6
      <4>3. CASE q = b
        <5>1. InSlack(new, b, s)
          BY <4>1, <4>3, <3>1, <3>3, <1>2, <1>3, <1>6, <1>9, <1>13, <1>16 DEF InSlack, pre
        <5>2. QED
          BY <5>1, <1>6
      <4>4. CASE q # p /\ q # b
        BY <4>1, <4>4, <1>15 DEF InSlack
      <4>5. QED
        BY <4>2, <4>3, <4>4
    <3>6. QED
      BY <3>1, <3>4, <3>5
  <2>3. QED
    BY <2>1, <2>2, <1>11
<1>20. Tiling(new, V, e)
  <2>1. 0 \in V /\ e <= BLOCK_SIZE
    BY <1>1 DEF Tiling
  <2> HIDE DEF V
  <2>2. QED
    BY <2>1, <1>12, <1>18, <1>19 DEF Tiling
<1>21. \A q \in V : SameEntry(img, new, q)
  BY <1>9, <1>13, <1>15 DEF SameEntry, pre
<1>22. QED
  BY <1>2, <1>6, <1>15, <1>20, <1>21 DEF gone

-----------------------------------------------------------------------------
(* Blocks in order stay in order.                                           *)

\* "." at byte 0 and ".." at byte 8, where cd .. reads it (L891).
Header(img, self, parent) ==
    /\ At(img, 0).name = "." /\ At(img, 0).inode = self /\ At(img, 0).rec_len = 8
    /\ 8 \in Walk(img) /\ At(img, 8).name = ".." /\ At(img, 8).inode = parent

\* What a walk over a block in order visits.
LEMMA TiledWalk ==
    ASSUME NEW img \in Image, Tiled(img)
    PROVE  /\ End(img) \in Nat /\ 0 \in Walk(img) /\ Walk(img) \subseteq Nat
           /\ \A p \in Walk(img) : /\ At(img, p) \in img /\ At(img, p).pos = p
                                   /\ At(img, p).inode \in 1..INODE_COUNT
                                   /\ At(img, p).name \in AllNames
           /\ img # FileBytes
<1>1. End(img) \in Nat
  BY EndType, Ushort DEF Position
<1>2. 0 \in Walk(img)
  BY DEF Tiled, Tiling
<1>3. \A p \in Walk(img) : /\ p \in Nat /\ At(img, p) \in img /\ At(img, p).pos = p
                           /\ At(img, p).inode # 0 /\ At(img, p).inode \in 0..INODE_COUNT
                           /\ At(img, p).name \in AllNames
  BY <1>1, TilingEntry DEF Tiled
<1>4. INODE_COUNT \in Nat
  BY SizesAssumption, Ushort
<1>5. QED
  BY <1>1, <1>2, <1>3, <1>4, ContentAssumption

\* search_free_dir_in_block (L436) leaves a block in order when it finds one in
\* order: one entry is new, all others are as they were, and so is the header.
LEMMA InsertOrder ==
    ASSUME NEW img \in Image, Tiled(img), NEW inode \in 1..INODE_COUNT, NEW name \in AllNames,
           CanInsert(img, name), NEW new, new = Insert(img, inode, name)
    PROVE  /\ Tiled(new)
           /\ \E n \in Walk(new) : /\ n \notin Walk(img)
                                   /\ At(new, n).inode = inode /\ At(new, n).name = name
                                   /\ \A p \in Walk(new) \ {n} : p \in Walk(img) /\ SameEntry(img, new, p)
           /\ \A i, j : Header(img, i, j) => Header(new, i, j)
<1> DEFINE W == Walk(img)
           e == End(img)
<1>1. e \in Nat /\ Tiling(img, W, e)
  BY TiledWalk DEF Tiled
<1>2. new \in Image
  <2>1. inode \in 0..INODE_COUNT
    BY SizesAssumption, Ushort
  <2>2. QED
    BY <2>1, InsertType
<1>3. ASSUME Gaps(img, name) # {}
      PROVE  /\ Tiled(new)
             /\ \E n \in Walk(new) : /\ n \notin Walk(img)
                                     /\ At(new, n).inode = inode /\ At(new, n).name = name
                                     /\ \A p \in Walk(new) \ {n} : p \in Walk(img) /\ SameEntry(img, new, p)
             /\ \A i, j : Header(img, i, j) => Header(new, i, j)
  <2> DEFINE g == GapHost(img, name)
             n == GapPos(img, name)
             short == {p \in W : p <= g} \cup {n}
  <2> HIDE DEF W, e
  <2>0. GapFilled(img, W, e, inode, name, new, g, n)
    BY <1>1, <1>3, InsertInGap
  <2> HIDE DEF g, n
  <2>1. /\ g \in W /\ n \notin W /\ n \in Nat
        /\ At(new, n).inode = inode /\ At(new, n).name = name
        /\ SameEntry(img, new, g)
    BY <2>0 DEF GapFilled
  <2>2. At(new, n).inode = inode /\ At(new, n).name = name
    BY <2>1
  <2>3. /\ g \in Nat /\ At(img, g) \in Slot /\ Ends(img, g) \in Nat /\ At(img, g).rec_len \in Nat
        /\ W \subseteq Nat
    BY <1>1, <2>1, TilingEntry DEF Image
  <2>4. SameEntry(img, new, g)
    BY <2>1
  <2>5. /\ Tiled(new)
        /\ \/ Walk(new) = short
           \/ Walk(new) = W \cup {n}
        /\ \A p \in Walk(new) \ {n} : p \in W /\ (p # g => At(new, p) = At(img, p))
    <3>1. CASE Ends(img, g) < n + DIR_ENTRY_BYTES
      <4>1. Tiling(new, short, Ends(img, g)) /\ \A p \in W : p < g => At(new, p) = At(img, p)
        BY <2>0, <3>1 DEF GapFilled
      <4>2. Walk(new) = short /\ Tiled(new)
        BY <4>1, <1>2, <2>3, TilingWalk
      <4>3. \A p \in short \ {n} : p \in W /\ (p # g => p < g)
        BY <2>3
      <4>4. QED
        BY <4>1, <4>2, <4>3
    <3>2. CASE ~ (Ends(img, g) < n + DIR_ENTRY_BYTES)
      <4>1. Tiling(new, W \cup {n}, e) /\ \A p \in W \ {g} : At(new, p) = At(img, p)
        BY <2>0, <3>2 DEF GapFilled
      <4>2. Walk(new) = W \cup {n} /\ Tiled(new)
        BY <4>1, <1>1, <1>2, TilingWalk
      <4>3. QED
        BY <4>1, <4>2
    <3>3. QED
      BY <3>1, <3>2
  <2>6. \A p \in Walk(new) \ {n} : p \in W /\ SameEntry(img, new, p)
    BY <2>4, <2>5 DEF SameEntry
  <2>7. ASSUME NEW i, NEW j, Header(img, i, j) PROVE Header(new, i, j)
    <3>1. 0 \in W /\ 8 \in W
      BY <2>7, TiledWalk DEF Header, W
    <3>2. g # 0
      <4>1. SUFFICES ASSUME g = 0 PROVE FALSE
        OBVIOUS
      <4>2. /\ EntryBytes(name) <= Slack(img, 0) /\ 7 <= EntryBytes(name) /\ EntryBytes(name) \in Nat
            /\ Slack(img, 0) = At(img, 0).rec_len - EntryBytes(At(img, 0).name)
        BY <1>1, <1>3, <4>1, GapFacts, EntryBytesBounds DEF g, GapHost
      <4>3. At(img, 0).rec_len = 8 /\ EntryBytes(At(img, 0).name) = 8
        BY <2>7, LengthsAssumption DEF Header, EntryBytes
      <4>4. QED
        BY <4>2, <4>3
    <3>3. Ends(img, 0) <= g /\ Ends(img, 0) = 8
      BY <1>1, <2>1, <2>3, <2>7, <3>1, <3>2, TilingApart DEF Header, Ends
    <3>4. 0 \in Walk(new) /\ 8 \in Walk(new)
      BY <2>5, <2>3, <3>1, <3>3
    <3>5. n # 0 /\ n # 8
      BY <2>1, <3>1
    <3>6. SameEntry(img, new, 8) /\ At(new, 0) = At(img, 0)
      BY <2>5, <2>6, <3>2, <3>4, <3>5
    <3>7. QED
      BY <2>7, <3>4, <3>6 DEF Header, SameEntry
  <2>8. n \in Walk(new)
    BY <2>5
  <2>9. QED
    BY <2>1, <2>2, <2>5, <2>6, <2>7, <2>8 DEF W
<1>4. ASSUME Gaps(img, name) = {}
      PROVE  /\ Tiled(new)
             /\ \E n \in Walk(new) : /\ n \notin Walk(img)
                                     /\ At(new, n).inode = inode /\ At(new, n).name = name
                                     /\ \A p \in Walk(new) \ {n} : p \in Walk(img) /\ SameEntry(img, new, p)
             /\ \A i, j : Header(img, i, j) => Header(new, i, j)
  <2>1. e + EntryBytes(name) < BLOCK_SIZE
    BY <1>4 DEF CanInsert
  <2> HIDE DEF W, e
  <2>2. /\ e \notin W
        /\ At(new, e).inode = inode /\ At(new, e).name = name
        /\ \A p \in W : At(new, p) = At(img, p)
        /\ Tiling(new, W \cup {e}, e + EntryBytes(name))
    BY <1>1, <1>4, <2>1, InsertAtEnd
  <2>3. e + EntryBytes(name) \in Nat
    BY <1>1, EntryBytesBounds
  <2>4. Walk(new) = W \cup {e} /\ Tiled(new)
    BY <1>2, <2>2, <2>3, TilingWalk
  <2>5. /\ At(new, e).inode = inode /\ At(new, e).name = name
        /\ \A p \in Walk(new) \ {e} : p \in W /\ SameEntry(img, new, p)
    BY <2>2, <2>4 DEF SameEntry
  <2>6. ASSUME NEW i, NEW j, Header(img, i, j) PROVE Header(new, i, j)
    <3>1. 0 \in W /\ 8 \in W
      BY <2>6, TiledWalk DEF Header, W
    <3>2. At(new, 0) = At(img, 0) /\ At(new, 8) = At(img, 8) /\ 8 \in Walk(new)
      BY <2>2, <2>4, <3>1
    <3>3. QED
      BY <2>6, <3>2 DEF Header
  <2>7. QED
    BY <2>2, <2>4, <2>5, <2>6 DEF W
<1>5. QED
  BY <1>3, <1>4

\* delete_in_block (L492) leaves a block in order when the entry it deletes is
\* not the first: that entry is gone, all others are as they were.
LEMMA DeleteOrder ==
    ASSUME NEW img \in Image, Tiled(img), NEW name, Matches(img, name) # {},
           Min(Matches(img, name)) # 0, NEW new, new = Delete(img, name)
    PROVE  /\ Tiled(new)
           /\ Walk(new) = Walk(img) \ {Min(Matches(img, name))}
           /\ \A p \in Walk(new) : SameEntry(img, new, p)
           /\ \A i, j : Header(img, i, j) /\ name \in Names => Header(new, i, j)
<1> DEFINE W == Walk(img)
           e == End(img)
           p == Min(Matches(img, name))
<1>1. e \in Nat /\ Tiling(img, W, e)
  BY TiledWalk DEF Tiled
<1>2. new \in Image
  BY DeleteType
<1> HIDE DEF W, e, p
<1>3. /\ p \in W /\ At(img, p).name = name
      /\ Tiling(new, W \ {p}, e)
      /\ \A q \in W \ {p} : SameEntry(img, new, q)
      /\ \A q \in W : (q # p /\ Ends(img, q) # p) => At(new, q) = At(img, q)
  BY <1>1, DeleteJoins DEF p
<1>4. Walk(new) = W \ {p} /\ Tiled(new)
  BY <1>1, <1>2, <1>3, TilingWalk
<1>5. ASSUME NEW i, NEW j, Header(img, i, j), name \in Names PROVE Header(new, i, j)
  <2>1. 0 \in W /\ 8 \in W
    BY <1>5, TiledWalk DEF Header, W
  <2>2. p # 0 /\ p # 8
    BY <1>3, <1>5, NamesAssumption DEF Header
  <2>3. Ends(img, 0) # p
    BY <1>5, <2>2 DEF Ends, Header
  <2>4. At(new, 0) = At(img, 0) /\ SameEntry(img, new, 8) /\ 8 \in Walk(new)
    BY <1>3, <1>4, <2>1, <2>2, <2>3
  <2>5. QED
    BY <1>5, <2>4 DEF Header, SameEntry
<1>6. QED
  BY <1>3, <1>4, <1>5 DEF W, p

\* The first block of a directory is in order (L1080).
LEMMA DirImageOrder ==
    ASSUME NEW self \in 1..INODE_COUNT, NEW parent \in 1..INODE_COUNT,
           NEW img, img = DirImage(self, parent)
    PROVE  /\ Tiled(img) /\ Walk(img) = {0, 8} /\ Header(img, self, parent)
<1> DEFINE dot == [pos |-> 0, inode |-> self, rec_len |-> 8, name |-> "."]
           up  == [pos |-> 8, inode |-> parent, rec_len |-> 9, name |-> ".."]
<1>1. img = {dot, up}
  BY DEF DirImage
<1>2. /\ dot.pos = 0 /\ dot.inode = self /\ dot.rec_len = 8 /\ dot.name = "."
      /\ up.pos = 8 /\ up.inode = parent /\ up.rec_len = 9 /\ up.name = ".."
  OBVIOUS
<1> HIDE DEF dot, up
<1>3. img \in Image
  <2>1. self \in 0..INODE_COUNT /\ parent \in 0..INODE_COUNT /\ "." \in AllNames
    BY SizesAssumption, Ushort DEF AllNames
  <2>2. QED
    BY <2>1, NewBlockType
<1>4. \A s, t \in img : s.pos = t.pos => s = t
  BY <1>1, <1>2
<1>5. At(img, 0) = dot /\ At(img, 8) = up
  <2>1. dot \in img /\ up \in img
    BY <1>1
  <2>2. QED
    BY <2>1, <1>2, <1>4, AtSlot
<1>6. Ends(img, 0) = 8 /\ Ends(img, 8) = 17
  BY <1>2, <1>5 DEF Ends
<1>7. EntryBytes(".") = 8 /\ EntryBytes("..") = 9
  BY LengthsAssumption DEF EntryBytes
<1>8. self # 0 /\ parent # 0
  BY SizesAssumption
<1>9. 0 \in InUse(img) /\ 8 \in InUse(img)
  BY <1>1, <1>2, <1>8 DEF InUse
<1>10. Tiling(img, {0, 8}, 17)
  BY <1>1, <1>2, <1>4, <1>5, <1>6, <1>7, <1>9, BlockBound DEF Tiling
<1>11. Walk(img) = {0, 8} /\ Tiled(img)
  BY <1>3, <1>10, TilingWalk
<1>12. QED
  BY <1>2, <1>5, <1>11 DEF Header

\* So is a block that begins with an entry (L470).
LEMMA FirstEntryOrder ==
    ASSUME NEW inode \in 1..INODE_COUNT, NEW name \in AllNames,
           NEW img, img = FirstEntry(inode, name)
    PROVE  /\ Tiled(img) /\ Walk(img) = {0}
           /\ At(img, 0).inode = inode /\ At(img, 0).name = name
<1> DEFINE k == EntryBytes(name)
           s == [pos |-> 0, inode |-> inode, rec_len |-> k, name |-> name]
<1>1. k \in Nat /\ 7 <= k /\ k <= BLOCK_SIZE /\ k % USHORT = k
  <2>1. k \in Nat /\ 7 <= k /\ k < BLOCK_SIZE /\ BLOCK_SIZE \in Nat
    BY EntryBytesBounds, BlockBound
  <2>2. QED
    BY <2>1, BlockBound
<1>2. img = {s}
  BY <1>1 DEF FirstEntry
<1>3. s.pos = 0 /\ s.inode = inode /\ s.rec_len = k /\ s.name = name
  OBVIOUS
<1> HIDE DEF s, k
<1>4. img \in Image
  <2>1. inode \in 0..INODE_COUNT
    BY SizesAssumption, Ushort
  <2>2. QED
    BY <2>1, NewBlockType
<1>5. At(img, 0) = s /\ (\A x, y \in img : x.pos = y.pos => x = y)
  BY <1>2, <1>3, AtSlot
<1>6. Ends(img, 0) = k
  BY <1>1, <1>3, <1>5 DEF Ends
<1>7. inode # 0
  BY SizesAssumption
<1>8. 0 \in InUse(img)
  BY <1>2, <1>3, <1>7 DEF InUse
<1>9. EntryBytes(At(img, 0).name) <= At(img, 0).rec_len
  BY <1>1, <1>3, <1>5 DEF k
<1>10. Tiling(img, {0}, k)
  BY <1>1, <1>2, <1>3, <1>5, <1>6, <1>8, <1>9 DEF Tiling
<1>11. QED
  BY <1>1, <1>3, <1>4, <1>5, <1>10, TilingWalk

\* In a block in order a search finds what the walk visits.
LEMMA TiledFind ==
    ASSUME NEW img \in Image, Tiled(img), NEW name
    PROVE  /\ Readable(img, name) /\ Terminates(img)
           /\ Find(img, name) # 0 <=> Matches(img, name) # {}
           /\ Matches(img, name) # {} =>
                /\ Min(Matches(img, name)) \in Walk(img)
                /\ At(img, Min(Matches(img, name))).name = name
                /\ Find(img, name) = At(img, Min(Matches(img, name))).inode
<1>1. /\ End(img) \in Nat /\ Walk(img) \subseteq Nat /\ img # FileBytes
      /\ \A p \in Walk(img) : At(img, p).inode # 0
  BY TiledWalk, SizesAssumption, TilingEntry DEF Tiled
<1>2. Terminates(img)
  BY <1>1, TiledTerminates DEF Tiled
<1>3. Matches(img, name) # {} => Min(Matches(img, name)) \in Matches(img, name)
  <2>1. Matches(img, name) \subseteq Nat
    BY <1>1 DEF Matches
  <2>2. QED
    BY <2>1, MinOfNats
<1>4. QED
  BY <1>1, <1>2, <1>3 DEF Readable, Find, Matches

-----------------------------------------------------------------------------
(* DirBlockOps.                                                             *)

\* No two entries of a block have the same name.
UniqueNames(img) ==
    \A p, q \in Walk(img) : At(img, p).name = At(img, q).name => p = q

\* The inductive invariant of a block that is used with care.
BlockInOrder == slots \in Image /\ Tiled(slots) /\ UniqueNames(slots)

\* Names and inodes of a block in order, by position.
LEMMA PairsOf ==
    ASSUME NEW img \in Image, Tiled(img)
    PROVE  \A e : e \in Pairs(img) <=>
                    \E p \in Walk(img) : /\ At(img, p).name \in Names
                                         /\ e = <<At(img, p).name, At(img, p).inode>>
<1>1. img # FileBytes /\ \A p \in Walk(img) : At(img, p).inode # 0
  BY TiledWalk, SizesAssumption
<1>2. QED
  BY <1>1 DEF Pairs, Listing

\* A name that a search does not find is not there, one that it finds is.
LEMMA PairsFind ==
    ASSUME NEW img \in Image, Tiled(img), NEW name \in Names
    PROVE  Find(img, name) # 0 <=> \E e \in Pairs(img) : e[1] = name
<1>1. Find(img, name) # 0 <=> Matches(img, name) # {}
  BY TiledFind
<1>2. ASSUME NEW p \in Walk(img), At(img, p).name = name
      PROVE  \E e \in Pairs(img) : e[1] = name
  <2> DEFINE e == <<At(img, p).name, At(img, p).inode>>
  <2>1. e \in Pairs(img) /\ e[1] = name
    BY <1>2, PairsOf
  <2>2. QED
    BY <2>1
<1>3. ASSUME NEW e \in Pairs(img), e[1] = name
      PROVE  \E p \in Walk(img) : At(img, p).name = name
  BY <1>3, PairsOf
<1>4. QED
  BY <1>1, <1>2, <1>3 DEF Matches

\* An insertion with care adds one name, and nothing else.
LEMMA InsertPairs ==
    ASSUME NEW img \in Image, Tiled(img), UniqueNames(img),
           NEW i \in 1..INODE_COUNT, NEW name \in Names, Find(img, name) = 0,
           CanInsert(img, name), NEW new, new = Insert(img, i, name)
    PROVE  /\ new \in Image /\ Tiled(new) /\ UniqueNames(new)
           /\ Overwritten(img, i, name) = {} => Pairs(new) = Pairs(img) \cup {<<name, i>>}
<1>1. name \in AllNames /\ i \in 0..INODE_COUNT
  BY SizesAssumption, Ushort DEF AllNames
<1>2. new \in Image
  BY <1>1, InsertType
<1>3. /\ Tiled(new)
      /\ \E n \in Walk(new) : /\ n \notin Walk(img)
                              /\ At(new, n).inode = i /\ At(new, n).name = name
                              /\ \A p \in Walk(new) \ {n} : p \in Walk(img) /\ SameEntry(img, new, p)
  BY <1>1, InsertOrder
<1>4. PICK n \in Walk(new) : /\ n \notin Walk(img)
                             /\ At(new, n).inode = i /\ At(new, n).name = name
                             /\ \A p \in Walk(new) \ {n} : p \in Walk(img) /\ SameEntry(img, new, p)
  BY <1>3
<1>5. \A p \in Walk(img) : At(img, p).name # name
  <2>1. Matches(img, name) = {}
    BY TiledFind
  <2>2. QED
    BY <2>1 DEF Matches
<1>6. UniqueNames(new)
  <2>1. SUFFICES ASSUME NEW p \in Walk(new), NEW q \in Walk(new),
                        At(new, p).name = At(new, q).name
                 PROVE  p = q
    BY DEF UniqueNames
  <2>3. CASE p = n \/ q = n
    BY <1>4, <1>5, <2>1, <2>3 DEF SameEntry
  <2>4. CASE p # n /\ q # n
    BY <1>4, <2>1, <2>4 DEF SameEntry, UniqueNames
  <2>5. QED
    BY <2>3, <2>4
<1>7. ASSUME Overwritten(img, i, name) = {}
      PROVE  Pairs(new) = Pairs(img) \cup {<<name, i>>}
  <2>1. \A p \in Walk(img) : p \in Walk(new) /\ SameEntry(img, new, p)
    BY <1>7 DEF Overwritten, SameEntry
  <2>2. ASSUME NEW e \in Pairs(new) PROVE e \in Pairs(img) \cup {<<name, i>>}
    <3>1. PICK p \in Walk(new) : At(new, p).name \in Names /\ e = <<At(new, p).name, At(new, p).inode>>
      BY <1>2, <1>3, PairsOf
    <3>2. CASE p = n
      BY <1>4, <3>1, <3>2
    <3>3. CASE p # n
      BY <1>4, <3>1, <3>3, PairsOf DEF SameEntry
    <3>4. QED
      BY <3>2, <3>3
  <2>3. ASSUME NEW e \in Pairs(img) PROVE e \in Pairs(new)
    <3>1. PICK p \in Walk(img) : At(img, p).name \in Names /\ e = <<At(img, p).name, At(img, p).inode>>
      BY PairsOf
    <3>2. QED
      BY <1>2, <1>3, <2>1, <3>1, PairsOf DEF SameEntry
  <2>4. <<name, i>> \in Pairs(new)
    BY <1>2, <1>3, <1>4, PairsOf
  <2>5. QED
    BY <2>2, <2>3, <2>4
<1>8. QED
  BY <1>2, <1>3, <1>6, <1>7

\* A deletion that is not the first entry takes one name away, and nothing else.
LEMMA DeletePairs ==
    ASSUME NEW img \in Image, Tiled(img), UniqueNames(img), NEW name \in Names,
           Find(img, name) # 0, Min(Matches(img, name)) # 0,
           NEW new, new = Delete(img, name)
    PROVE  /\ new \in Image /\ Tiled(new) /\ UniqueNames(new)
           /\ Pairs(new) = {e \in Pairs(img) : e[1] # name}
<1> DEFINE m == Min(Matches(img, name))
<1>1. /\ Matches(img, name) # {} /\ m \in Walk(img) /\ At(img, m).name = name
  BY TiledFind
<1>2. new \in Image
  BY <1>1, DeleteType
<1>3. /\ Tiled(new) /\ Walk(new) = Walk(img) \ {m}
      /\ \A p \in Walk(new) : SameEntry(img, new, p)
  BY <1>1, DeleteOrder
<1> HIDE DEF m
<1>4. UniqueNames(new)
  BY <1>3 DEF UniqueNames, SameEntry
<1>5. \A p \in Walk(img) : At(img, p).name = name => p = m
  BY <1>1 DEF UniqueNames
<1>6. ASSUME NEW e \in Pairs(new) PROVE e \in Pairs(img) /\ e[1] # name
  <2>1. PICK p \in Walk(new) : At(new, p).name \in Names /\ e = <<At(new, p).name, At(new, p).inode>>
    BY <1>2, <1>3, PairsOf
  <2>2. p \in Walk(img) /\ p # m /\ SameEntry(img, new, p)
    BY <1>3, <2>1
  <2>3. QED
    BY <1>5, <2>1, <2>2, PairsOf DEF SameEntry
<1>7. ASSUME NEW e \in Pairs(img), e[1] # name PROVE e \in Pairs(new)
  <2>1. PICK p \in Walk(img) : At(img, p).name \in Names /\ e = <<At(img, p).name, At(img, p).inode>>
    BY PairsOf
  <2>2. p \in Walk(new) /\ SameEntry(img, new, p)
    BY <1>1, <1>3, <1>7, <2>1
  <2>3. QED
    BY <1>2, <1>3, <2>1, <2>2, PairsOf DEF SameEntry
<1>8. QED
  BY <1>2, <1>3, <1>4, <1>6, <1>7

\* The block a directory begins with is in order, and so is one that begins
\* with an entry.
LEMMA BlockInit ==
    ASSUME OpsInit
    PROVE  BlockInOrder /\ Directory!Init
<1>1. ASSUME slots = DirImage(1, 1) PROVE BlockInOrder /\ Pairs(slots) = {}
  <2>1. 1 \in 1..INODE_COUNT /\ 1 \in 0..INODE_COUNT
    BY SizesAssumption, Ushort
  <2>2. /\ Tiled(slots) /\ Walk(slots) = {0, 8}
        /\ At(slots, 0).name = "." /\ At(slots, 8).name = ".."
    BY <1>1, <2>1, DirImageOrder DEF Header
  <2>3. slots \in Image
    BY <1>1, <2>1, NewBlockType DEF AllNames
  <2>4. UniqueNames(slots)
    BY <2>2 DEF UniqueNames
  <2>5. \A e : e \notin Pairs(slots)
    BY <2>2, <2>3, PairsOf, NamesAssumption
  <2>6. QED
    BY <2>2, <2>3, <2>4, <2>5 DEF BlockInOrder
<1>2. ASSUME NEW i \in Inodes, NEW n \in Names, slots = FirstEntry(i, n)
      PROVE  BlockInOrder /\ Pairs(slots) = {<<n, i>>}
  <2>1. i \in 1..INODE_COUNT /\ i \in 0..INODE_COUNT /\ n \in AllNames
    BY OpsAssumption, SizesAssumption, Ushort DEF AllNames
  <2>2. Tiled(slots) /\ Walk(slots) = {0} /\ At(slots, 0).inode = i /\ At(slots, 0).name = n
    BY <1>2, <2>1, FirstEntryOrder
  <2>3. slots \in Image
    BY <1>2, <2>1, NewBlockType
  <2>4. UniqueNames(slots)
    BY <2>2 DEF UniqueNames
  <2>5. \A e : e \in Pairs(slots) <=> e = <<n, i>>
    BY <2>2, <2>3, PairsOf
  <2>6. QED
    BY <2>2, <2>3, <2>4, <2>5 DEF BlockInOrder
<1>3. QED
  BY <1>1, <1>2 DEF OpsInit, Directory!Init

\* With care, every operation keeps the block in order, and is an operation on
\* the set of names.
LEMMA BlockNext ==
    ASSUME SpareGaps, SpareFirst, BlockInOrder, [OpsNext]_slots
    PROVE  BlockInOrder' /\ [Directory!Next]_(Pairs(slots))
<1>1. CASE UNCHANGED slots
  BY <1>1 DEF BlockInOrder, Pairs
<1>2. ASSUME NEW name \in Names, NEW i \in Inodes, insert(name, i)
      PROVE  BlockInOrder' /\ Directory!Next
  <2>1. /\ Find(slots, name) = 0 /\ CanInsert(slots, name) /\ Overwritten(slots, i, name) = {}
        /\ slots' = Insert(slots, i, name) /\ i \in 1..INODE_COUNT
    BY <1>2, OpsAssumption DEF insert
  <2>2. /\ slots' \in Image /\ Tiled(slots') /\ UniqueNames(slots')
        /\ Pairs(slots') = Pairs(slots) \cup {<<name, i>>}
    BY <2>1, InsertPairs DEF BlockInOrder
  <2>3. name \notin Directory!Taken
    BY <2>1, PairsFind DEF BlockInOrder, Directory!Taken
  <2>4. Directory!Add(name, i)
    BY <2>2, <2>3 DEF Directory!Add
  <2>5. QED
    BY <2>2, <2>4 DEF BlockInOrder, Directory!Next
<1>3. ASSUME NEW name \in Names, remove(name)
      PROVE  BlockInOrder' /\ Directory!Next
  <2>1. Find(slots, name) # 0 /\ Min(Matches(slots, name)) # 0 /\ slots' = Delete(slots, name)
    BY <1>3 DEF remove
  <2>2. /\ slots' \in Image /\ Tiled(slots') /\ UniqueNames(slots')
        /\ Pairs(slots') = {e \in Pairs(slots) : e[1] # name}
    BY <2>1, DeletePairs DEF BlockInOrder
  <2>3. name \in Directory!Taken
    BY <2>1, PairsFind DEF BlockInOrder, Directory!Taken
  <2>4. Directory!Remove(name)
    BY <2>2, <2>3 DEF Directory!Remove
  <2>5. QED
    BY <2>2, <2>4 DEF BlockInOrder, Directory!Next
<1>4. QED
  BY <1>1, <1>2, <1>3 DEF OpsNext

\* A block in order is tiled by its entries.
LEMMA OrderTiles ==
    ASSUME BlockInOrder
    PROVE  EntriesTile
<1>1. /\ slots \in Image /\ End(slots) \in Nat /\ Tiling(slots, Walk(slots), End(slots))
  BY TiledWalk DEF BlockInOrder, Tiled
<1>2. ASSUME NEW p \in Walk(slots)
      PROVE  /\ At(slots, p).rec_len >= EntryBytes(At(slots, p).name)
             /\ p + At(slots, p).rec_len <= BLOCK_SIZE
  <2>1. /\ EntryBytes(At(slots, p).name) <= At(slots, p).rec_len
        /\ Ends(slots, p) <= End(slots) /\ End(slots) <= BLOCK_SIZE
        /\ Ends(slots, p) = p + At(slots, p).rec_len
        /\ Ends(slots, p) \in Nat /\ EntryBytes(At(slots, p).name) \in Nat
        /\ At(slots, p).rec_len \in Nat
    BY <1>1, TilingEntry DEF Tiling, Ends
  <2>2. QED
    BY <2>1, <1>1, BlockBound
<1>3. Terminates(slots)
  BY <1>1, TiledTerminates
<1>4. QED
  BY <1>2, <1>3 DEF EntriesTile

\* A directory block in which no first entry is deleted (SpareFirst) and no
\* insertion overwrites another entry (SpareGaps) is always tiled by its entries, so
\* that every walk over it ends (L442, L475, L498), whatever is inserted and
\* deleted in whatever order.
THEOREM EntriesAlwaysTile ==
    ASSUME SpareGaps, SpareFirst
    PROVE  OpsSpec => []EntriesTile
<1>1. OpsInit => BlockInOrder
  BY BlockInit
<1>2. BlockInOrder /\ [OpsNext]_slots => BlockInOrder'
  BY BlockNext
<1>3. BlockInOrder => EntriesTile
  BY OrderTiles
<1>4. QED
  BY <1>1, <1>2, <1>3, PTL DEF OpsSpec

\* Used in the same way, a directory block implements a set of names: its
\* first state is one of the set, and every insertion and deletion adds or
\* removes one name.
THEOREM BlockImplementsDirNames ==
    ASSUME SpareGaps, SpareFirst
    PROVE  OpsSpec => ImplementsDirNames
<1>1. OpsInit => BlockInOrder /\ Directory!Init
  BY BlockInit
<1>2. BlockInOrder /\ [OpsNext]_slots => BlockInOrder' /\ [Directory!Next]_(Pairs(slots))
  BY BlockNext
<1>3. QED
  BY <1>1, <1>2, PTL DEF OpsSpec, ImplementsDirNames, Directory!Spec

-----------------------------------------------------------------------------
(* A run.                                                                   *)

Cut == [disk: Disk, mishaps: SUBSET Mishaps]

-----------------------------------------------------------------------------
(* The volume.                                                              *)

\* The ranges of inode and block numbers, all of them unsigned short.
LEMMA Volume ==
    /\ INODE_COUNT \in Nat /\ Inode \subseteq 0..INODE_COUNT /\ ROOT \in Inode
    /\ DATA_BLOCK_COUNT \in Nat /\ 0 \in Block /\ Block \subseteq Position
    /\ 0..INODE_COUNT \subseteq Position
BY SizesAssumption, VolumeAssumption, Ushort DEF Inode, Block, ROOT, Position

\* The counters of the group descriptor wrap like an unsigned short.
LEMMA CountsType ==
    ASSUME NEW n \in Position
    PROVE  Incr(n) \in Position /\ Decr(n) \in Position
<1>1. n + 1 \in Int /\ n + USHORT - 1 \in Int
  BY Ushort DEF Position
<1>2. QED
  BY <1>1, Ushort DEF Incr, Decr

\* What initialize_inode writes is an inode entry.
LEMMA ZeroInodeType ==
    /\ ZeroInode \in InodeEntry
    /\ \A p \in 0..7 : [ZeroInode EXCEPT !.perm = p] \in InodeEntry
<1> DEFINE zero == [x \in 0..(NDIRECT - 1) |-> 0]
<1>1. 0 \in 0..NDIRECT /\ 0 \in 0..(SIZE_MOD - 1) /\ 0 \in Block
  BY VolumeAssumption, Volume
<1>2. zero \in [0..(NDIRECT - 1) -> Block]
  BY <1>1
<1> HIDE DEF zero
<1>3. ZeroInode = [type |-> "unknown", perm |-> 0, i_blocks |-> 0, i_size |-> 0,
                   i_block |-> zero]
  BY DEF ZeroInode, FT_UNKNOWN, zero
<1>4. QED
  BY <1>1, <1>2, <1>3 DEF InodeEntry, FT_UNKNOWN

-----------------------------------------------------------------------------
(* The steps of a run.                                                      *)

\* A run that has not written anything.
LEMMA BeginType ==
    ASSUME NEW d \in Disk, NEW m \in SUBSET Mishaps
    PROVE  Begin(d, m) \in Run /\ Begin(d, m).ret = 0
BY Ushort DEF Begin, Run

\* One write of disk_IO keeps the type of a run.
LEMMA PutType ==
    ASSUME NEW r \in Run, NEW d \in Disk
    PROVE  Put(r, d) \in Run /\ Put(r, d).ret = r.ret
<1>1. [disk |-> r.disk, mishaps |-> r.mishaps] \in Cut
  BY DEF Run, Cut
<1>2. QED
  BY <1>1 DEF Put, Run, Cut

\* So does the record of a mishap.
LEMMA FlagType ==
    ASSUME NEW r \in Run, NEW m \in Mishaps
    PROVE  Flag(r, m) \in Run /\ Flag(r, m).ret = r.ret /\ Flag(r, m).disk = r.disk
BY DEF Flag, Run

\* So does the value a routine returns.
LEMMA ReturnType ==
    ASSUME NEW r \in Run, NEW n \in Position
    PROVE  Return(r, n) \in Run /\ Return(r, n).ret = n
BY DEF Return, Run, Position

\* So does the loss of the process.
LEMMA StopType ==
    ASSUME NEW r \in Run, NEW how \in {"lost", "deep"}
    PROVE  Stop(r, how) \in Run /\ Stop(r, how).ret = r.ret
BY DEF Stop, Run, Mishaps

\* The parts of a run have their types.
LEMMA RunDisk ==
    ASSUME NEW r \in Run
    PROVE  /\ r.disk \in Disk /\ r.mishaps \in SUBSET Mishaps
           /\ r.ret \in Position /\ r.cuts \in SUBSET Cut
BY DEF Run, Cut, Position

\* update_inode_entry writes an inode entry, for inode 0 elsewhere.
LEMMA PutInodeType ==
    ASSUME NEW r \in Run, NEW i, NEW e, i \in Inode => e \in InodeEntry
    PROVE  PutInode(r, i, e) \in Run /\ PutInode(r, i, e).ret = r.ret
<1>1. CASE i \in Inode
  <2>1. [r.disk EXCEPT !.inode_table[i] = e] \in Disk
    BY <1>1, RunDisk DEF Disk
  <2>2. QED
    BY <1>1, <2>1, PutType DEF PutInode
<1>2. CASE i \notin Inode
  BY <1>2 DEF PutInode
<1>3. QED
  BY <1>1, <1>2

\* update_block_entry writes the content of a block.
LEMMA PutBlockType ==
    ASSUME NEW r \in Run, NEW b, NEW c \in Content
    PROVE  PutBlock(r, b, c) \in Run /\ PutBlock(r, b, c).ret = r.ret
<1>1. [r.disk EXCEPT !.data[b] = c] \in Disk
  BY RunDisk DEF Disk
<1>2. QED
  BY <1>1, PutType DEF PutBlock

-----------------------------------------------------------------------------
(* Allocation.                                                              *)

\* new_inode returns an inode of the volume, or 0 (L250).
LEMMA NewInodeType ==
    ASSUME NEW r \in Run
    PROVE  new_inode(r) \in Run /\ new_inode(r).ret \in 0..INODE_COUNT
<1>1. 0 \in 0..INODE_COUNT /\ 0 \in Position
  BY Volume
<1>2. CASE r.disk.free_inodes_count = 0
  BY <1>1, <1>2, FlagType, ReturnType DEF new_inode, Mishaps
<1>3. CASE r.disk.free_inodes_count # 0 /\ r.disk.inode_bitmap = Inode
  BY <1>1, <1>3, StopType, ReturnType DEF new_inode
<1>4. CASE r.disk.free_inodes_count # 0 /\ r.disk.inode_bitmap # Inode
  <2> DEFINE i  == Min(Inode \ r.disk.inode_bitmap)
             r1 == Put(r, [r.disk EXCEPT !.inode_bitmap = @ \cup {i}])
             r2 == PutInode(r1, i, [ZeroInode EXCEPT !.perm = 6])
             r3 == Put(r2, [r2.disk EXCEPT !.free_inodes_count = Decr(@)])
  <2>1. i \in Inode
    <3>1. Inode \ r.disk.inode_bitmap # {}
      BY <1>4, RunDisk DEF Disk
    <3>2. Inode \ r.disk.inode_bitmap \subseteq Nat
      BY DEF Inode
    <3>3. QED
      BY <3>1, <3>2, MinOfNats
  <2> HIDE DEF i
  <2>2. r1 \in Run
    <3>1. [r.disk EXCEPT !.inode_bitmap = @ \cup {i}] \in Disk
      BY <2>1, RunDisk DEF Disk
    <3>2. QED
      BY <3>1, PutType
  <2> HIDE DEF r1
  <2>3. r2 \in Run
    BY <2>2, PutInodeType, ZeroInodeType
  <2> HIDE DEF r2
  <2>4. r3 \in Run
    <3>1. Decr(r2.disk.free_inodes_count) \in Position
      BY <2>3, RunDisk, CountsType DEF Disk, Position
    <3>2. [r2.disk EXCEPT !.free_inodes_count = Decr(@)] \in Disk
      BY <2>3, <3>1, RunDisk DEF Disk, Position
    <3>3. QED
      BY <2>3, <3>2, PutType
  <2> HIDE DEF r3
  <2>5. i \in 0..INODE_COUNT /\ i \in Position
    BY <2>1, Volume
  <2>6. Return(r3, i) \in Run /\ Return(r3, i).ret = i
    BY <2>4, <2>5, ReturnType
  <2>7. QED
    BY <1>4, <2>5, <2>6 DEF new_inode, i, r1, r2, r3
<1>5. QED
  BY <1>2, <1>3, <1>4

\* new_block returns a block of the volume; 0 also when it fails (L283).
LEMMA NewBlockRunType ==
    ASSUME NEW r \in Run
    PROVE  new_block(r) \in Run /\ new_block(r).ret \in Block
<1>1. 0 \in Block /\ 0 \in Position
  BY Volume
<1>2. CASE r.disk.free_blocks_count = 0
  BY <1>1, <1>2, FlagType, ReturnType DEF new_block, Mishaps
<1>3. CASE r.disk.free_blocks_count # 0 /\ r.disk.block_bitmap = Block
  BY <1>1, <1>3, StopType, ReturnType DEF new_block
<1>4. CASE r.disk.free_blocks_count # 0 /\ r.disk.block_bitmap # Block
  <2> DEFINE b  == Min(Block \ r.disk.block_bitmap)
             r1 == Put(r, [r.disk EXCEPT !.block_bitmap = @ \cup {b}])
             r2 == Put(r1, [r1.disk EXCEPT !.free_blocks_count = Decr(@)])
  <2>1. b \in Block
    <3>1. Block \ r.disk.block_bitmap # {}
      BY <1>4, RunDisk DEF Disk
    <3>2. Block \ r.disk.block_bitmap \subseteq Nat
      BY DEF Block
    <3>3. QED
      BY <3>1, <3>2, MinOfNats
  <2> HIDE DEF b
  <2>2. r1 \in Run
    <3>1. [r.disk EXCEPT !.block_bitmap = @ \cup {b}] \in Disk
      BY <2>1, RunDisk DEF Disk
    <3>2. QED
      BY <3>1, PutType
  <2> HIDE DEF r1
  <2>3. r2 \in Run
    <3>1. Decr(r1.disk.free_blocks_count) \in Position
      BY <2>2, RunDisk, CountsType DEF Disk, Position
    <3>2. [r1.disk EXCEPT !.free_blocks_count = Decr(@)] \in Disk
      BY <2>2, <3>1, RunDisk DEF Disk, Position
    <3>3. QED
      BY <2>2, <3>2, PutType
  <2> HIDE DEF r2
  <2>4. Return(r2, b) \in Run /\ Return(r2, b).ret = b
    BY <2>1, <2>3, Volume, ReturnType
  <2>5. QED
    BY <1>4, <2>1, <2>4 DEF new_block, b, r1, r2
<1>5. QED
  BY <1>2, <1>3, <1>4

-----------------------------------------------------------------------------
(* Release.                                                                 *)

\* free_inode keeps the inode bitmap and its count in range.
LEMMA FreeInodeType ==
    ASSUME NEW r \in Run, NEW i \in Inode
    PROVE  free_inode(r, i) \in Run
<1> DEFINE r1 == Put(r, [r.disk EXCEPT !.inode_bitmap = Inverted(@, i)])
           r2 == IF i \in r.disk.inode_bitmap THEN r1 ELSE Flag(r1, "double_free")
<1>1. r1 \in Run
  <2>1. [r.disk EXCEPT !.inode_bitmap = Inverted(@, i)] \in Disk
    BY RunDisk DEF Disk, Inverted
  <2>2. QED
    BY <2>1, PutType
<1> HIDE DEF r1
<1>2. r2 \in Run
  BY <1>1, FlagType DEF Mishaps
<1> HIDE DEF r2
<1>3. [r2.disk EXCEPT !.free_inodes_count = Incr(@)] \in Disk
  <2>1. Incr(r2.disk.free_inodes_count) \in Position
    BY <1>2, RunDisk, CountsType DEF Disk, Position
  <2>2. QED
    BY <1>2, <2>1, RunDisk DEF Disk, Position
<1>4. QED
  BY <1>2, <1>3, PutType DEF free_inode, r1, r2

\* Freeing any number of blocks keeps the block bitmap and its count in range.
LEMMA FreedType ==
    ASSUME NEW d \in Disk, NEW i, NEW k, NEW n \in Int
    PROVE  Freed(d, i, k, n) \in Disk
<1> DEFINE odd(b) == Cardinality({x \in 0..(k - 1) : d.inode_table[i].i_block[x] = b}) % 2 = 1
           bits == {b \in Block : (b \in d.block_bitmap) # odd(b)}
           count == (d.free_blocks_count + n) % USHORT
<1>1. bits \in SUBSET Block
  OBVIOUS
<1>2. count \in Position
  <2>1. d.free_blocks_count + n \in Int
    BY DEF Disk
  <2>2. QED
    BY <2>1, Ushort
<1>3. Freed(d, i, k, n) = [d EXCEPT !.block_bitmap = bits, !.free_blocks_count = count]
  BY DEF Freed
<1> HIDE DEF bits, count
<1>4. QED
  BY <1>1, <1>2, <1>3 DEF Disk, Position

\* So does access_file with free_file_block, at every write on the way.
LEMMA FreeFileBlocksType ==
    ASSUME NEW r \in Run, NEW i \in Inode
    PROVE  free_file_blocks(r, i) \in Run
<1> DEFINE n == r.disk.inode_table[i].i_blocks
           seen(k) == IF FreesTwice(r.disk, i, k) THEN r.mishaps \cup {"double_free"}
                                                  ELSE r.mishaps
           whole == {[disk |-> Freed(r.disk, i, k, k), mishaps |-> seen(k)] : k \in 0..(n - 1)}
           half == {[disk |-> Freed(r.disk, i, k + 1, k), mishaps |-> seen(k + 1)] : k \in 0..(n - 1)}
<1>1. n \in Nat
  BY RunDisk, VolumeAssumption DEF Disk, InodeEntry
<1>2. \A k : seen(k) \in SUBSET Mishaps
  BY RunDisk DEF Mishaps
<1>3. \A k, m : m \in Int => Freed(r.disk, i, k, m) \in Disk
  BY RunDisk, FreedType
<1> HIDE DEF n, seen
<1>4. whole \subseteq Cut /\ half \subseteq Cut
  <2>1. \A k \in 0..(n - 1) : k \in Int
    BY <1>1
  <2>2. QED
    BY <1>2, <1>3, <2>1 DEF Cut
<1> HIDE DEF whole, half
<1>5. CASE r.status # "ok"
  BY <1>5 DEF free_file_blocks
<1>6. CASE r.status = "ok"
  <2>1. free_file_blocks(r, i) =
          [r EXCEPT !.disk = Freed(r.disk, i, n, n), !.mishaps = seen(n),
                    !.cuts = r.cuts \cup whole \cup half]
    BY <1>6 DEF free_file_blocks, n, seen, whole, half
  <2>2. Freed(r.disk, i, n, n) \in Disk /\ seen(n) \in SUBSET Mishaps
    BY <1>1, <1>2, <1>3
  <2>3. r.cuts \cup whole \cup half \in SUBSET Cut
    BY <1>4, RunDisk
  <2>4. QED
    BY <2>1, <2>2, <2>3 DEF Run, Cut
<1>7. QED
  BY <1>5, <1>6

-----------------------------------------------------------------------------
(* Directories.                                                             *)

\* The x-th block of an inode is a block of the volume, and what it holds is
\* the bytes of a file or slots.
LEMMA BlockAtType ==
    ASSUME NEW d \in Disk, NEW i \in Inode, NEW x \in 0..(d.inode_table[i].i_blocks - 1)
    PROVE  d.inode_table[i].i_block[x] \in Block /\ BlockAt(d, i, x) \in Content
<1>1. d.inode_table[i] \in InodeEntry
  BY DEF Disk
<1>2. x \in 0..(NDIRECT - 1)
  BY <1>1, VolumeAssumption DEF InodeEntry
<1>3. QED
  BY <1>1, <1>2 DEF InodeEntry, Disk, BlockAt

\* The blocks of a directory that hold a name are among its blocks, and there
\* is a first one.
LEMMA FirstHit ==
    ASSUME NEW d \in Disk, NEW i \in Inode, NEW name, Hits(d, i, name) # {}
    PROVE  /\ Min(Hits(d, i, name)) \in 0..(d.inode_table[i].i_blocks - 1)
           /\ Find(BlockAt(d, i, Min(Hits(d, i, name))), name) # 0
<1>1. Hits(d, i, name) \subseteq Nat
  BY DEF Hits
<1>2. Min(Hits(d, i, name)) \in Hits(d, i, name)
  BY <1>1, MinOfNats
<1>3. QED
  BY <1>2 DEF Hits

\* search_file returns an inode of the volume, or 0.
LEMMA SearchType ==
    ASSUME NEW d \in Disk, NEW i \in Inode, NEW name
    PROVE  search_file(d, i, name) \in 0..INODE_COUNT
<1>1. CASE Hits(d, i, name) = {}
  BY <1>1, Volume DEF search_file
<1>2. CASE Hits(d, i, name) # {}
  <2> DEFINE x == Min(Hits(d, i, name))
  <2>1. BlockAt(d, i, x) \in Content
    BY <1>2, FirstHit, BlockAtType
  <2>2. Find(BlockAt(d, i, x), name) \in 0..INODE_COUNT
    BY <2>1, FindType DEF Content
  <2>3. QED
    BY <1>2, <2>2 DEF search_file
<1>3. QED
  BY <1>1, <1>2

\* access_file with delete_in_block leaves blocks of slots.
LEMMA UnlinkType ==
    ASSUME NEW r \in Run, NEW i, NEW name
    PROVE  Unlink(r, i, name) \in Run
<1> DEFINE last == Min(Hits(r.disk, i, name))
           hit(b) == /\ \E x \in 0..last : r.disk.inode_table[i].i_block[x] = b
                     /\ r.disk.data[b] # FileBytes
                     /\ Matches(r.disk.data[b], name) # {}
           next == [b \in Block |-> IF hit(b) THEN Delete(r.disk.data[b], name)
                                              ELSE r.disk.data[b]]
           r1 == Put(r, [r.disk EXCEPT !.data = next])
<1>1. next \in [Block -> Content]
  <2>1. ASSUME NEW b \in Block PROVE next[b] \in Content
    <3>1. r.disk.data[b] \in Content
      BY RunDisk DEF Disk
    <3>2. CASE hit(b)
      BY <3>1, <3>2, DeleteType DEF Content
    <3>3. CASE ~hit(b)
      BY <3>1, <3>3
    <3>4. QED
      BY <3>2, <3>3
  <2>2. QED
    BY <2>1
<1> HIDE DEF next
<1>2. r1 \in Run
  <2>1. [r.disk EXCEPT !.data = next] \in Disk
    BY <1>1, RunDisk DEF Disk
  <2>2. QED
    BY <2>1, PutType
<1> HIDE DEF r1
<1>3. Flag(r1, "first_entry") \in Run
  BY <1>2, FlagType DEF Mishaps
<1>4. QED
  BY <1>2, <1>3 DEF Unlink, r1, next

\* add_file_block returns the block it appended, unless an index block is
\* needed: then the run is "deep".
LEMMA AddFileBlockType ==
    ASSUME NEW r \in Run, NEW i \in Inode
    PROVE  add_file_block(r, i) \in Run
<1> DEFINE n == r.disk.inode_table[i].i_blocks
           r1 == new_block(r)
           e == [r1.disk.inode_table[i] EXCEPT !.i_block[n] = r1.ret, !.i_blocks = n + 1]
<1>1. CASE n = NDIRECT
  BY <1>1, StopType DEF add_file_block
<1>2. CASE n # NDIRECT
  <2>1. n \in 0..NDIRECT
    BY RunDisk DEF Disk, InodeEntry
  <2>2. n + 1 \in 0..NDIRECT
    BY <1>2, <2>1, VolumeAssumption
  <2>3. r1 \in Run /\ r1.ret \in Block
    BY NewBlockRunType
  <2>4. r1.disk.inode_table[i] \in InodeEntry
    BY <2>3, RunDisk DEF Disk
  <2> HIDE DEF n, r1
  <2>5. e \in InodeEntry
    BY <2>2, <2>3, <2>4 DEF InodeEntry
  <2> HIDE DEF e
  <2>6. PutInode(r1, i, e) \in Run
    BY <2>3, <2>5, PutInodeType
  <2>7. Return(PutInode(r1, i, e), r1.ret) \in Run
    BY <2>3, <2>6, Volume, ReturnType
  <2>8. QED
    BY <1>2, <2>7 DEF add_file_block, n, r1, e
<1>3. QED
  BY <1>1, <1>2

\* Linking an entry keeps the disk a disk, whichever block takes it.
LEMMA LinkType ==
    ASSUME NEW r \in Run, NEW i \in Inode, NEW inode \in 0..INODE_COUNT,
           NEW name \in AllNames
    PROVE  Link(r, i, inode, name) \in Run
<1> DEFINE n    == r.disk.inode_table[i].i_blocks
           room == {x \in 0..(n - 1) : CanInsert(BlockAt(r.disk, i, x), name)}
           b    == r.disk.inode_table[i].i_block[Min(room)]
           r1   == PutBlock(r, b, Insert(r.disk.data[b], inode, name))
           r2   == add_file_block(r, i)
           r3   == PutBlock(Flag(r2, "exposed_block"), r2.ret, FirstEntry(inode, name))
<1>1. Stop(r, "lost") \in Run
  BY StopType
<1>2. r2 \in Run
  BY AddFileBlockType
<1>3. [r3 EXCEPT !.mishaps = r2.mishaps] \in Run
  <2> HIDE DEF r2
  <2>1. Flag(r2, "exposed_block") \in Run
    BY <1>2, FlagType DEF Mishaps
  <2>2. FirstEntry(inode, name) \in Content
    BY NewBlockType DEF Content
  <2>3. r3 \in Run
    BY <2>1, <2>2, PutBlockType
  <2> HIDE DEF r3
  <2>4. r2.mishaps \in SUBSET Mishaps
    BY <1>2, RunDisk
  <2>5. QED
    BY <2>3, <2>4 DEF Run
<1>4. ASSUME room # {} PROVE r1 \in Run
  <2>1. Min(room) \in room
    <3>1. room \subseteq Nat
      OBVIOUS
    <3>2. QED
      BY <1>4, <3>1, MinOfNats
  <2>2. BlockAt(r.disk, i, Min(room)) \in Content \ {FileBytes}
    BY <2>1, RunDisk, BlockAtType DEF CanInsert
  <2>3. r.disk.data[b] \in Image
    BY <2>2 DEF BlockAt, Content
  <2>4. Insert(r.disk.data[b], inode, name) \in Content
    BY <2>3, InsertType DEF Content
  <2>5. QED
    BY <2>4, PutBlockType
<1>5. ASSUME room # {} PROVE Flag(r1, "gap_overwrite") \in Run
  <2> HIDE DEF r1
  <2>1. QED
    BY <1>4, <1>5, FlagType DEF Mishaps
<1>6. QED
  BY <1>1, <1>3, <1>4, <1>5 DEF Link

\* i_size wraps like the unsigned int it is.
LEMMA ResizeType ==
    ASSUME NEW r \in Run, NEW i \in Inode, NEW delta \in Int
    PROVE  Resize(r, i, delta) \in Run
<1> DEFINE e == r.disk.inode_table[i]
<1>1. e \in InodeEntry
  BY RunDisk DEF Disk
<1> HIDE DEF e
<1>2. (e.i_size + delta) % SIZE_MOD \in 0..(SIZE_MOD - 1)
  <2>1. e.i_size + delta \in Int
    BY <1>1, VolumeAssumption DEF InodeEntry
  <2>2. QED
    BY <2>1, VolumeAssumption
<1>3. [e EXCEPT !.i_size = (@ + delta) % SIZE_MOD] \in InodeEntry
  BY <1>1, <1>2 DEF InodeEntry
<1>4. QED
  BY <1>3, PutInodeType DEF Resize, e

\* new_dir_entry returns the inode it took, or 0 (L313-L370).
LEMMA NewDirEntryType ==
    ASSUME NEW r \in Run, NEW name, NEW type \in {FT_REG_FILE, FT_DIR},
           NEW parent \in Inode
    PROVE  /\ new_dir_entry(r, name, type, parent) \in Run
           /\ new_dir_entry(r, name, type, parent).ret \in 0..INODE_COUNT
<1> DEFINE r1 == new_inode(r)
           i  == r1.ret
           made(d) == d.inode_table[i]
           e2 == [made(r1.disk) EXCEPT !.type = type,
                                        !.perm = IF name \in ExecNames THEN 7 ELSE @]
           r2 == IF i = 0 THEN r1 ELSE PutInode(r1, i, e2)
           r3 == Put(r2, [r2.disk EXCEPT !.used_dirs_count = Incr(@)])
           r4 == new_block(r3)
           r5 == PutBlock(r4, r4.ret, DirImage(i, parent))
           e6 == [made(r5.disk) EXCEPT !.i_blocks = 1, !.i_size = 17,
                                        !.i_block[0] = r4.ret, !.perm = 6]
           r6 == IF i = 0 THEN r5 ELSE PutInode(r5, i, e6)
<1>1. r1 \in Run /\ i \in 0..INODE_COUNT /\ i \in Position
  BY NewInodeType, Volume
<1>2. ASSUME NEW q \in Run, i # 0 PROVE q.disk.inode_table[i] \in InodeEntry
  <2>1. i \in Inode
    BY <1>1, <1>2 DEF Inode
  <2>2. QED
    BY <2>1, RunDisk DEF Disk
<1> HIDE DEF r1, i
<1>3. r2 \in Run
  <2>1. ASSUME i # 0 PROVE e2 \in InodeEntry
    <3> DEFINE e == r1.disk.inode_table[i]
    <3>1. e \in InodeEntry
      BY <1>1, <1>2, <2>1
    <3> HIDE DEF e
    <3> DEFINE p == IF name \in ExecNames THEN 7 ELSE e.perm
    <3>2. p \in 0..7
      BY <3>1 DEF InodeEntry
    <3> HIDE DEF p
    <3>3. [e EXCEPT !.type = type, !.perm = p] \in InodeEntry
      BY <3>1, <3>2 DEF InodeEntry
    <3>4. QED
      BY <3>3 DEF e, p
  <2>2. QED
    BY <1>1, <2>1, PutInodeType
<1> HIDE DEF r2
<1>4. r3 \in Run
  <2>1. Incr(r2.disk.used_dirs_count) \in Position
    BY <1>3, RunDisk, CountsType DEF Disk, Position
  <2>2. [r2.disk EXCEPT !.used_dirs_count = Incr(@)] \in Disk
    BY <1>3, <2>1, RunDisk DEF Disk, Position
  <2>3. QED
    BY <1>3, <2>2, PutType
<1> HIDE DEF r3
<1>5. r4 \in Run /\ r4.ret \in Block
  BY <1>4, NewBlockRunType
<1> HIDE DEF r4
<1>6. r5 \in Run
  <2>1. DirImage(i, parent) \in Content
    <3>1. parent \in 0..INODE_COUNT /\ NoName \in AllNames
      BY Volume DEF AllNames
    <3>2. QED
      BY <1>1, <3>1, NewBlockType DEF Content
  <2>2. QED
    BY <1>5, <2>1, PutBlockType
<1> HIDE DEF r5
<1>7. r6 \in Run
  <2>1. ASSUME i # 0 PROVE e6 \in InodeEntry
    <3> DEFINE e == r5.disk.inode_table[i]
    <3>1. e \in InodeEntry
      BY <1>2, <1>6, <2>1
    <3> HIDE DEF e
    <3>2. 1 \in 0..NDIRECT /\ 17 \in 0..(SIZE_MOD - 1)
      BY VolumeAssumption
    <3> DEFINE a == [e.i_block EXCEPT ![0] = r4.ret]
    <3>3. a \in [0..(NDIRECT - 1) -> Block]
      BY <1>5, <3>1 DEF InodeEntry
    <3> HIDE DEF a
    <3> DEFINE p == 6
    <3>4. p \in 0..7
      OBVIOUS
    <3> HIDE DEF p
    <3>5. [e EXCEPT !.i_blocks = 1, !.i_size = 17, !.i_block = a, !.perm = p] \in InodeEntry
      BY <3>1, <3>2, <3>3, <3>4 DEF InodeEntry
    <3>6. QED
      BY <3>5 DEF e, a, p
  <2>2. QED
    BY <1>6, <2>1, PutInodeType
<1> HIDE DEF r6
<1>8. Return(IF type = FT_DIR THEN r6 ELSE r2, i) \in Run
  BY <1>1, <1>3, <1>7, ReturnType
<1>9. Return(IF type = FT_DIR THEN r6 ELSE r2, i).ret = i
  BY <1>1, <1>3, <1>7, ReturnType
<1>10. new_dir_entry(r, name, type, parent) = Return(IF type = FT_DIR THEN r6 ELSE r2, i)
  BY DEF new_dir_entry, r1, i, r2, r3, r4, r5, r6
<1>11. QED
  BY <1>1, <1>8, <1>9, <1>10

-----------------------------------------------------------------------------
(* Format.                                                                  *)

\* A disk zeroed up to any block is a disk.
LEMMA ZeroedType ==
    ASSUME NEW d \in Disk, NEW k \in Int
    PROVE  Zeroed(d, k) \in Disk
<1>1. 0 \in Position
  BY Ushort DEF Position
<1>2. Zeroed(d, k).inode_table \in [Inode -> InodeEntry]
  BY ZeroInodeType DEF Zeroed, Disk
<1>3. Zeroed(d, k).data \in [Block -> Content]
  BY DEF Zeroed, Disk, Content, Image
<1>4. QED
  BY <1>1, <1>2, <1>3 DEF Zeroed, Disk, Position

\* So is the one initialize_disk leaves, at every write on the way.
LEMMA InitializeDiskType ==
    ASSUME NEW r \in Run
    PROVE  initialize_disk(r) \in Run
<1> DEFINE last == 3 + ITABLE_BLOCKS + DATA_BLOCK_COUNT
           cuts == {[disk |-> Zeroed(r.disk, k), mishaps |-> r.mishaps] : k \in 0..(last - 1)}
           zero == [r EXCEPT !.disk = Zeroed(r.disk, last), !.cuts = r.cuts \cup cuts]
           desc == Put(zero, [zero.disk EXCEPT !.free_blocks_count = DATA_BLOCK_COUNT,
                                               !.free_inodes_count = INODE_COUNT,
                                               !.used_dirs_count = 0])
<1>1. last \in Int
  <2>1. INODE_COUNT + INODES_PER_BLOCK - 1 \in Int /\ INODES_PER_BLOCK \in Nat \ {0}
    BY Volume, VolumeAssumption
  <2>2. ITABLE_BLOCKS \in Int
    BY <2>1 DEF ITABLE_BLOCKS
  <2>3. QED
    BY <2>2, Volume
<1> HIDE DEF last
<1>2. cuts \subseteq Cut
  <2>1. \A k \in 0..(last - 1) : k \in Int
    BY <1>1
  <2>2. QED
    BY <2>1, RunDisk, ZeroedType DEF Cut
<1> HIDE DEF cuts
<1>3. zero \in Run
  <2>1. Zeroed(r.disk, last) \in Disk
    BY <1>1, RunDisk, ZeroedType
  <2>2. r.cuts \cup cuts \in SUBSET Cut
    BY <1>2, RunDisk
  <2>3. QED
    BY <2>1, <2>2 DEF Run, Cut
<1> HIDE DEF zero
<1>4. desc \in Run
  <2>1. DATA_BLOCK_COUNT \in Position /\ INODE_COUNT \in Position /\ 0 \in Position
    BY VolumeAssumption, SizesAssumption, Ushort DEF Position
  <2>2. [zero.disk EXCEPT !.free_blocks_count = DATA_BLOCK_COUNT,
                          !.free_inodes_count = INODE_COUNT,
                          !.used_dirs_count = 0] \in Disk
    BY <1>3, <2>1, RunDisk DEF Disk, Position
  <2>3. QED
    BY <1>3, <2>2, PutType
<1> HIDE DEF desc
<1>5. new_dir_entry(desc, "root", FT_DIR, ROOT) \in Run
  BY <1>4, Volume, NewDirEntryType
<1>6. QED
  BY <1>5 DEF initialize_disk, desc, zero, cuts, last

\* The volume the program starts with is a volume.
LEMMA FreshDiskType == FreshDisk \in Disk
<1> DEFINE blank == [block_bitmap |-> {}, inode_bitmap |-> {}, free_blocks_count |-> 0,
                     free_inodes_count |-> 0, used_dirs_count |-> 0,
                     inode_table |-> [i \in Inode |-> ZeroInode],
                     data |-> [b \in Block |-> {}]]
<1>1. blank \in Disk
  <2>1. 0 \in Position
    BY Ushort DEF Position
  <2>2. [i \in Inode |-> ZeroInode] \in [Inode -> InodeEntry]
    BY ZeroInodeType
  <2>3. [b \in Block |-> {}] \in [Block -> Content]
    BY DEF Content, Image
  <2>4. QED
    BY <2>1, <2>2, <2>3 DEF Disk, Position
<1> HIDE DEF blank
<1>2. Begin(blank, {}) \in Run
  BY <1>1, BeginType
<1>3. QED
  BY <1>2, InitializeDiskType, RunDisk DEF FreshDisk, blank

-----------------------------------------------------------------------------
(* The runs of the commands are runs.                                       *)

\* The names a command takes are names, "." and "..".
LEMMA ArgsType == Names \subseteq Args /\ Args \subseteq AllNames
BY DotsAssumption DEF Args, AllNames

\* The search every command begins with is a run.
LEMMA SearchRunType ==
    ASSUME TypeOK, NEW name
    PROVE  Search(name) \in Run
<1>1. Begin(disk, mishaps) \in Run
  BY BeginType DEF TypeOK
<1>2. QED
  BY <1>1, StopType DEF Search

\* A command works on an inode of the volume.
LEMMA TargetType ==
    ASSUME TypeOK, NEW name, NEW i \in Target(name)
    PROVE  i \in Inode
<1>1. i \in 0..INODE_COUNT /\ i # 0
  BY SearchType DEF TypeOK, Target, found
<1>2. QED
  BY <1>1 DEF Inode

\* So are mkdir and create.
LEMMA MakeRunType ==
    ASSUME TypeOK, NEW name \in AllNames, NEW type \in {FT_REG_FILE, FT_DIR}
    PROVE  MakeRun(name, type) \in Run
<1> DEFINE r1 == new_dir_entry(Search(name), name, type, current_dir)
           r2 == Link(r1, current_dir, r1.ret, name)
<1>1. current_dir \in Inode
  BY DEF TypeOK
<1>2. r1 \in Run /\ r1.ret \in 0..INODE_COUNT
  BY <1>1, SearchRunType, NewDirEntryType
<1> HIDE DEF r1
<1>3. r2 \in Run
  BY <1>1, <1>2, LinkType
<1> HIDE DEF r2
<1>4. EntryBytes(name) \in Int
  BY EntryBytesType
<1>5. QED
  BY <1>1, <1>3, <1>4, ResizeType DEF MakeRun, r1, r2

\* So are delete and rmdir.
LEMMA RemoveRunType ==
    ASSUME TypeOK, NEW name \in AllNames, NEW i \in Inode
    PROVE  RemoveRun(name, i) \in Run /\ RmdirRun(name, i) \in Run
<1> DEFINE r1 == Unlink(Search(name), current_dir, name)
           r2 == free_file_blocks(r1, i)
           r3 == free_inode(r2, i)
           r  == RemoveRun(name, i)
           s  == Put(r, [r.disk EXCEPT !.used_dirs_count = Decr(@)])
<1>1. current_dir \in Inode
  BY DEF TypeOK
<1>2. r1 \in Run
  BY SearchRunType, UnlinkType
<1> HIDE DEF r1
<1>3. r2 \in Run
  BY <1>2, FreeFileBlocksType
<1> HIDE DEF r2
<1>4. r3 \in Run
  BY <1>3, FreeInodeType
<1> HIDE DEF r3
<1>5. r \in Run
  <2>1. -EntryBytes(name) \in Int
    BY EntryBytesType
  <2>2. QED
    BY <1>1, <1>4, <2>1, ResizeType DEF RemoveRun, r1, r2, r3
<1> HIDE DEF r
<1>6. s \in Run
  <2>1. Decr(r.disk.used_dirs_count) \in Position
    BY <1>5, RunDisk, CountsType DEF Disk, Position
  <2>2. [r.disk EXCEPT !.used_dirs_count = Decr(@)] \in Disk
    BY <1>5, <2>1, RunDisk DEF Disk, Position
  <2>3. QED
    BY <1>5, <2>2, PutType
<1> HIDE DEF s
<1>7. RmdirRun(name, i) \in Run
  <2>1. RmdirRun(name, i) \in {s, Flag(s, "open_dir_removed")}
    BY DEF RmdirRun, s, r
  <2>2. QED
    BY <1>6, <2>1, FlagType DEF Mishaps
<1>8. QED
  BY <1>5, <1>7 DEF r

\* So is chmod.
LEMMA AttribRunType ==
    ASSUME TypeOK, NEW name, NEW i \in Inode, NEW change \in {2, 4, 6, 7}
    PROVE  PutInode(Search(name), i, [entry(i) EXCEPT !.perm = change]) \in Run
<1>1. entry(i) \in InodeEntry
  BY DEF TypeOK, Disk, entry
<1>2. change \in 0..7
  OBVIOUS
<1>3. [entry(i) EXCEPT !.perm = change] \in InodeEntry
  BY <1>1, <1>2 DEF InodeEntry
<1>4. QED
  BY <1>3, SearchRunType, PutInodeType

\* So is write.
LEMMA WriteRunType ==
    ASSUME TypeOK, NEW name, NEW i \in Inode, NEW n \in Nat
    PROVE  WriteRun(name, i, n) \in Run
<1> DEFINE r0 == IF entry(i).type = FT_DIR THEN Flag(Search(name), "dir_written") ELSE Search(name)
           w == WriteStart(r0, i)
           fill(q) == PutBlock(q, LastBlock(q, i), FileBytes)
           r1 == IF w.pos + n < BLOCK_SIZE THEN w.run ELSE add_file_block(fill(w.run), i)
<1>1. w.run \in Run
  <2> DEFINE r  == r0
             e  == r.disk.inode_table[i]
             q  == new_block(r)
             e1 == [e EXCEPT !.i_block[0] = q.ret, !.i_blocks = 1]
  <2>1. r \in Run
    BY SearchRunType, FlagType DEF Mishaps
  <2>2. e \in InodeEntry
    BY <2>1, RunDisk DEF Disk
  <2> HIDE DEF r
  <2>3. q \in Run /\ q.ret \in Block
    BY <2>1, NewBlockRunType
  <2> HIDE DEF q, e
  <2>4. e1 \in InodeEntry
    <3>1. 1 \in 0..NDIRECT
      BY VolumeAssumption
    <3>2. QED
      BY <2>2, <2>3, <3>1 DEF InodeEntry
  <2> HIDE DEF e1
  <2>5. PutInode(q, i, e1) \in Run
    BY <2>3, <2>4, PutInodeType
  <2>6. add_file_block(r, i) \in Run
    BY <2>1, AddFileBlockType
  <2>7. w.run \in {PutInode(q, i, e1), add_file_block(r, i), r}
    BY DEF WriteStart, r, e, q, e1
  <2>8. QED
    BY <2>1, <2>5, <2>6, <2>7
<1>2. ASSUME NEW q \in Run PROVE fill(q) \in Run
  BY PutBlockType DEF Content
<1>3. WriteRun(name, i, n) = Resize(fill(r1), i, n - 1)
  BY DEF WriteRun
<1> HIDE DEF w, fill
<1>4. r1 \in Run
  BY <1>1, <1>2, AddFileBlockType
<1> HIDE DEF r1
<1>5. n - 1 \in Int
  OBVIOUS
<1>6. QED
  BY <1>2, <1>3, <1>4, <1>5, ResizeType

\* So is format.
LEMMA FormatRunType ==
    ASSUME TypeOK
    PROVE  FormatRun \in Run
BY BeginType, InitializeDiskType DEF TypeOK, FormatRun

-----------------------------------------------------------------------------
(* Type correctness.                                                        *)

\* What a kill leaves has its types.
LEMMA CutType ==
    ASSUME TypeOK, NEW r \in Run, NEW why \in SUBSET Mishaps, IsCut(r, why)
    PROVE  TypeOK'
<1>1. PICK c \in r.cuts : disk' = c.disk /\ mishaps' = c.mishaps \cup {"cut"} \cup why
  BY DEF IsCut
<1>2. c \in Cut
  BY RunDisk
<1>3. disk' \in Disk /\ mishaps' \subseteq Mishaps
  BY <1>1, <1>2 DEF Cut, Mishaps
<1>4. crashes' \in 0..MaxCrashes
  BY SessionAssumption DEF TypeOK, IsCut
<1>5. QED
  BY <1>3, <1>4, Volume DEF IsCut, Restarted, TypeOK

\* However a command ends, the state it leaves has its types.
LEMMA DoesType ==
    ASSUME TypeOK, NEW r \in Run, Does(r)
    PROVE  TypeOK'
<1>1. CASE Completes(r) /\ UNCHANGED <<current_dir, fopen_table>>
  BY <1>1, RunDisk DEF Completes, TypeOK
<1>2. CASE GetsLost(r)
  BY <1>2, RunDisk, Volume DEF GetsLost, Restarted, TypeOK
<1>3. CASE IsCut(r, {})
  BY <1>3, CutType
<1>4. QED
  BY <1>1, <1>2, <1>3 DEF Does

\* The volume, the current directory and the open file table keep their types
\* through every command, format, restart and kill: no counter, size, inode
\* number or slot of ext2_fs.c ever leaves the range of its C type.
THEOREM TypeCorrect == Spec => []TypeOK
<1>1. Init => TypeOK
  <2>1. 0 \in 0..MaxCrashes
    BY SessionAssumption
  <2>2. QED
    BY <2>1, FreshDiskType, Volume DEF Init, TypeOK
<1>2. TypeOK /\ [Next]_vars => TypeOK'
  <2> SUFFICES ASSUME TypeOK, [Next]_vars PROVE TypeOK'
    OBVIOUS
  <2>1. ASSUME NEW name \in Args, mkdir(name) PROVE TypeOK'
    BY <2>1, ArgsType, MakeRunType, DoesType DEF mkdir
  <2>2. ASSUME NEW name \in Args, create(name) PROVE TypeOK'
    BY <2>2, ArgsType, MakeRunType, DoesType DEF create
  <2>3. ASSUME NEW name \in Args, delete(name) PROVE TypeOK'
    <3>1. PICK i \in Target(name) : Does(RemoveRun(name, i))
      BY <2>3 DEF delete
    <3>2. QED
      BY <3>1, ArgsType, TargetType, RemoveRunType, DoesType
  <2>4. ASSUME NEW name \in Names, cd(name) PROVE TypeOK'
    BY <2>4, TargetType DEF cd, TypeOK
  <2>5. ASSUME NEW name \in Args, open(name) PROVE TypeOK'
    BY <2>5, TargetType DEF open, TypeOK
  <2>6. ASSUME NEW name \in Args, close(name) PROVE TypeOK'
    BY <2>6, TargetType DEF close, TypeOK
  <2>7. ASSUME NEW name \in Args, NEW change \in Perms, attrib(name, change) PROVE TypeOK'
    <3>1. PICK i \in Target(name) :
            /\ change \in {2, 4, 6, 7}
            /\ Does(PutInode(Search(name), i, [entry(i) EXCEPT !.perm = change]))
      BY <2>7 DEF attrib
    <3>2. QED
      BY <3>1, TargetType, AttribRunType, DoesType
  <2>8. ASSUME NEW name \in Args, NEW n \in WriteLens, write(name, n) PROVE TypeOK'
    <3>1. PICK i \in Target(name) : Does(WriteRun(name, i, n))
      BY <2>8 DEF write
    <3>2. n \in Nat
      BY SizesAssumption, SessionAssumption
    <3>3. QED
      BY <3>1, <3>2, TargetType, WriteRunType, DoesType
  <2>9. ASSUME NEW name \in Names, rmdir(name) PROVE TypeOK'
    <3>1. PICK i \in Target(name) : Does(RmdirRun(name, i))
      BY <2>9 DEF rmdir
    <3>2. QED
      BY <3>1, ArgsType, TargetType, RemoveRunType, DoesType
  <2>10. CASE cdRoot
    BY <2>10, Volume DEF cdRoot, TypeOK
  <2>11. CASE cdUp
    <3> DEFINE b == disk.data[entry(current_dir).i_block[0]]
    <3>1. b \in Content /\ b # FileBytes
      <4>1. entry(current_dir) \in InodeEntry /\ 0 \in 0..(NDIRECT - 1)
        BY VolumeAssumption DEF TypeOK, Disk, entry
      <4>2. QED
        BY <2>11, <4>1 DEF cdUp, TypeOK, Disk, InodeEntry
    <3>2. 8 \in Position
      BY DEF Position, USHORT
    <3>3. At(b, 8).inode \in Inode
      <4>1. At(b, 8) \in Slot
        BY <3>1, <3>2, AtType DEF Content
      <4>2. QED
        BY <2>11, <4>1 DEF cdUp, Slot, Inode
    <3>4. QED
      BY <2>11, <3>3 DEF cdUp, TypeOK
  <2>12. CASE format
    <3>1. CASE disk' = FormatRun.disk /\ Restarted /\ mishaps' = {} /\ crashes' = 0
      BY <3>1, FormatRunType, RunDisk, Volume, SessionAssumption DEF Restarted, TypeOK
    <3>2. CASE IsCut(FormatRun, {"format_cut"})
      BY <3>2, FormatRunType, CutType DEF Mishaps
    <3>3. QED
      BY <2>12, <3>1, <3>2 DEF format
  <2>13. CASE restart
    BY <2>13, Volume DEF restart, Restarted, TypeOK
  <2>14. CASE UNCHANGED vars
    BY <2>14 DEF vars, TypeOK
  <2>15. QED
    BY <2>1, <2>2, <2>3, <2>4, <2>5, <2>6, <2>7, <2>8, <2>9, <2>10, <2>11,
       <2>12, <2>13, <2>14 DEF Next
<1>3. QED
  BY <1>1, <1>2, PTL DEF Spec

-----------------------------------------------------------------------------
(* The volume that format leaves.                                           *)

RootInode ==
    [type |-> FT_DIR, perm |-> 6, i_blocks |-> 1, i_size |-> 17,
     i_block |-> [x \in 0..(NDIRECT - 1) |-> 0]]

\* The root directory, in inode 1 and block 0, and nothing else.
Formatted ==
    [block_bitmap |-> {0}, inode_bitmap |-> {ROOT},
     free_blocks_count |-> Decr(DATA_BLOCK_COUNT), free_inodes_count |-> Decr(INODE_COUNT),
     used_dirs_count |-> Incr(0),
     inode_table |-> [i \in Inode |-> IF i = ROOT THEN RootInode ELSE ZeroInode],
     data |-> [b \in Block |-> IF b = 0 THEN DirImage(ROOT, ROOT) ELSE {}]]

\* Every inode is in one of the blocks of the inode table.
LEMMA InodeTableBlocks ==
    ASSUME NEW i \in Inode
    PROVE  (i - 1) \div INODES_PER_BLOCK < ITABLE_BLOCKS /\ ITABLE_BLOCKS \in Nat
<1> DEFINE n == INODES_PER_BLOCK
           a == (i - 1) \div n
           c == INODE_COUNT + n - 1
           b == c \div n
<1>1. n \in Nat \ {0} /\ i \in Int /\ 1 <= i /\ i <= INODE_COUNT /\ INODE_COUNT \in Nat
  BY VolumeAssumption, Volume DEF Inode
<1>2. c \in Nat /\ i - 1 \in Nat
  BY <1>1
<1>3. b = ITABLE_BLOCKS
  BY DEF ITABLE_BLOCKS
<1> HIDE DEF c
<1> SUFFICES a < b /\ b \in Nat
  BY <1>3
<1>4. /\ a \in Nat /\ n * a <= i - 1
      /\ b \in Nat /\ c < n * b + n
  <2>1. ASSUME NEW m \in Nat PROVE m \div n \in Nat /\ n * (m \div n) <= m /\ m < n * (m \div n) + n
    BY <1>1, <2>1
  <2>2. QED
    BY <1>2, <2>1
<1> HIDE DEF a, b
<1>5. INODE_COUNT - 1 < n * b
  BY <1>1, <1>4 DEF c
<1>6. n * a < n * b
  BY <1>1, <1>4, <1>5
<1>7. SUFFICES ASSUME b <= a PROVE FALSE
  BY <1>4
<1>8. n * b <= n * a
  BY <1>1, <1>4, <1>7
<1>9. QED
  BY <1>1, <1>4, <1>6, <1>8

\* Disks that agree field by field are one.
LEMMA SameDisk ==
    ASSUME NEW a \in Disk, NEW b \in Disk,
           a.block_bitmap = b.block_bitmap, a.inode_bitmap = b.inode_bitmap,
           a.free_blocks_count = b.free_blocks_count, a.free_inodes_count = b.free_inodes_count,
           a.used_dirs_count = b.used_dirs_count, a.inode_table = b.inode_table, a.data = b.data
    PROVE  a = b
BY DEF Disk

\* A run that goes on, with this disk.
Holds(r, d) == r \in Run /\ r.status = "ok" /\ r.disk = d

\* A write leaves what it writes.
LEMMA PutHolds ==
    ASSUME NEW r \in Run, r.status = "ok", NEW d \in Disk
    PROVE  Holds(Put(r, d), d) /\ Put(r, d).ret = r.ret
<1>1. Put(r, d) \in Run /\ Put(r, d).ret = r.ret
  BY PutType
<1>2. Put(r, d).disk = d /\ Put(r, d).status = "ok"
  BY DEF Put, Run
<1>3. QED
  BY <1>1, <1>2 DEF Holds

\* The first inode of an empty volume is the root.
LEMMA FirstInode ==
    ASSUME NEW r \in Run, r.status = "ok", r.disk.inode_bitmap = {},
           r.disk.free_inodes_count # 0
    PROVE  LET d == r.disk
               q == new_inode(r)
           IN  /\ Holds(q, [d EXCEPT !.inode_bitmap = {ROOT},
                                     !.free_inodes_count = Decr(@),
                                     !.inode_table[ROOT] = [ZeroInode EXCEPT !.perm = 6]])
               /\ q.ret = ROOT
<1> DEFINE d  == r.disk
           z  == [ZeroInode EXCEPT !.perm = 6]
           d1 == [d EXCEPT !.inode_bitmap = @ \cup {ROOT}]
           d2 == [d1 EXCEPT !.inode_table[ROOT] = z]
           d3 == [d2 EXCEPT !.free_inodes_count = Decr(@)]
           e  == [d EXCEPT !.inode_bitmap = {ROOT}, !.free_inodes_count = Decr(@),
                           !.inode_table[ROOT] = z]
           r1 == Put(r, d1)
           r2 == PutInode(r1, ROOT, z)
           r3 == Put(r2, [r2.disk EXCEPT !.free_inodes_count = Decr(@)])
<1>1. d \in Disk /\ ROOT \in Inode /\ z \in InodeEntry /\ d.inode_bitmap = {}
      /\ d.free_inodes_count \in Position
  BY Volume, ZeroInodeType, RunDisk DEF Disk, Position
<1>2. Min(Inode \ r.disk.inode_bitmap) = ROOT
  <2>1. Inode \ r.disk.inode_bitmap = Inode
    BY <1>1
  <2>2. Inode # {} /\ Inode \subseteq Nat
    BY <1>1 DEF Inode
  <2>3. Min(Inode) \in Inode /\ \A i \in Inode : Min(Inode) <= i
    BY <2>2, MinOfNats
  <2>4. Min(Inode) = ROOT
    BY <1>1, <2>3 DEF Inode, ROOT
  <2>5. QED
    BY <2>1, <2>4
<1>3. new_inode(r) = Return(r3, ROOT)
  <2>1. r.disk.free_inodes_count # 0 /\ r.disk.inode_bitmap # Inode
    BY <1>1
  <2> HIDE DEF z
  <2>2. QED
    BY <1>2, <2>1 DEF new_inode, z
<1> HIDE DEF z, d
<1>4. d1 \in Disk /\ d2 \in Disk /\ d3 \in Disk /\ e \in Disk
  <2>1. d.inode_bitmap \cup {ROOT} \in SUBSET Inode /\ {ROOT} \in SUBSET Inode
    BY <1>1
  <2>2. Decr(d.free_inodes_count) \in 0..(USHORT - 1)
    BY <1>1, CountsType DEF Position
  <2>3. [d.inode_table EXCEPT ![ROOT] = z] \in [Inode -> InodeEntry]
    BY <1>1 DEF Disk
  <2>4. d1 \in Disk
    BY <1>1, <2>1 DEF Disk
  <2>5. d1.inode_table = d.inode_table /\ d1.free_inodes_count = d.free_inodes_count
        /\ d2.free_inodes_count = d.free_inodes_count
    BY <1>1 DEF Disk
  <2> HIDE DEF d1
  <2>6. d2 \in Disk
    BY <1>1, <2>3, <2>4, <2>5 DEF Disk
  <2> HIDE DEF d2
  <2>7. d3 \in Disk
    BY <2>2, <2>5, <2>6 DEF Disk
  <2>8. e \in Disk
    BY <1>1, <2>1, <2>2, <2>3 DEF Disk
  <2>9. QED
    BY <2>4, <2>6, <2>7, <2>8
<1>5. d3 = e
  <2>1. d.inode_bitmap \cup {ROOT} = {ROOT}
    BY <1>1
  <2>2. QED
    BY <1>1, <2>1 DEF Disk
<1> HIDE DEF e
<1>6. Holds(r1, d1)
  BY <1>4, PutHolds
<1> HIDE DEF r1, d1
<1>7. Holds(r2, d2)
  BY <1>1, <1>4, <1>6, PutHolds DEF Holds, PutInode
<1> HIDE DEF r2, d2
<1>8. Holds(r3, d3)
  BY <1>4, <1>7, PutHolds DEF Holds
<1> HIDE DEF r3, d3
<1>9. Holds(Return(r3, ROOT), e) /\ Return(r3, ROOT).ret = ROOT
  <2>1. ROOT \in Position
    BY Volume DEF Position, ROOT
  <2>2. QED
    BY <1>5, <1>8, <2>1, ReturnType DEF Holds, Return, Run
<1>10. QED
  BY <1>3, <1>9 DEF e, d, z

\* The first block of an empty volume is block 0.
LEMMA FirstBlock ==
    ASSUME NEW r \in Run, r.status = "ok", r.disk.block_bitmap = {},
           r.disk.free_blocks_count # 0
    PROVE  LET q == new_block(r)
           IN  /\ Holds(q, [r.disk EXCEPT !.block_bitmap = {0}, !.free_blocks_count = Decr(@)])
               /\ q.ret = 0
<1> DEFINE d  == r.disk
           d1 == [d EXCEPT !.block_bitmap = @ \cup {0}]
           d2 == [d1 EXCEPT !.free_blocks_count = Decr(@)]
           e  == [d EXCEPT !.block_bitmap = {0}, !.free_blocks_count = Decr(@)]
           r1 == Put(r, d1)
           r2 == Put(r1, [r1.disk EXCEPT !.free_blocks_count = Decr(@)])
<1>1. d \in Disk /\ 0 \in Block /\ d.block_bitmap = {} /\ d.free_blocks_count \in Position
  BY Volume, RunDisk DEF Disk, Position
<1>2. Min(Block \ r.disk.block_bitmap) = 0
  <2>1. Block \ r.disk.block_bitmap = Block
    BY <1>1
  <2>2. Block # {}
    BY <1>1
  <2>3. Block \subseteq Nat
    BY DEF Block
  <2>4. Min(Block) \in Block /\ \A i \in Block : Min(Block) <= i
    BY <2>2, <2>3, MinOfNats
  <2>5. Min(Block) = 0
    BY <1>1, <2>4 DEF Block
  <2>6. QED
    BY <2>1, <2>5
<1>3. new_block(r) = Return(r2, 0)
  <2>1. r.disk.free_blocks_count # 0 /\ r.disk.block_bitmap # Block
    BY <1>1
  <2>2. QED
    BY <1>2, <2>1 DEF new_block
<1> HIDE DEF d
<1>4. d1 \in Disk /\ d2 \in Disk /\ e \in Disk
  <2>1. d.block_bitmap \cup {0} \in SUBSET Block /\ {0} \in SUBSET Block
    BY <1>1
  <2>2. Decr(d.free_blocks_count) \in 0..(USHORT - 1)
    BY <1>1, CountsType DEF Position
  <2>3. d1 \in Disk
    BY <1>1, <2>1 DEF Disk
  <2>4. d1.free_blocks_count = d.free_blocks_count
    BY <1>1 DEF Disk
  <2> HIDE DEF d1
  <2>5. d2 \in Disk
    BY <2>2, <2>3, <2>4 DEF Disk
  <2>6. e \in Disk
    BY <1>1, <2>1, <2>2 DEF Disk
  <2>7. QED
    BY <2>3, <2>5, <2>6
<1>5. d2 = e
  <2>1. d.block_bitmap \cup {0} = {0}
    BY <1>1
  <2>2. QED
    BY <1>1, <2>1 DEF Disk
<1> HIDE DEF e
<1>6. Holds(r1, d1)
  BY <1>4, PutHolds
<1> HIDE DEF r1, d1
<1>7. Holds(r2, d2)
  BY <1>4, <1>6, PutHolds DEF Holds
<1> HIDE DEF r2, d2
<1>8. Holds(Return(r2, 0), e) /\ Return(r2, 0).ret = 0
  <2>1. 0 \in Position
    BY Volume
  <2>2. QED
    BY <1>5, <1>7, <2>1, ReturnType DEF Holds, Return, Run
<1>9. QED
  BY <1>3, <1>8 DEF e, d

\* On an empty volume new_dir_entry makes the root.
LEMMA RootMade ==
    ASSUME NEW r \in Run, r.status = "ok", r.disk.inode_bitmap = {}, r.disk.block_bitmap = {},
           r.disk.free_inodes_count # 0, r.disk.free_blocks_count # 0
    PROVE  LET d == r.disk
           IN  new_dir_entry(r, "root", FT_DIR, ROOT).disk =
                 [d EXCEPT !.inode_bitmap = {ROOT}, !.block_bitmap = {0},
                           !.free_inodes_count = Decr(@), !.free_blocks_count = Decr(@),
                           !.used_dirs_count = Incr(@),
                           !.inode_table[ROOT] = RootInode,
                           !.data[0] = DirImage(ROOT, ROOT)]
<1> DEFINE d  == r.disk
           i  == ROOT
           p  == IF "root" \in ExecNames THEN 7 ELSE 6
           z1 == [ZeroInode EXCEPT !.perm = 6]
           z2 == [z1 EXCEPT !.type = FT_DIR, !.perm = p]
           z6 == [z2 EXCEPT !.i_blocks = 1, !.i_size = 17, !.i_block[0] = 0, !.perm = 6]
           img == DirImage(i, i)
           q1 == new_inode(r)
           q2 == PutInode(q1, i, [q1.disk.inode_table[i] EXCEPT
                                    !.type = FT_DIR,
                                    !.perm = IF "root" \in ExecNames THEN 7 ELSE @])
           q3 == Put(q2, [q2.disk EXCEPT !.used_dirs_count = Incr(@)])
           q4 == new_block(q3)
           q5 == PutBlock(q4, 0, img)
           q6 == PutInode(q5, i, [q5.disk.inode_table[i] EXCEPT
                                    !.i_blocks = 1, !.i_size = 17,
                                    !.i_block[0] = 0, !.perm = 6])
           d1 == [d EXCEPT !.inode_bitmap = {ROOT}, !.free_inodes_count = Decr(@),
                           !.inode_table[ROOT] = z1]
           d2 == [d1 EXCEPT !.inode_table[i] = z2]
           d3 == [d2 EXCEPT !.used_dirs_count = Incr(@)]
           d4 == [d3 EXCEPT !.block_bitmap = {0}, !.free_blocks_count = Decr(@)]
           d5 == [d4 EXCEPT !.data[0] = img]
           d6 == [d5 EXCEPT !.inode_table[i] = z6]
<1>1. /\ d \in Disk /\ i \in Inode /\ i # 0 /\ 0 \in Block
      /\ z1 \in InodeEntry /\ z1.perm = 6 /\ p \in 0..7 /\ img \in Content
  <2>1. i \in 0..INODE_COUNT /\ NoName \in AllNames
    BY Volume DEF AllNames
  <2>2. img \in Content
    BY <2>1, NewBlockType DEF Content
  <2>3. z1 \in InodeEntry
    BY ZeroInodeType
  <2>4. z1.perm = 6
    BY DEF ZeroInode
  <2> HIDE DEF z1, img
  <2>5. QED
    BY <2>2, <2>3, <2>4, Volume, RunDisk DEF ROOT
<1>2. z2 \in InodeEntry /\ z6 \in InodeEntry /\ z6 = RootInode
  <2>1. z2 \in InodeEntry
    BY <1>1 DEF InodeEntry
  <2>2. 1 \in 0..NDIRECT /\ 17 \in 0..(SIZE_MOD - 1) /\ 0 \in 0..(NDIRECT - 1)
    BY VolumeAssumption
  <2>3. RootInode \in InodeEntry
    BY <2>2, <1>1 DEF RootInode, InodeEntry
  <2>4. z6 \in InodeEntry /\ z6 = RootInode
    <3> DEFINE a == [z2.i_block EXCEPT ![0] = 0]
               c == [x \in 0..(NDIRECT - 1) |-> 0]
               z == [z2 EXCEPT !.i_blocks = 1, !.i_size = 17, !.i_block = a, !.perm = 6]
    <3>1. z2.i_block = c /\ z2.type = FT_DIR
      BY DEF ZeroInode
    <3>2. [c EXCEPT ![0] = 0] = c
      OBVIOUS
    <3>3. c \in [0..(NDIRECT - 1) -> Block]
      BY <1>1
    <3> HIDE DEF z2, c
    <3>4. RootInode.i_block = c
      BY DEF RootInode, c
    <3>5. a = c
      BY <3>1, <3>2
    <3> HIDE DEF a
    <3>6. z \in InodeEntry
      <4> DEFINE six == 6
      <4>1. six \in 0..7
        OBVIOUS
      <4> HIDE DEF six
      <4>2. [z2 EXCEPT !.i_blocks = 1, !.i_size = 17, !.i_block = a, !.perm = six] \in InodeEntry
        BY <2>1, <2>2, <3>3, <3>5, <4>1 DEF InodeEntry
      <4>3. QED
        BY <4>2 DEF six
    <3>7. z.type = RootInode.type /\ z.perm = RootInode.perm /\ z.i_blocks = RootInode.i_blocks
          /\ z.i_size = RootInode.i_size /\ z.i_block = RootInode.i_block
      BY <2>1, <3>1, <3>4, <3>5 DEF InodeEntry, RootInode
    <3> HIDE DEF z
    <3>8. z = RootInode
      BY <2>3, <3>6, <3>7 DEF InodeEntry
    <3>9. QED
      BY <3>6, <3>8 DEF z, a
  <2>5. QED
    BY <2>1, <2>4
<1>3. Holds(q1, d1) /\ q1.ret = i
  <2> HIDE DEF q1
  <2>1. QED
    BY FirstInode DEF q1
<1> HIDE DEF q1, z1, p
<1>4. d1 \in Disk /\ q1 \in Run /\ q1.status = "ok" /\ q1.disk = d1
  BY <1>3, RunDisk DEF Holds
<1>5. d1.inode_table[i] = z1
  BY <1>1, <1>4 DEF Disk
<1> HIDE DEF d, img
<1>6. d2 \in Disk /\ d2.inode_table[i] = z2
  <2> HIDE DEF d1, z2
  <2>1. QED
    BY <1>1, <1>2, <1>4 DEF Disk
<1>7. Holds(q2, d2)
  <2>1. [q1.disk.inode_table[i] EXCEPT !.type = FT_DIR,
                !.perm = IF "root" \in ExecNames THEN 7 ELSE @] = z2
    BY <1>1, <1>4, <1>5 DEF p
  <2>2. q2 = Put(q1, d2)
    <3> HIDE DEF z2, d1
    <3>1. QED
      BY <1>1, <1>4, <2>1 DEF PutInode
  <2> HIDE DEF q2
  <2>3. QED
    BY <1>4, <1>6, <2>2, PutHolds
<1>8. d3 \in Disk /\ d3.block_bitmap = {} /\ d3.free_blocks_count = d.free_blocks_count
      /\ d3.free_blocks_count # 0 /\ d3.inode_table[i] = z2
  <2>1. d1.block_bitmap = d.block_bitmap /\ d1.free_blocks_count = d.free_blocks_count
    BY <1>1, <1>4 DEF Disk
  <2> HIDE DEF d1, z2
  <2>2. d2.block_bitmap = d1.block_bitmap /\ d2.free_blocks_count = d1.free_blocks_count
    BY <1>4, <1>6 DEF Disk
  <2>3. Incr(d2.used_dirs_count) \in Position
    BY <1>6, CountsType DEF Disk, Position
  <2> HIDE DEF d2
  <2>4. d3 \in Disk
    BY <1>6, <2>3 DEF Disk, Position
  <2>5. QED
    BY <1>6, <2>1, <2>2, <2>4 DEF Disk, d
<1>9. Holds(q3, d3)
  <2> HIDE DEF q2, d2
  <2>1. q2.disk = d2 /\ q2 \in Run /\ q2.status = "ok"
    BY <1>7 DEF Holds
  <2>2. QED
    BY <1>8, <2>1, PutHolds
<1> HIDE DEF q2, q3, d1, d2, d3, z2
<1>10. Holds(q4, d4) /\ q4.ret = 0 /\ q3 \in Run
  <2>1. q3.disk = d3 /\ q3 \in Run /\ q3.status = "ok"
    BY <1>9 DEF Holds
  <2>2. QED
    BY <1>8, <2>1, FirstBlock
<1>11. d4 \in Disk /\ q4 \in Run /\ q4.status = "ok" /\ q4.disk = d4 /\ d4.inode_table[i] = z2
  <2>1. d4.inode_table = d3.inode_table
    BY <1>8 DEF Disk
  <2> HIDE DEF d4, q4
  <2>2. QED
    BY <1>8, <1>10, <2>1, RunDisk DEF Holds
<1> HIDE DEF q4, d4
<1>12. d5 \in Disk /\ d5.inode_table[i] = z2
  BY <1>1, <1>11 DEF Disk
<1>13. Holds(q5, d5)
  BY <1>11, <1>12, PutHolds DEF PutBlock
<1> HIDE DEF q5, d5
<1>14. [q5.disk.inode_table[i] EXCEPT !.i_blocks = 1, !.i_size = 17, !.i_block[0] = 0,
                                       !.perm = 6] = z6
  BY <1>12, <1>13 DEF Holds
<1> HIDE DEF z6
<1>15. d6 \in Disk
  BY <1>1, <1>2, <1>12 DEF Disk
<1>16. Holds(q6, d6)
  BY <1>1, <1>13, <1>14, <1>15, PutHolds DEF PutInode, Holds
<1> HIDE DEF q6
<1>17. new_dir_entry(r, "root", FT_DIR, ROOT) = Return(q6, i)
  BY <1>1, <1>3, <1>10 DEF new_dir_entry, q1, q2, q3, q4, q5, q6, img
<1>18. Return(q6, i).disk = d6
  BY <1>16 DEF Holds, Return, Run
<1>19. d6 = [d EXCEPT !.inode_bitmap = {ROOT}, !.block_bitmap = {0},
                      !.free_inodes_count = Decr(@), !.free_blocks_count = Decr(@),
                      !.used_dirs_count = Incr(@), !.inode_table[ROOT] = RootInode,
                      !.data[0] = DirImage(ROOT, ROOT)]
  <2> DEFINE e == [d EXCEPT !.inode_bitmap = {ROOT}, !.block_bitmap = {0},
                            !.free_inodes_count = Decr(@), !.free_blocks_count = Decr(@),
                            !.used_dirs_count = Incr(@), !.inode_table[ROOT] = RootInode,
                            !.data[0] = DirImage(ROOT, ROOT)]
             T == d.inode_table
  <2>1. /\ d1.inode_bitmap = {ROOT} /\ d1.free_inodes_count = Decr(d.free_inodes_count)
        /\ d1.inode_table = [T EXCEPT ![i] = z1]
        /\ d1.block_bitmap = d.block_bitmap /\ d1.free_blocks_count = d.free_blocks_count
        /\ d1.used_dirs_count = d.used_dirs_count /\ d1.data = d.data
    BY <1>1 DEF d1, Disk
  <2>2. /\ d2.inode_bitmap = d1.inode_bitmap /\ d2.free_inodes_count = d1.free_inodes_count
        /\ d2.inode_table = [d1.inode_table EXCEPT ![i] = z2]
        /\ d2.block_bitmap = d1.block_bitmap /\ d2.free_blocks_count = d1.free_blocks_count
        /\ d2.used_dirs_count = d1.used_dirs_count /\ d2.data = d1.data
    BY <1>4 DEF d2, Disk
  <2>3. /\ d3.inode_bitmap = d2.inode_bitmap /\ d3.free_inodes_count = d2.free_inodes_count
        /\ d3.inode_table = d2.inode_table
        /\ d3.block_bitmap = d2.block_bitmap /\ d3.free_blocks_count = d2.free_blocks_count
        /\ d3.used_dirs_count = Incr(d2.used_dirs_count) /\ d3.data = d2.data
    BY <1>6 DEF d3, Disk
  <2>4. /\ d4.inode_bitmap = d3.inode_bitmap /\ d4.free_inodes_count = d3.free_inodes_count
        /\ d4.inode_table = d3.inode_table
        /\ d4.block_bitmap = {0} /\ d4.free_blocks_count = Decr(d3.free_blocks_count)
        /\ d4.used_dirs_count = d3.used_dirs_count /\ d4.data = d3.data
    BY <1>8 DEF d4, Disk
  <2>5. /\ d5.inode_bitmap = d4.inode_bitmap /\ d5.free_inodes_count = d4.free_inodes_count
        /\ d5.inode_table = d4.inode_table
        /\ d5.block_bitmap = d4.block_bitmap /\ d5.free_blocks_count = d4.free_blocks_count
        /\ d5.used_dirs_count = d4.used_dirs_count /\ d5.data = [d4.data EXCEPT ![0] = img]
    BY <1>11 DEF d5, Disk
  <2>6. /\ d6.inode_bitmap = d5.inode_bitmap /\ d6.free_inodes_count = d5.free_inodes_count
        /\ d6.inode_table = [d5.inode_table EXCEPT ![i] = z6]
        /\ d6.block_bitmap = d5.block_bitmap /\ d6.free_blocks_count = d5.free_blocks_count
        /\ d6.used_dirs_count = d5.used_dirs_count /\ d6.data = d5.data
    BY <1>12 DEF Disk
  <2>7. /\ e.inode_bitmap = {ROOT} /\ e.free_inodes_count = Decr(d.free_inodes_count)
        /\ e.inode_table = [T EXCEPT ![i] = RootInode]
        /\ e.block_bitmap = {0} /\ e.free_blocks_count = Decr(d.free_blocks_count)
        /\ e.used_dirs_count = Incr(d.used_dirs_count) /\ e.data = [d.data EXCEPT ![0] = img]
    BY <1>1 DEF Disk, img
  <2> HIDE DEF d6, T
  <2>8. d6.inode_table = [T EXCEPT ![i] = RootInode]
    <3>1. d6.inode_table = [[[T EXCEPT ![i] = z1] EXCEPT ![i] = z2] EXCEPT ![i] = RootInode]
      BY <1>2, <2>1, <2>2, <2>3, <2>4, <2>5, <2>6
    <3>2. QED
      BY <3>1
  <2>9. e \in Disk
    <3>1. /\ d6.inode_bitmap = {ROOT} /\ d6.block_bitmap = {0}
          /\ d6.free_inodes_count = Decr(d.free_inodes_count)
          /\ d6.free_blocks_count = Decr(d.free_blocks_count)
          /\ d6.used_dirs_count = Incr(d.used_dirs_count)
          /\ d6.inode_table = [d.inode_table EXCEPT ![i] = RootInode]
          /\ d6.data = [d.data EXCEPT ![0] = img]
      BY <2>1, <2>2, <2>3, <2>4, <2>5, <2>6, <2>8 DEF T
    <3>2. /\ {ROOT} \in SUBSET Inode /\ {0} \in SUBSET Block
          /\ Decr(d.free_inodes_count) \in 0..(USHORT - 1)
          /\ Decr(d.free_blocks_count) \in 0..(USHORT - 1)
          /\ Incr(d.used_dirs_count) \in 0..(USHORT - 1)
          /\ [d.inode_table EXCEPT ![i] = RootInode] \in [Inode -> InodeEntry]
          /\ [d.data EXCEPT ![0] = img] \in [Block -> Content]
      BY <1>15, <3>1 DEF Disk
    <3>3. QED
      BY <1>1, <3>2 DEF Disk, img
  <2> HIDE DEF e
  <2>10. d6 = e
    <3>1. /\ d6.inode_bitmap = e.inode_bitmap /\ d6.block_bitmap = e.block_bitmap
          /\ d6.free_inodes_count = e.free_inodes_count
          /\ d6.free_blocks_count = e.free_blocks_count
          /\ d6.used_dirs_count = e.used_dirs_count /\ d6.inode_table = e.inode_table
          /\ d6.data = e.data
      BY <2>1, <2>2, <2>3, <2>4, <2>5, <2>6, <2>7, <2>8
    <3>2. QED
      BY <1>15, <2>9, <3>1, SameDisk
  <2>11. QED
    BY <2>10 DEF e
<1>20. QED
  BY <1>17, <1>18, <1>19 DEF d

\* initialize_disk leaves just that, whatever the disk held before.
LEMMA FormattedDisk ==
    ASSUME NEW d \in Disk
    PROVE  initialize_disk(Begin(d, {})).disk = Formatted
<1> DEFINE r    == Begin(d, {})
           last == 3 + ITABLE_BLOCKS + DATA_BLOCK_COUNT
           z    == Zeroed(d, last)
           cuts == r.cuts \cup {[disk |-> Zeroed(r.disk, k), mishaps |-> r.mishaps] :
                                k \in 0..(last - 1)}
           zero == [r EXCEPT !.disk = Zeroed(@, last), !.cuts = cuts]
           e0   == [z EXCEPT !.free_blocks_count = DATA_BLOCK_COUNT,
                             !.free_inodes_count = INODE_COUNT,
                             !.used_dirs_count = 0]
           full == [zero.disk EXCEPT !.free_blocks_count = DATA_BLOCK_COUNT,
                             !.free_inodes_count = INODE_COUNT,
                             !.used_dirs_count = 0]
           desc == Put(zero, full)
           empty == [i \in Inode |-> ZeroInode]
           blank == [b \in Block |-> {}]
<1>1. ROOT \in Inode /\ 0 \in Block /\ ITABLE_BLOCKS \in Nat /\ DATA_BLOCK_COUNT \in Nat \ {0}
      /\ INODE_COUNT \in Nat \ {0} /\ ROOT # 0
  BY Volume, InodeTableBlocks, VolumeAssumption, SizesAssumption DEF Block, ROOT, Inode
<1>2. last > 2 /\ last \in Int /\ last > 1 /\ last > 0
  BY <1>1
<1>3. /\ z \in Disk /\ z.block_bitmap = {} /\ z.inode_bitmap = {}
      /\ z.inode_table = empty /\ z.data = blank
  <2>1. \A i \in Inode : 3 + (i - 1) \div INODES_PER_BLOCK < last
    <3>1. SUFFICES ASSUME NEW i \in Inode PROVE 3 + (i - 1) \div INODES_PER_BLOCK < last
      OBVIOUS
    <3> DEFINE a == (i - 1) \div INODES_PER_BLOCK
    <3>2. a < ITABLE_BLOCKS
      BY InodeTableBlocks
    <3>3. a \in Int
      BY VolumeAssumption DEF Inode
    <3> HIDE DEF a
    <3>4. 3 + a < last
      BY <1>1, <3>2, <3>3
    <3>5. QED
      BY <3>4 DEF a
  <2>2. \A b \in Block : 3 + ITABLE_BLOCKS + b < last
    BY <1>1 DEF Block
  <2> HIDE DEF last
  <2>3. /\ [i \in Inode |-> IF 3 + (i - 1) \div INODES_PER_BLOCK < last
                            THEN ZeroInode ELSE d.inode_table[i]] = empty
        /\ [b \in Block |-> IF 3 + ITABLE_BLOCKS + b < last THEN {} ELSE d.data[b]] = blank
    BY <2>1, <2>2
  <2> HIDE DEF empty, blank
  <2>4. QED
    BY <1>2, <2>3, ZeroedType DEF Zeroed
<1> HIDE DEF last
<1>4. cuts \subseteq Cut
  <2>1. \A k \in 0..(last - 1) : Zeroed(d, k) \in Disk
    BY <1>2, ZeroedType
  <2>2. QED
    BY <2>1 DEF Begin, Cut
<1>5. zero \in Run /\ zero.status = "ok" /\ zero.disk = z
  <2> HIDE DEF z, cuts
  <2>1. r \in Run /\ r.disk = d /\ r.status = "ok"
    BY BeginType DEF Begin
  <2> HIDE DEF r
  <2>2. zero.disk = z /\ zero.status = "ok"
    BY <2>1 DEF Run, z
  <2>3. zero = [r EXCEPT !.disk = z, !.cuts = cuts]
    BY <2>1 DEF z
  <2> HIDE DEF zero
  <2>4. zero \in Run
    BY <1>3, <1>4, <2>1, <2>3 DEF Run, Cut
  <2>5. QED
    BY <2>2, <2>4
<1> HIDE DEF z
<1>6. /\ e0 \in Disk /\ e0.block_bitmap = {} /\ e0.inode_bitmap = {}
      /\ e0.free_blocks_count = DATA_BLOCK_COUNT /\ e0.free_inodes_count = INODE_COUNT
      /\ e0.used_dirs_count = 0 /\ e0.inode_table = empty /\ e0.data = blank
  <2> HIDE DEF empty, blank
  <2>1. DATA_BLOCK_COUNT \in 0..(USHORT - 1) /\ INODE_COUNT \in 0..(USHORT - 1) /\ 0 \in 0..(USHORT - 1)
    BY VolumeAssumption, SizesAssumption, Ushort DEF Position
  <2>2. QED
    BY <1>3, <2>1 DEF Disk
<1> HIDE DEF e0
<1>7. desc \in Run /\ desc.status = "ok" /\ desc.disk = e0
  <2> HIDE DEF zero
  <2>1. full = e0
    BY <1>5 DEF e0
  <2>2. Holds(Put(zero, e0), e0)
    BY <1>5, <1>6, PutHolds
  <2>3. desc = Put(zero, e0)
    BY <2>1
  <2> HIDE DEF desc
  <2>4. QED
    BY <2>2, <2>3 DEF Holds
<1>8. initialize_disk(r) = new_dir_entry(desc, "root", FT_DIR, ROOT)
  BY DEF initialize_disk, last
<1> HIDE DEF desc, r, empty, blank
<1>9. new_dir_entry(desc, "root", FT_DIR, ROOT).disk =
         [e0 EXCEPT !.inode_bitmap = {ROOT}, !.block_bitmap = {0},
                    !.free_inodes_count = Decr(@), !.free_blocks_count = Decr(@),
                    !.used_dirs_count = Incr(@),
                    !.inode_table[ROOT] = RootInode,
                    !.data[0] = DirImage(ROOT, ROOT)]
  BY <1>1, <1>6, <1>7, RootMade
<1> DEFINE e == new_dir_entry(desc, "root", FT_DIR, ROOT).disk
<1>10. /\ e.block_bitmap = {0} /\ e.inode_bitmap = {ROOT}
       /\ e.free_blocks_count = Decr(DATA_BLOCK_COUNT) /\ e.free_inodes_count = Decr(INODE_COUNT)
       /\ e.used_dirs_count = Incr(0)
       /\ e.inode_table = [empty EXCEPT ![ROOT] = RootInode]
       /\ e.data = [blank EXCEPT ![0] = DirImage(ROOT, ROOT)]
       /\ e \in Disk
  <2>1. e \in Disk
    BY <1>1, <1>7, NewDirEntryType, RunDisk
  <2> HIDE DEF e
  <2>2. QED
    BY <1>6, <1>9, <2>1 DEF Disk, e
<1> HIDE DEF e
<1> DEFINE table == [i \in Inode |-> IF i = ROOT THEN RootInode ELSE ZeroInode]
           data  == [b \in Block |-> IF b = 0 THEN DirImage(ROOT, ROOT) ELSE {}]
<1>11. [empty EXCEPT ![ROOT] = RootInode] = table /\ [blank EXCEPT ![0] = DirImage(ROOT, ROOT)] = data
  BY DEF empty, blank
<1>12. Formatted = [block_bitmap |-> {0}, inode_bitmap |-> {ROOT},
                    free_blocks_count |-> Decr(DATA_BLOCK_COUNT),
                    free_inodes_count |-> Decr(INODE_COUNT),
                    used_dirs_count |-> Incr(0), inode_table |-> table, data |-> data]
  BY DEF Formatted
<1> HIDE DEF table, data
<1>13. e = Formatted
  <2>1. Formatted \in Disk
    <3>1. /\ {0} \in SUBSET Block /\ {ROOT} \in SUBSET Inode
          /\ Decr(DATA_BLOCK_COUNT) \in 0..(USHORT - 1) /\ Decr(INODE_COUNT) \in 0..(USHORT - 1)
          /\ Incr(0) \in 0..(USHORT - 1)
          /\ table \in [Inode -> InodeEntry] /\ data \in [Block -> Content]
      BY <1>10, <1>11 DEF Disk
    <3>2. QED
      BY <1>12, <3>1 DEF Disk
  <2>2. /\ Formatted.block_bitmap = {0} /\ Formatted.inode_bitmap = {ROOT}
        /\ Formatted.free_blocks_count = Decr(DATA_BLOCK_COUNT)
        /\ Formatted.free_inodes_count = Decr(INODE_COUNT)
        /\ Formatted.used_dirs_count = Incr(0)
        /\ Formatted.inode_table = table /\ Formatted.data = data
    BY <1>12
  <2>3. /\ e.block_bitmap = Formatted.block_bitmap /\ e.inode_bitmap = Formatted.inode_bitmap
        /\ e.free_blocks_count = Formatted.free_blocks_count
        /\ e.free_inodes_count = Formatted.free_inodes_count
        /\ e.used_dirs_count = Formatted.used_dirs_count
        /\ e.inode_table = Formatted.inode_table /\ e.data = Formatted.data
    BY <1>10, <1>11, <2>2
  <2>4. QED
    BY <1>10, <2>1, <2>3, SameDisk
<1>14. QED
  BY <1>8, <1>13 DEF e, r

\* Both the volume the program starts with and the one that format leaves.
LEMMA FreshDiskFormatted == FreshDisk = Formatted
<1> DEFINE blank == [block_bitmap |-> {}, inode_bitmap |-> {}, free_blocks_count |-> 0,
                     free_inodes_count |-> 0, used_dirs_count |-> 0,
                     inode_table |-> [i \in Inode |-> ZeroInode],
                     data |-> [b \in Block |-> {}]]
<1>1. blank \in Disk
  <2>1. 0 \in Position
    BY Ushort DEF Position
  <2>2. [i \in Inode |-> ZeroInode] \in [Inode -> InodeEntry]
    BY ZeroInodeType
  <2>3. [b \in Block |-> {}] \in [Block -> Content]
    BY DEF Content, Image
  <2>4. QED
    BY <2>1, <2>2, <2>3 DEF Disk, Position
<1> HIDE DEF blank
<1>2. QED
  BY <1>1, FormattedDisk DEF FreshDisk, blank

-----------------------------------------------------------------------------
(* The free counts against the bitmaps.                                     *)

Spoils == {"double_free", "format_cut"}

\* The drift of the disk of r is x inodes and y blocks, unless it is spoilt.
Level(r, x, y) ==
    r.mishaps \cap Spoils = {} =>
        InodeDrift(r.disk) = x /\ BlockDrift(r.disk) = y

\* A kill that leaves c makes it one more at most.
Near(c, x, y) ==
    c.mishaps \cap Spoils = {} =>
        Abs(InodeDrift(c.disk) - x) + Abs(BlockDrift(c.disk) - y) <= 1

\* q is a later stage of the run r: it forgets no mishap, it drifts no further
\* and is not lost when it goes on.
Keeps(r, q, x, y) ==
    /\ r.mishaps \subseteq q.mishaps
    /\ \A c \in q.cuts : c \in r.cuts \/ r.mishaps \subseteq c.mishaps
    /\ Level(r, x, y) => Level(q, x, y)
    /\ Level(r, x, y) => \A c \in q.cuts : c \in r.cuts \/ Near(c, x, y)
    /\ q.status = "ok" => r.status = "ok" /\ ("lost" \in q.mishaps => "lost" \in r.mishaps)

\* A drift that a bounded number of kills can leave.
Drift(x, y) == x \in Int /\ y \in Int /\ Abs(x) + Abs(y) <= MaxCrashes

SameCounts(d, e) ==
    /\ d.inode_bitmap = e.inode_bitmap /\ d.free_inodes_count = e.free_inodes_count
    /\ d.block_bitmap = e.block_bitmap /\ d.free_blocks_count = e.free_blocks_count

-----------------------------------------------------------------------------

\* A run keeps what its stages keep.
LEMMA KeepsTransitive ==
    ASSUME NEW r, NEW q, NEW s, NEW x, NEW y, Keeps(r, q, x, y), Keeps(q, s, x, y)
    PROVE  Keeps(r, s, x, y)
<1>1. r.mishaps \subseteq s.mishaps
  BY DEF Keeps
<1>2. \A c \in s.cuts : c \in r.cuts \/ r.mishaps \subseteq c.mishaps
  <2>1. TAKE c \in s.cuts
  <2>2. c \in q.cuts \/ q.mishaps \subseteq c.mishaps
    BY DEF Keeps
  <2>3. QED
    BY <2>2 DEF Keeps
<1>3. Level(r, x, y) => Level(s, x, y)
  BY DEF Keeps
<1>4. Level(r, x, y) => \A c \in s.cuts : c \in r.cuts \/ Near(c, x, y)
  <2>1. SUFFICES ASSUME Level(r, x, y), NEW c \in s.cuts PROVE c \in r.cuts \/ Near(c, x, y)
    OBVIOUS
  <2>2. Level(q, x, y)
    BY <2>1 DEF Keeps
  <2>3. c \in q.cuts \/ Near(c, x, y)
    BY <2>2 DEF Keeps
  <2>4. QED
    BY <2>1, <2>3 DEF Keeps
<1>5. s.status = "ok" => r.status = "ok" /\ ("lost" \in s.mishaps => "lost" \in r.mishaps)
  BY DEF Keeps
<1>6. QED
  BY <1>1, <1>2, <1>3, <1>4, <1>5 DEF Keeps

\* A stage that does nothing keeps everything.
LEMMA KeepsSame ==
    ASSUME NEW r, NEW x, NEW y
    PROVE  Keeps(r, r, x, y)
BY DEF Keeps

\* The bitmaps have as many bits as the volume has inodes and blocks.
LEMMA Finite ==
    /\ IsFiniteSet(Inode) /\ Cardinality(Inode) = INODE_COUNT
    /\ IsFiniteSet(Block) /\ Cardinality(Block) = DATA_BLOCK_COUNT
<1>1. INODE_COUNT \in Nat /\ INODE_COUNT > 0 /\ DATA_BLOCK_COUNT \in Nat /\ DATA_BLOCK_COUNT > 0
  BY SizesAssumption, VolumeAssumption, Ushort
<1>2. IsFiniteSet(1..INODE_COUNT) /\ Cardinality(1..INODE_COUNT) = INODE_COUNT
  BY <1>1, FS_Interval
<1>3. /\ IsFiniteSet(0..(DATA_BLOCK_COUNT - 1))
      /\ Cardinality(0..(DATA_BLOCK_COUNT - 1)) = DATA_BLOCK_COUNT
  BY <1>1, FS_Interval
<1>4. QED
  BY <1>2, <1>3 DEF Inode, Block

\* The drift of a disk is an integer, and its bitmaps are finite.
LEMMA DriftType ==
    ASSUME NEW d \in Disk
    PROVE  /\ IsFiniteSet(d.inode_bitmap) /\ Cardinality(d.inode_bitmap) \in 0..INODE_COUNT
           /\ IsFiniteSet(d.block_bitmap) /\ Cardinality(d.block_bitmap) \in 0..DATA_BLOCK_COUNT
           /\ d.free_inodes_count \in Position /\ d.free_blocks_count \in Position
           /\ InodeDrift(d) \in Int /\ BlockDrift(d) \in Int
<1>1. /\ d.inode_bitmap \in SUBSET Inode /\ d.block_bitmap \in SUBSET Block
      /\ d.free_inodes_count \in Position /\ d.free_blocks_count \in Position
  BY DEF Disk, Position
<1>2. IsFiniteSet(d.inode_bitmap) /\ Cardinality(d.inode_bitmap) <= INODE_COUNT
  BY <1>1, Finite, FS_Subset
<1>3. IsFiniteSet(d.block_bitmap) /\ Cardinality(d.block_bitmap) <= DATA_BLOCK_COUNT
  BY <1>1, Finite, FS_Subset
<1>4. Cardinality(d.inode_bitmap) \in Nat /\ Cardinality(d.block_bitmap) \in Nat
  BY <1>2, <1>3, FS_CardinalityType
<1>5. /\ Cardinality(d.inode_bitmap) \in 0..INODE_COUNT
      /\ Cardinality(d.block_bitmap) \in 0..DATA_BLOCK_COUNT
  BY <1>2, <1>3, <1>4, Volume
<1>6. d.free_inodes_count \in Int /\ d.free_blocks_count \in Int
  BY <1>1, Ushort DEF Position
<1>7. InodeDrift(d) \in Int
  BY <1>4, <1>6, Volume DEF InodeDrift
<1>8. BlockDrift(d) \in Int
  BY <1>4, <1>6, Volume DEF BlockDrift
<1>9. QED
  BY <1>1, <1>2, <1>3, <1>5, <1>7, <1>8

-----------------------------------------------------------------------------
(* The steps of a run.                                                      *)

\* A write that touches neither a bitmap nor a count.
LEMMA PutKeeps ==
    ASSUME NEW r \in Run, NEW d, SameCounts(d, r.disk), NEW x \in Int, NEW y \in Int
    PROVE  Keeps(r, Put(r, d), x, y)
<1> DEFINE c == [disk |-> r.disk, mishaps |-> r.mishaps]
           q == [r EXCEPT !.disk = d, !.cuts = @ \cup {c}]
<1>1. CASE r.status # "ok"
  BY <1>1, KeepsSame DEF Put
<1>2. CASE r.status = "ok"
  <2>1. q = Put(r, d)
    BY <1>2 DEF Put
  <2>2. q.disk = d /\ q.mishaps = r.mishaps /\ q.cuts = r.cuts \cup {c}
    BY DEF Run
  <2> HIDE DEF q
  <2>3. InodeDrift(d) = InodeDrift(r.disk) /\ BlockDrift(d) = BlockDrift(r.disk)
    BY DEF SameCounts, InodeDrift, BlockDrift
  <2>4. Level(r, x, y) => Level(q, x, y)
    BY <2>2, <2>3 DEF Level
  <2>5. Level(r, x, y) => Near(c, x, y)
    <3>1. Abs(x - x) + Abs(y - y) <= 1
      BY DEF Abs
    <3>2. QED
      BY <3>1 DEF Level, Near
  <2>6. QED
    BY <1>2, <2>1, <2>2, <2>4, <2>5 DEF Keeps
<1>3. QED
  BY <1>1, <1>2

\* update_inode_entry touches neither a bitmap nor a count.
LEMMA PutInodeKeeps ==
    ASSUME NEW r \in Run, NEW i, NEW e, NEW x \in Int, NEW y \in Int
    PROVE  Keeps(r, PutInode(r, i, e), x, y)
<1>1. SameCounts([r.disk EXCEPT !.inode_table[i] = e], r.disk)
  BY RunDisk DEF SameCounts, Disk
<1>2. Keeps(r, Put(r, [r.disk EXCEPT !.inode_table[i] = e]), x, y)
  BY <1>1, PutKeeps
<1>3. QED
  BY <1>2, KeepsSame DEF PutInode

\* Nor does update_block_entry.
LEMMA PutBlockKeeps ==
    ASSUME NEW r \in Run, NEW b, NEW c, NEW x \in Int, NEW y \in Int
    PROVE  Keeps(r, PutBlock(r, b, c), x, y)
<1>1. SameCounts([r.disk EXCEPT !.data[b] = c], r.disk)
  BY RunDisk DEF SameCounts, Disk
<1>2. QED
  BY <1>1, PutKeeps DEF PutBlock

\* Nor does the record of a mishap.
LEMMA FlagKeeps ==
    ASSUME NEW r \in Run, NEW m, m # "lost", NEW x, NEW y
    PROVE  Keeps(r, Flag(r, m), x, y)
BY DEF Flag, Run, Keeps, Level

\* Nor does returning a value.
LEMMA ReturnKeeps ==
    ASSUME NEW r \in Run, NEW n, NEW x, NEW y
    PROVE  Keeps(r, Return(r, n), x, y)
BY DEF Return, Run, Keeps, Level

\* Nor does the loss of the process.
LEMMA StopKeeps ==
    ASSUME NEW r \in Run, NEW how, NEW x, NEW y
    PROVE  Keeps(r, Stop(r, how), x, y)
BY DEF Stop, Run, Keeps, Level

\* What a write does to a run that is under way.
LEMMA PutOk ==
    ASSUME NEW r \in Run, NEW d, r.status = "ok"
    PROVE  /\ Put(r, d).disk = d /\ Put(r, d).mishaps = r.mishaps
           /\ Put(r, d).cuts = r.cuts \cup {[disk |-> r.disk, mishaps |-> r.mishaps]}
           /\ Put(r, d).status = "ok"
BY DEF Put, Run

\* The counts neither underflow nor wrap where the bitmaps allow a step.
LEMMA CountsExact ==
    ASSUME NEW n \in Position
    PROVE  (n # 0 => Decr(n) = n - 1) /\ (n + 1 < USHORT => Incr(n) = n + 1)
<1>1. n \in Int /\ 0 <= n /\ n < USHORT
  BY Ushort DEF Position
<1>2. n # 0 => (n + USHORT - 1) % USHORT = n - 1
  BY <1>1 DEF USHORT
<1>3. n + 1 < USHORT => (n + 1) % USHORT = n + 1
  BY <1>1 DEF USHORT
<1>4. QED
  BY <1>2, <1>3 DEF Incr, Decr

-----------------------------------------------------------------------------
(* Allocation and release.                                                  *)

\* One inode marked, then one inode counted.
LEMMA NewInodeKeeps ==
    ASSUME NEW r \in Run, NEW x \in Int, NEW y \in Int
    PROVE  Keeps(r, new_inode(r), x, y)
<1>1. CASE r.disk.free_inodes_count = 0
  <2>1. Keeps(r, Flag(r, "no_inode"), x, y) /\ Flag(r, "no_inode") \in Run
    BY FlagKeeps, FlagType DEF Mishaps
  <2>2. Keeps(Flag(r, "no_inode"), Return(Flag(r, "no_inode"), 0), x, y)
    BY <2>1, ReturnKeeps
  <2>3. QED
    BY <1>1, <2>1, <2>2, KeepsTransitive DEF new_inode
<1>2. CASE r.disk.free_inodes_count # 0 /\ r.disk.inode_bitmap = Inode
  <2>1. Keeps(r, Stop(r, "lost"), x, y) /\ Stop(r, "lost") \in Run
    BY StopKeeps, StopType
  <2>2. Keeps(Stop(r, "lost"), Return(Stop(r, "lost"), 0), x, y)
    BY <2>1, ReturnKeeps
  <2>3. QED
    BY <1>2, <2>1, <2>2, KeepsTransitive DEF new_inode
<1>3. CASE r.disk.free_inodes_count # 0 /\ r.disk.inode_bitmap # Inode
  <2> DEFINE i  == Min(Inode \ r.disk.inode_bitmap)
             e  == [ZeroInode EXCEPT !.perm = 6]
             d1 == [r.disk EXCEPT !.inode_bitmap = @ \cup {i}]
             r1 == Put(r, d1)
             d2 == [r1.disk EXCEPT !.inode_table[i] = e]
             r2 == Put(r1, d2)
             d3 == [r2.disk EXCEPT !.free_inodes_count = Decr(@)]
             r3 == Put(r2, d3)
  <2>1. i \in Inode \ r.disk.inode_bitmap
    <3>1. Inode \ r.disk.inode_bitmap # {}
      BY <1>3, RunDisk DEF Disk
    <3>2. Inode \ r.disk.inode_bitmap \subseteq Nat
      BY DEF Inode
    <3>3. QED
      BY <3>1, <3>2, MinOfNats
  <2> HIDE DEF i
  <2>2. new_inode(r) = Return(r3, i)
    BY <1>3, <2>1 DEF new_inode, PutInode, i
  <2>3. e \in InodeEntry
    BY ZeroInodeType
  <2> HIDE DEF e
  <2>4. d1 \in Disk /\ r1 \in Run
    <3>1. d1 \in Disk
      BY <2>1, RunDisk DEF Disk
    <3>2. QED
      BY <3>1, PutType
  <2>5. d2 \in Disk /\ r2 \in Run
    <3> HIDE DEF r1
    <3>1. d2 \in Disk
      BY <2>1, <2>3, <2>4, RunDisk DEF Disk
    <3>2. QED
      BY <2>4, <3>1, PutType
  <2>6. d3 \in Disk /\ r3 \in Run
    <3> HIDE DEF r2
    <3>1. Decr(r2.disk.free_inodes_count) \in Position
      BY <2>5, RunDisk, CountsType DEF Disk, Position
    <3>2. d3 \in Disk
      BY <2>5, <3>1, RunDisk DEF Disk, Position
    <3>3. QED
      BY <2>5, <3>2, PutType
  <2>7. CASE r.status # "ok"
    BY <2>2, <2>7, ReturnKeeps DEF Put
  <2>8. CASE r.status = "ok"
    <3>1. /\ r1.disk = d1 /\ r1.mishaps = r.mishaps /\ r1.status = "ok"
          /\ r1.cuts = r.cuts \cup {[disk |-> r.disk, mishaps |-> r.mishaps]}
      BY <2>8, PutOk
    <3>2. /\ r2.disk = d2 /\ r2.mishaps = r.mishaps /\ r2.status = "ok"
          /\ r2.cuts = r1.cuts \cup {[disk |-> d1, mishaps |-> r.mishaps]}
      <4> HIDE DEF d1, r1
      <4>1. QED
        BY <2>4, <3>1, PutOk
    <3>3. /\ r3.disk = d3 /\ r3.mishaps = r.mishaps
          /\ r3.cuts = r2.cuts \cup {[disk |-> d2, mishaps |-> r.mishaps]}
      <4> HIDE DEF d1, r1, d2, r2
      <4>1. QED
        BY <2>5, <3>2, PutOk
    <3>4. InodeDrift(d1) = InodeDrift(r.disk) + 1 /\ BlockDrift(d1) = BlockDrift(r.disk)
      <4>1. Cardinality(r.disk.inode_bitmap \cup {i}) = Cardinality(r.disk.inode_bitmap) + 1
        BY <2>1, RunDisk, DriftType, FS_AddElement
      <4>2. /\ d1.inode_bitmap = r.disk.inode_bitmap \cup {i}
            /\ d1.free_inodes_count = r.disk.free_inodes_count
            /\ d1.block_bitmap = r.disk.block_bitmap
            /\ d1.free_blocks_count = r.disk.free_blocks_count
        BY RunDisk DEF Disk
      <4>3. /\ Cardinality(r.disk.inode_bitmap) \in Int /\ INODE_COUNT \in Int
            /\ r.disk.free_inodes_count \in Int
        BY RunDisk, DriftType, Volume DEF Position
      <4> HIDE DEF d1
      <4>4. QED
        BY <4>1, <4>2, <4>3 DEF InodeDrift, BlockDrift
    <3>5. InodeDrift(d2) = InodeDrift(d1) /\ BlockDrift(d2) = BlockDrift(d1)
      <4> HIDE DEF d1, r1
      <4>1. SameCounts(d2, d1)
        BY <2>4, <3>1 DEF SameCounts, Disk
      <4>2. QED
        BY <4>1 DEF SameCounts, InodeDrift, BlockDrift
    <3>6. InodeDrift(d3) = InodeDrift(d2) - 1 /\ BlockDrift(d3) = BlockDrift(d2)
      <4>1. d2.free_inodes_count = r.disk.free_inodes_count
        BY <3>1, RunDisk DEF Disk
      <4> HIDE DEF d1, r1, d2, r2
      <4>2. /\ d3.inode_bitmap = d2.inode_bitmap
            /\ d3.free_inodes_count = Decr(d2.free_inodes_count)
            /\ d3.block_bitmap = d2.block_bitmap
            /\ d3.free_blocks_count = d2.free_blocks_count
        BY <2>5, <3>2 DEF Disk
      <4>3. Decr(d2.free_inodes_count) = d2.free_inodes_count - 1
        BY <1>3, <2>5, <4>1, DriftType, CountsExact
      <4>4. /\ Cardinality(d2.inode_bitmap) \in Int /\ INODE_COUNT \in Int
            /\ d2.free_inodes_count \in Int
        BY <2>5, DriftType, Volume DEF Position
      <4> HIDE DEF d3
      <4>5. QED
        BY <4>2, <4>3, <4>4 DEF InodeDrift, BlockDrift
    <3>7. /\ InodeDrift(r.disk) \in Int /\ BlockDrift(r.disk) \in Int
      BY RunDisk, DriftType
    <3> HIDE DEF d1, d2, d3, r1, r2, r3
    <3>8. Keeps(r, r3, x, y)
      <4>1. Level(r, x, y) => Level(r3, x, y)
        BY <3>3, <3>4, <3>5, <3>6, <3>7 DEF Level
      <4>2. ASSUME Level(r, x, y)
            PROVE  /\ Near([disk |-> r.disk, mishaps |-> r.mishaps], x, y)
                   /\ Near([disk |-> d1, mishaps |-> r.mishaps], x, y)
                   /\ Near([disk |-> d2, mishaps |-> r.mishaps], x, y)
        BY <4>2, <3>4, <3>5, <3>7 DEF Level, Near, Abs
      <4>3. QED
        BY <2>8, <3>1, <3>2, <3>3, <4>1, <4>2 DEF Keeps
    <3>9. QED
      BY <2>2, <2>6, <3>8, ReturnKeeps, KeepsTransitive
  <2>9. QED
    BY <2>7, <2>8
<1>4. QED
  BY <1>1, <1>2, <1>3

\* One block marked, then one block counted.
LEMMA NewBlockKeeps ==
    ASSUME NEW r \in Run, NEW x \in Int, NEW y \in Int
    PROVE  Keeps(r, new_block(r), x, y)
<1>1. CASE r.disk.free_blocks_count = 0
  <2>1. Keeps(r, Flag(r, "no_block"), x, y) /\ Flag(r, "no_block") \in Run
    BY FlagKeeps, FlagType DEF Mishaps
  <2>2. Keeps(Flag(r, "no_block"), Return(Flag(r, "no_block"), 0), x, y)
    BY <2>1, ReturnKeeps
  <2>3. QED
    BY <1>1, <2>1, <2>2, KeepsTransitive DEF new_block
<1>2. CASE r.disk.free_blocks_count # 0 /\ r.disk.block_bitmap = Block
  <2>1. Keeps(r, Stop(r, "lost"), x, y) /\ Stop(r, "lost") \in Run
    BY StopKeeps, StopType
  <2>2. Keeps(Stop(r, "lost"), Return(Stop(r, "lost"), 0), x, y)
    BY <2>1, ReturnKeeps
  <2>3. QED
    BY <1>2, <2>1, <2>2, KeepsTransitive DEF new_block
<1>3. CASE r.disk.free_blocks_count # 0 /\ r.disk.block_bitmap # Block
  <2> DEFINE b  == Min(Block \ r.disk.block_bitmap)
             d1 == [r.disk EXCEPT !.block_bitmap = @ \cup {b}]
             r1 == Put(r, d1)
             d2 == [r1.disk EXCEPT !.free_blocks_count = Decr(@)]
             r2 == Put(r1, d2)
  <2>1. b \in Block \ r.disk.block_bitmap
    <3>1. Block \ r.disk.block_bitmap # {}
      BY <1>3, RunDisk DEF Disk
    <3>2. Block \ r.disk.block_bitmap \subseteq Nat
      BY DEF Block
    <3>3. QED
      BY <3>1, <3>2, MinOfNats
  <2> HIDE DEF b
  <2>2. new_block(r) = Return(r2, b)
    BY <1>3 DEF new_block, b
  <2>3. d1 \in Disk /\ r1 \in Run
    <3>1. d1 \in Disk
      BY <2>1, RunDisk DEF Disk
    <3>2. QED
      BY <3>1, PutType
  <2>4. d2 \in Disk /\ r2 \in Run
    <3> HIDE DEF r1
    <3>1. Decr(r1.disk.free_blocks_count) \in Position
      BY <2>3, RunDisk, CountsType DEF Disk, Position
    <3>2. d2 \in Disk
      BY <2>3, <3>1, RunDisk DEF Disk, Position
    <3>3. QED
      BY <2>3, <3>2, PutType
  <2>5. CASE r.status # "ok"
    BY <2>2, <2>5, ReturnKeeps DEF Put
  <2>6. CASE r.status = "ok"
    <3>1. /\ r1.disk = d1 /\ r1.mishaps = r.mishaps /\ r1.status = "ok"
          /\ r1.cuts = r.cuts \cup {[disk |-> r.disk, mishaps |-> r.mishaps]}
      BY <2>6, PutOk
    <3>2. /\ r2.disk = d2 /\ r2.mishaps = r.mishaps
          /\ r2.cuts = r1.cuts \cup {[disk |-> d1, mishaps |-> r.mishaps]}
      <4> HIDE DEF d1, r1
      <4>1. QED
        BY <2>3, <3>1, PutOk
    <3>3. BlockDrift(d1) = BlockDrift(r.disk) + 1 /\ InodeDrift(d1) = InodeDrift(r.disk)
      <4>1. Cardinality(r.disk.block_bitmap \cup {b}) = Cardinality(r.disk.block_bitmap) + 1
        BY <2>1, RunDisk, DriftType, FS_AddElement
      <4>2. /\ d1.block_bitmap = r.disk.block_bitmap \cup {b}
            /\ d1.free_blocks_count = r.disk.free_blocks_count
            /\ d1.inode_bitmap = r.disk.inode_bitmap
            /\ d1.free_inodes_count = r.disk.free_inodes_count
        BY RunDisk DEF Disk
      <4>3. /\ Cardinality(r.disk.block_bitmap) \in Int /\ DATA_BLOCK_COUNT \in Int
            /\ r.disk.free_blocks_count \in Int
        BY RunDisk, DriftType, Volume DEF Position
      <4> HIDE DEF d1
      <4>4. QED
        BY <4>1, <4>2, <4>3 DEF InodeDrift, BlockDrift
    <3>4. BlockDrift(d2) = BlockDrift(d1) - 1 /\ InodeDrift(d2) = InodeDrift(d1)
      <4>1. d1.free_blocks_count = r.disk.free_blocks_count
        BY RunDisk DEF Disk
      <4> HIDE DEF d1, r1
      <4>2. /\ d2.block_bitmap = d1.block_bitmap
            /\ d2.free_blocks_count = Decr(d1.free_blocks_count)
            /\ d2.inode_bitmap = d1.inode_bitmap
            /\ d2.free_inodes_count = d1.free_inodes_count
        BY <2>3, <3>1 DEF Disk
      <4>3. Decr(d1.free_blocks_count) = d1.free_blocks_count - 1
        BY <1>3, <2>3, <4>1, DriftType, CountsExact
      <4>4. /\ Cardinality(d1.block_bitmap) \in Int /\ DATA_BLOCK_COUNT \in Int
            /\ d1.free_blocks_count \in Int
        BY <2>3, DriftType, Volume DEF Position
      <4> HIDE DEF d2
      <4>5. QED
        BY <4>2, <4>3, <4>4 DEF InodeDrift, BlockDrift
    <3>5. /\ InodeDrift(r.disk) \in Int /\ BlockDrift(r.disk) \in Int
      BY RunDisk, DriftType
    <3> HIDE DEF d1, d2, r1, r2
    <3>6. Keeps(r, r2, x, y)
      <4>1. Level(r, x, y) => Level(r2, x, y)
        BY <3>2, <3>3, <3>4, <3>5 DEF Level
      <4>2. ASSUME Level(r, x, y)
            PROVE  /\ Near([disk |-> r.disk, mishaps |-> r.mishaps], x, y)
                   /\ Near([disk |-> d1, mishaps |-> r.mishaps], x, y)
        BY <4>2, <3>3, <3>5 DEF Level, Near, Abs
      <4>3. QED
        BY <2>6, <3>1, <3>2, <4>1, <4>2 DEF Keeps
    <3>7. QED
      BY <2>2, <2>4, <3>6, ReturnKeeps, KeepsTransitive
  <2>7. QED
    BY <2>5, <2>6
<1>4. QED
  BY <1>1, <1>2, <1>3

\* One inode unmarked, then one inode counted.  The count does not wrap: with
\* an inode of the bitmap to free, and a drift of MaxCrashes at most, it is
\* below INODE_COUNT + MaxCrashes.
LEMMA FreeInodeKeeps ==
    ASSUME NEW r \in Run, NEW i \in Inode, NEW x, NEW y, Drift(x, y)
    PROVE  Keeps(r, free_inode(r, i), x, y)
<1> DEFINE d1 == [r.disk EXCEPT !.inode_bitmap = Inverted(@, i)]
           r1 == Put(r, d1)
           r2 == IF i \in r.disk.inode_bitmap THEN r1 ELSE Flag(r1, "double_free")
           d3 == [r2.disk EXCEPT !.free_inodes_count = Incr(@)]
           r3 == Put(r2, d3)
<1>1. free_inode(r, i) = r3
  BY DEF free_inode
<1>2. d1 \in Disk /\ r1 \in Run
  <2>1. d1 \in Disk
    BY RunDisk DEF Disk, Inverted
  <2>2. QED
    BY <2>1, PutType
<1>3. r2 \in Run
  <2> HIDE DEF r1
  <2>1. QED
    BY <1>2, FlagType DEF Mishaps
<1>4. CASE r.status # "ok"
  <2>1. r1 = r
    BY <1>4 DEF Put
  <2> HIDE DEF r1
  <2>2. r2 = r
    BY <1>4, <2>1 DEF Flag
  <2> HIDE DEF r2
  <2>3. r3 = r
    BY <1>4, <2>2 DEF Put
  <2>4. QED
    BY <1>1, <2>3, KeepsSame
<1>5. CASE r.status = "ok"
  <2>1. /\ r1.disk = d1 /\ r1.mishaps = r.mishaps /\ r1.status = "ok"
        /\ r1.cuts = r.cuts \cup {[disk |-> r.disk, mishaps |-> r.mishaps]}
    BY <1>5, PutOk
  <2>2. Level(r, x, y) => Near([disk |-> r.disk, mishaps |-> r.mishaps], x, y)
    BY DEF Level, Near, Abs, Drift
  <2>3. CASE i \notin r.disk.inode_bitmap
    <3> HIDE DEF d1, r1
    <3>1. r2 = [r1 EXCEPT !.mishaps = r.mishaps \cup {"double_free"}]
      BY <2>1, <2>3 DEF Flag
    <3>2. /\ r2.mishaps = r.mishaps \cup {"double_free"} /\ r2.status = "ok"
          /\ r2.cuts = r1.cuts
      BY <1>2, <2>1, <3>1 DEF Run
    <3> HIDE DEF r2
    <3>3. /\ r3.mishaps = r2.mishaps
          /\ r3.cuts = r2.cuts \cup {[disk |-> r2.disk, mishaps |-> r2.mishaps]}
      BY <1>3, <3>2, PutOk
    <3> HIDE DEF r3
    <3>4. QED
      BY <1>1, <1>5, <2>1, <2>2, <3>2, <3>3 DEF Keeps, Level, Near, Spoils
  <2>4. CASE i \in r.disk.inode_bitmap
    <3>1. r2 = r1
      BY <2>4
    <3>2. InodeDrift(d1) = InodeDrift(r.disk) - 1 /\ BlockDrift(d1) = BlockDrift(r.disk)
      <4>1. Cardinality(r.disk.inode_bitmap \ {i}) = Cardinality(r.disk.inode_bitmap) - 1
        <5>1. IsFiniteSet(r.disk.inode_bitmap)
          BY RunDisk, DriftType
        <5>2. QED
          BY <5>1, <2>4, FS_RemoveElement
      <4>2. /\ d1.inode_bitmap = r.disk.inode_bitmap \ {i}
            /\ d1.free_inodes_count = r.disk.free_inodes_count
            /\ d1.block_bitmap = r.disk.block_bitmap
            /\ d1.free_blocks_count = r.disk.free_blocks_count
        BY <2>4, RunDisk DEF Disk, Inverted
      <4>3. /\ Cardinality(r.disk.inode_bitmap) \in Int /\ INODE_COUNT \in Int
            /\ r.disk.free_inodes_count \in Int
        BY RunDisk, DriftType, Volume DEF Position
      <4> HIDE DEF d1
      <4>4. QED
        BY <4>1, <4>2, <4>3 DEF InodeDrift, BlockDrift
    <3>3. d1.free_inodes_count = r.disk.free_inodes_count
      BY RunDisk DEF Disk
    <3>4. Cardinality(r.disk.inode_bitmap) >= 1
      <4>1. Cardinality(r.disk.inode_bitmap) # 0
        BY <2>4, RunDisk, DriftType, FS_EmptySet
      <4>2. QED
        BY <4>1, RunDisk, DriftType, Volume
    <3> HIDE DEF d1, r1, r2
    <3>5. /\ r3.disk = d3 /\ r3.mishaps = r.mishaps
          /\ r3.cuts = r1.cuts \cup {[disk |-> d1, mishaps |-> r.mishaps]}
      <4> HIDE DEF d3
      <4>1. QED
        BY <1>3, <2>1, <3>1, PutOk
    <3>6. ASSUME Level(r, x, y), r.mishaps \cap Spoils = {}
          PROVE  InodeDrift(d3) = x /\ BlockDrift(d3) = y
      <4>1. x + INODE_COUNT = r.disk.free_inodes_count + Cardinality(r.disk.inode_bitmap)
        <5>1. x = InodeDrift(r.disk)
          BY <3>6 DEF Level
        <5>2. /\ Cardinality(r.disk.inode_bitmap) \in Int /\ INODE_COUNT \in Int
              /\ r.disk.free_inodes_count \in Int
          BY RunDisk, DriftType, Volume DEF Position
        <5>3. QED
          BY <5>1, <5>2 DEF InodeDrift
      <4>2. x <= MaxCrashes
        BY SessionAssumption DEF Drift, Abs
      <4>3. r.disk.free_inodes_count + 1 < USHORT
        <5>1. /\ Cardinality(r.disk.inode_bitmap) \in Int /\ INODE_COUNT \in Int
              /\ r.disk.free_inodes_count \in Int
          BY RunDisk, DriftType, Volume DEF Position
        <5>2. QED
          BY <3>4, <4>1, <4>2, <5>1, CountersAssumption, SessionAssumption, Ushort DEF Drift
      <4>4. Incr(d1.free_inodes_count) = d1.free_inodes_count + 1
        BY <3>3, <4>3, RunDisk, DriftType, CountsExact
      <4>5. /\ d3.inode_bitmap = d1.inode_bitmap
            /\ d3.free_inodes_count = Incr(d1.free_inodes_count)
            /\ d3.block_bitmap = d1.block_bitmap
            /\ d3.free_blocks_count = d1.free_blocks_count
        BY <1>2, <2>1, <3>1 DEF Disk
      <4>6. /\ Cardinality(d1.inode_bitmap) \in Int /\ INODE_COUNT \in Int
            /\ d1.free_inodes_count \in Int
        BY <1>2, DriftType, Volume DEF Position
      <4>7. InodeDrift(r.disk) = x /\ BlockDrift(r.disk) = y
        BY <3>6 DEF Level
      <4> HIDE DEF d3
      <4>8. InodeDrift(d3) = InodeDrift(d1) + 1 /\ BlockDrift(d3) = BlockDrift(d1)
        BY <4>4, <4>5, <4>6 DEF InodeDrift, BlockDrift
      <4>9. QED
        BY <3>2, <4>7, <4>8 DEF Drift
    <3>7. Level(r, x, y) => Near([disk |-> d1, mishaps |-> r.mishaps], x, y)
      BY <3>2 DEF Level, Near, Abs, Drift
    <3> HIDE DEF d3, r3
    <3>8. QED
      BY <1>1, <1>5, <2>1, <2>2, <3>5, <3>6, <3>7 DEF Keeps, Level
  <2>5. QED
    BY <2>3, <2>4
<1>6. QED
  BY <1>4, <1>5

\* Inverting the bits of k used blocks, each once, clears them.
LEMMA FreedBits ==
    ASSUME NEW d \in Disk, NEW i \in Inode, NEW k \in 0..d.inode_table[i].i_blocks,
           ~FreesTwice(d, i, k), NEW n
    PROVE  Cardinality(Freed(d, i, k, n).block_bitmap) = Cardinality(d.block_bitmap) - k
<1> DEFINE at == d.inode_table[i].i_block
           X == 0..(k - 1)
           S == {at[x] : x \in X}
           bm == d.block_bitmap
           times(b) == Cardinality({x \in X : at[x] = b})
<1>1. k \in Nat /\ X \subseteq Nat
  BY DEF Disk, InodeEntry
<1>2. \A x \in X : at[x] \in bm /\ \A z \in 0..(x - 1) : at[z] # at[x]
  BY DEF FreesTwice
<1>3. \A x, z \in X : at[x] = at[z] => x = z
  <2>1. SUFFICES ASSUME NEW x \in X, NEW z \in X, at[x] = at[z], x < z \/ z < x PROVE FALSE
    BY <1>1
  <2>2. x \in 0..(z - 1) \/ z \in 0..(x - 1)
    BY <1>1, <2>1
  <2>3. QED
    BY <1>2, <2>1, <2>2
<1>4. S \subseteq bm /\ bm \subseteq Block
  BY <1>2 DEF Disk
<1> HIDE DEF at
<1>5. IsFiniteSet(S) /\ Cardinality(S) = k
  <2> DEFINE f == [x \in X |-> at[x]]
  <2>1. f \in Bijection(X, S)
    BY <1>3 DEF Bijection, Injection, Surjection, IsInjective
  <2>2. ExistsBijection(X, S)
    BY <2>1 DEF ExistsBijection
  <2>3. IsFiniteSet(X) /\ Cardinality(X) = k
    <3>1. 0 \in Int /\ k - 1 \in Int
      BY <1>1
    <3>2. IsFiniteSet(0..(k - 1)) /\ Cardinality(0..(k - 1)) = IF 0 > k - 1 THEN 0 ELSE k - 1 - 0 + 1
      BY <3>1, FS_Interval
    <3>3. QED
      BY <1>1, <3>2
  <2> HIDE DEF X, S
  <2>4. QED
    BY <2>2, <2>3, FS_Bijection
<1>6. \A b : (times(b) % 2 = 1) <=> b \in S
  <2>1. TAKE b
  <2> DEFINE H == {x \in X : at[x] = b}
  <2>2. CASE b \in S
    <3>1. PICK x \in X : at[x] = b
      BY <2>2
    <3>2. H \subseteq {x}
      BY <1>3, <3>1
    <3>3. H = {x}
      BY <3>1, <3>2
    <3>4. Cardinality(H) = 1
      BY <3>3, FS_Singleton
    <3>5. QED
      BY <2>2, <3>4
  <2>3. CASE b \notin S
    <3>1. H = {}
      BY <2>3
    <3>2. Cardinality(H) = 0
      BY <3>1, FS_EmptySet
    <3>3. QED
      BY <2>3, <3>2
  <2>4. QED
    BY <2>2, <2>3
<1>7. Freed(d, i, k, n).block_bitmap = bm \ S
  <2>1. Freed(d, i, k, n).block_bitmap = {b \in Block : (b \in bm) # (times(b) % 2 = 1)}
    BY DEF Freed, Disk, at
  <2> HIDE DEF times, S, bm
  <2>2. \A b \in Block : ((b \in bm) # (times(b) % 2 = 1)) <=> (b \in bm /\ b \notin S)
    BY <1>4, <1>6
  <2>3. QED
    BY <1>4, <2>1, <2>2
<1>8. IsFiniteSet(bm)
  BY DriftType
<1> HIDE DEF S, bm
<1>9. IsFiniteSet(bm \ S) /\ (bm \ S) \cup S = bm /\ (bm \ S) \cap S = {}
  BY <1>4, <1>8, FS_Subset
<1>10. Cardinality((bm \ S) \cup S) =
         Cardinality(bm \ S) + Cardinality(S) - Cardinality((bm \ S) \cap S)
  BY <1>5, <1>9, FS_Union
<1>11. Cardinality({}) = 0 /\ Cardinality(bm \ S) \in Int
  BY <1>9, FS_EmptySet, FS_CardinalityType
<1>12. Cardinality(bm \ S) = Cardinality(bm) - k
  <2> DEFINE D == bm \ S
  <2>1. Cardinality(bm) = Cardinality(D) + Cardinality(S) - Cardinality({})
    BY <1>9, <1>10, Zenon
  <2>2. Cardinality(D) \in Int
    BY <1>11
  <2> HIDE DEF D
  <2>3. Cardinality(bm) = Cardinality(D) + k - 0
    BY <1>5, <1>11, <2>1
  <2>4. Cardinality(D) = Cardinality(bm) - k
    BY <1>1, <2>2, <2>3
  <2>5. QED
    BY <2>4 DEF D
<1>13. QED
  BY <1>7, <1>12 DEF bm

\* Then n of them are counted.
LEMMA FreedDrift ==
    ASSUME NEW d \in Disk, NEW i \in Inode, NEW k \in 0..d.inode_table[i].i_blocks,
           ~FreesTwice(d, i, k), NEW n \in 0..k, BlockDrift(d) <= MaxCrashes
    PROVE  /\ InodeDrift(Freed(d, i, k, n)) = InodeDrift(d)
           /\ BlockDrift(Freed(d, i, k, n)) = BlockDrift(d) + n - k
<1> DEFINE f == Freed(d, i, k, n)
<1>1. Cardinality(f.block_bitmap) = Cardinality(d.block_bitmap) - k
  BY FreedBits
<1>2. f \in Disk
  <2>1. n \in Int
    OBVIOUS
  <2>2. QED
    BY <2>1, FreedType
<1>3. /\ Cardinality(f.block_bitmap) \in Nat /\ Cardinality(d.block_bitmap) \in Nat
      /\ d.free_blocks_count \in Nat /\ DATA_BLOCK_COUNT \in Nat
  BY <1>2, DriftType, Volume DEF Position
<1>4. /\ f.free_blocks_count = (d.free_blocks_count + n) % USHORT
      /\ f.inode_bitmap = d.inode_bitmap /\ f.free_inodes_count = d.free_inodes_count
  BY DEF Freed, Disk
<1>5. d.free_blocks_count + n < USHORT
  <2>1. d.free_blocks_count <= MaxCrashes + DATA_BLOCK_COUNT - Cardinality(d.block_bitmap)
    BY <1>3, SessionAssumption DEF BlockDrift
  <2>2. k \in Nat /\ n \in Nat /\ n <= k
    BY DEF Disk, InodeEntry
  <2>3. k <= Cardinality(d.block_bitmap)
    BY <1>1, <1>3, <2>2
  <2>4. QED
    BY <1>3, <2>1, <2>2, <2>3, CountersAssumption, SessionAssumption, Ushort
<1>6. (d.free_blocks_count + n) % USHORT = d.free_blocks_count + n
  <2>1. d.free_blocks_count + n \in Nat
    BY <1>3
  <2>2. QED
    BY <1>5, <2>1 DEF USHORT
<1>7. k \in Int /\ n \in Int
  BY DEF Disk, InodeEntry
<1> HIDE DEF f
<1>8. QED
  BY <1>1, <1>3, <1>4, <1>6, <1>7 DEF InodeDrift, BlockDrift, f

\* The blocks of a file are unmarked and counted one after the other.
LEMMA FreeFileBlocksKeeps ==
    ASSUME NEW r \in Run, NEW i \in Inode, NEW x, NEW y, Drift(x, y)
    PROVE  Keeps(r, free_file_blocks(r, i), x, y)
<1> DEFINE d == r.disk
           n == d.inode_table[i].i_blocks
           seen(k) == IF FreesTwice(d, i, k) THEN r.mishaps \cup {"double_free"}
                                             ELSE r.mishaps
           whole == {[disk |-> Freed(d, i, k, k), mishaps |-> seen(k)] : k \in 0..(n - 1)}
           half == {[disk |-> Freed(d, i, k + 1, k), mishaps |-> seen(k + 1)] : k \in 0..(n - 1)}
           q == free_file_blocks(r, i)
<1>1. CASE r.status # "ok"
  BY <1>1, KeepsSame DEF free_file_blocks
<1>2. CASE r.status = "ok"
  <2>1. n \in Nat /\ d \in Disk
    BY RunDisk, VolumeAssumption DEF Disk, InodeEntry
  <2>2. q.disk = Freed(d, i, n, n) /\ q.mishaps = seen(n) /\ q.cuts = r.cuts \cup whole \cup half
    <3>1. q = [r EXCEPT !.disk = Freed(d, i, n, n), !.mishaps = seen(n),
                        !.cuts = r.cuts \cup whole \cup half]
      BY <1>2 DEF free_file_blocks
    <3> HIDE DEF q, n, seen, whole, half
    <3>2. QED
      BY <3>1 DEF Run
  <2>3. ASSUME Level(r, x, y), NEW k \in 0..n, NEW m \in 0..k, seen(k) \cap Spoils = {}
        PROVE  InodeDrift(Freed(d, i, k, m)) = x /\ BlockDrift(Freed(d, i, k, m)) = y + m - k
    <3>1. ~FreesTwice(d, i, k) /\ r.mishaps \cap Spoils = {}
      BY <2>3 DEF Spoils
    <3>2. InodeDrift(d) = x /\ BlockDrift(d) = y
      BY <2>3, <3>1 DEF Level
    <3>3. y <= MaxCrashes
      BY SessionAssumption DEF Drift, Abs
    <3>4. QED
      BY <2>1, <3>1, <3>2, <3>3, FreedDrift
  <2>4. \A k : r.mishaps \subseteq seen(k) /\ ("lost" \in seen(k) => "lost" \in r.mishaps)
    OBVIOUS
  <2> HIDE DEF d, n, seen, q
  <2>5. x \in Int /\ y \in Int
    BY DEF Drift
  <2>6. Level(r, x, y) => Level(q, x, y)
    <3>1. SUFFICES ASSUME Level(r, x, y), seen(n) \cap Spoils = {}
                   PROVE  InodeDrift(q.disk) = x /\ BlockDrift(q.disk) = y
      BY <2>2 DEF Level
    <3>2. n \in 0..n
      BY <2>1
    <3>3. InodeDrift(Freed(d, i, n, n)) = x /\ BlockDrift(Freed(d, i, n, n)) = y + n - n
      BY <2>3, <3>1, <3>2
    <3>4. QED
      BY <2>1, <2>2, <2>5, <3>3
  <2>7. ASSUME NEW c \in whole PROVE r.mishaps \subseteq c.mishaps /\ (Level(r, x, y) => Near(c, x, y))
    <3>1. PICK k \in 0..(n - 1) : c = [disk |-> Freed(d, i, k, k), mishaps |-> seen(k)]
      BY <2>7
    <3>2. k \in 0..n /\ k \in 0..k
      BY <2>1
    <3>3. ASSUME Level(r, x, y), seen(k) \cap Spoils = {}
          PROVE  Abs(InodeDrift(c.disk) - x) + Abs(BlockDrift(c.disk) - y) <= 1
      <4>1. InodeDrift(c.disk) = x /\ BlockDrift(c.disk) = y + k - k
        BY <2>3, <3>1, <3>2, <3>3
      <4>2. QED
        BY <2>5, <3>2, <4>1 DEF Abs
    <3>4. QED
      BY <2>4, <3>1, <3>3 DEF Near
  <2>8. ASSUME NEW c \in half PROVE r.mishaps \subseteq c.mishaps /\ (Level(r, x, y) => Near(c, x, y))
    <3>1. PICK k \in 0..(n - 1) : c = [disk |-> Freed(d, i, k + 1, k), mishaps |-> seen(k + 1)]
      BY <2>8
    <3>2. k + 1 \in 0..n /\ k \in 0..(k + 1)
      BY <2>1
    <3>3. ASSUME Level(r, x, y), seen(k + 1) \cap Spoils = {}
          PROVE  Abs(InodeDrift(c.disk) - x) + Abs(BlockDrift(c.disk) - y) <= 1
      <4>1. InodeDrift(c.disk) = x /\ BlockDrift(c.disk) = y + k - (k + 1)
        BY <2>3, <3>1, <3>2, <3>3
      <4>2. QED
        BY <2>5, <3>2, <4>1 DEF Abs
    <3>4. QED
      BY <2>4, <3>1, <3>3 DEF Near
  <2> HIDE DEF whole, half
  <2>9. r.mishaps \subseteq q.mishaps
    BY <2>2, <2>4
  <2>10. QED
    BY <1>2, <2>2, <2>4, <2>6, <2>7, <2>8, <2>9 DEF Keeps, q
<1>3. QED
  BY <1>1, <1>2

-----------------------------------------------------------------------------
(* Directories and files.                                                   *)

\* Nor does access_file with delete_in_block.
LEMMA UnlinkKeeps ==
    ASSUME NEW r \in Run, NEW i, NEW name, NEW x \in Int, NEW y \in Int
    PROVE  Keeps(r, Unlink(r, i, name), x, y)
<1> DEFINE last == Min(Hits(r.disk, i, name))
           hit(b) == /\ \E z \in 0..last : r.disk.inode_table[i].i_block[z] = b
                     /\ r.disk.data[b] # FileBytes
                     /\ Matches(r.disk.data[b], name) # {}
           next == [b \in Block |-> IF hit(b) THEN Delete(r.disk.data[b], name)
                                              ELSE r.disk.data[b]]
           r1 == Put(r, [r.disk EXCEPT !.data = next])
           q == Unlink(r, i, name)
<1> HIDE DEF next
<1>1. Keeps(r, r1, x, y)
  <2>1. SameCounts([r.disk EXCEPT !.data = next], r.disk)
    BY RunDisk DEF SameCounts, Disk
  <2>2. QED
    BY <2>1, PutKeeps
<1> HIDE DEF r1
<1>2. q = r1 \/ q = Flag(r1, "first_entry")
  BY DEF Unlink, r1, next
<1>3. CASE q = r1
  BY <1>1, <1>3
<1>4. CASE q = Flag(r1, "first_entry")
  <2>1. q.mishaps \in {r1.mishaps, r1.mishaps \cup {"first_entry"}}
         /\ q.disk = r1.disk /\ q.cuts = r1.cuts /\ q.status = r1.status
    BY <1>4 DEF Flag, r1, Put, Run
  <2>2. QED
    BY <1>1, <2>1 DEF Keeps, Level
<1>5. QED
  BY <1>2, <1>3, <1>4

\* add_file_block allocates with new_block, then writes the inode.
LEMMA AddFileBlockKeeps ==
    ASSUME NEW r \in Run, NEW i \in Inode, NEW x \in Int, NEW y \in Int
    PROVE  Keeps(r, add_file_block(r, i), x, y)
<1> DEFINE n  == r.disk.inode_table[i].i_blocks
           r1 == new_block(r)
           e  == [r1.disk.inode_table[i] EXCEPT !.i_block[n] = r1.ret, !.i_blocks = n + 1]
           r2 == PutInode(r1, i, e)
<1>1. CASE n = NDIRECT
  BY <1>1, StopKeeps DEF add_file_block
<1>2. CASE n # NDIRECT
  <2>1. r1 \in Run /\ r1.ret \in Block /\ Keeps(r, r1, x, y)
    BY NewBlockRunType, NewBlockKeeps
  <2>2. e \in InodeEntry
    <3>1. n + 1 \in 0..NDIRECT
      <4>1. n \in 0..NDIRECT
        BY RunDisk DEF Disk, InodeEntry
      <4>2. QED
        BY <1>2, <4>1, VolumeAssumption
    <3>2. r1.disk.inode_table[i] \in InodeEntry
      BY <2>1, RunDisk DEF Disk
    <3> HIDE DEF r1, n
    <3>3. QED
      BY <2>1, <3>1, <3>2 DEF InodeEntry
  <2> HIDE DEF r1, e
  <2>3. r2 \in Run /\ Keeps(r1, r2, x, y)
    BY <2>1, <2>2, PutInodeType, PutInodeKeeps
  <2> HIDE DEF r2
  <2>4. Keeps(r2, Return(r2, r1.ret), x, y)
    BY <2>3, ReturnKeeps
  <2>5. add_file_block(r, i) = Return(r2, r1.ret)
    BY <1>2 DEF add_file_block, r1, r2, e
  <2>6. QED
    BY <2>1, <2>3, <2>4, <2>5, KeepsTransitive
<1>3. QED
  BY <1>1, <1>2

\* An entry is linked in a block that has room, or in a new block.
LEMMA LinkKeeps ==
    ASSUME NEW r \in Run, NEW i \in Inode, NEW inode \in 0..INODE_COUNT,
           NEW name \in AllNames, NEW x \in Int, NEW y \in Int
    PROVE  Keeps(r, Link(r, i, inode, name), x, y)
<1> DEFINE n    == r.disk.inode_table[i].i_blocks
           room == {z \in 0..(n - 1) : CanInsert(BlockAt(r.disk, i, z), name)}
           b    == r.disk.inode_table[i].i_block[Min(room)]
           r1   == PutBlock(r, b, Insert(r.disk.data[b], inode, name))
           r2   == add_file_block(r, i)
           f    == Flag(r2, "exposed_block")
           r3   == PutBlock(f, r2.ret, FirstEntry(inode, name))
           new  == [r3 EXCEPT !.mishaps = r2.mishaps]
<1>1. Keeps(r, r, x, y) /\ Keeps(r, Stop(r, "lost"), x, y) /\ Keeps(r, r1, x, y)
  BY KeepsSame, StopKeeps, PutBlockKeeps
<1>2. Keeps(r, Flag(r1, "gap_overwrite"), x, y)
  <2>1. r1.status = r.status /\ DOMAIN r1 = DOMAIN r
    BY DEF PutBlock, Put, Run
  <2> DEFINE g == Flag(r1, "gap_overwrite")
  <2>2. g.mishaps \in {r1.mishaps, r1.mishaps \cup {"gap_overwrite"}}
        /\ g.disk = r1.disk /\ g.cuts = r1.cuts /\ g.status = r1.status
    BY <2>1 DEF Flag, PutBlock, Put, Run
  <2> HIDE DEF r1, g
  <2>3. Keeps(r, g, x, y)
    BY <1>1, <2>2 DEF Keeps, Level
  <2>4. QED
    BY <2>3 DEF g
<1>3. Keeps(r, new, x, y)
  <2>1. r2 \in Run /\ Keeps(r, r2, x, y)
    BY AddFileBlockType, AddFileBlockKeeps
  <2> HIDE DEF r2
  <2>2. f \in Run /\ f.disk = r2.disk /\ f.status = r2.status /\ f.cuts = r2.cuts
        /\ r2.mishaps \subseteq f.mishaps
    BY <2>1, FlagType DEF Flag, Mishaps, Run
  <2> HIDE DEF f
  <2>3. Keeps(r2, new, x, y)
    <3> DEFINE d == [f.disk EXCEPT !.data[r2.ret] = FirstEntry(inode, name)]
               c == [disk |-> f.disk, mishaps |-> f.mishaps]
    <3>1. r3 = Put(f, d)
      BY DEF PutBlock
    <3>2. SameCounts(d, r2.disk)
      BY <2>1, <2>2, RunDisk DEF SameCounts, Disk
    <3> HIDE DEF d
    <3>3. CASE f.status # "ok"
      <4>1. r3 = f
        BY <3>1, <3>3 DEF Put
      <4>2. /\ new.disk = r2.disk /\ new.mishaps = r2.mishaps
            /\ new.cuts = r2.cuts /\ new.status = r2.status
        BY <2>2, <4>1 DEF Run
      <4>3. QED
        BY <4>2 DEF Keeps, Level
    <3>4. CASE f.status = "ok"
      <4>1. r3 = [f EXCEPT !.disk = d, !.cuts = f.cuts \cup {c}]
        BY <3>1, <3>4 DEF Put
      <4>2. /\ new.disk = d /\ new.mishaps = r2.mishaps
            /\ new.cuts = r2.cuts \cup {c} /\ new.status = r2.status
        BY <2>2, <4>1 DEF Run
      <4>3. InodeDrift(d) = InodeDrift(r2.disk) /\ BlockDrift(d) = BlockDrift(r2.disk)
        BY <3>2 DEF SameCounts, InodeDrift, BlockDrift
      <4>4. Level(r2, x, y) => Near(c, x, y)
        BY <2>2 DEF Level, Near, Abs
      <4> HIDE DEF new
      <4>5. QED
        BY <2>2, <4>2, <4>3, <4>4 DEF Keeps, Level
    <3>5. QED
      BY <3>3, <3>4
  <2>4. QED
    BY <2>1, <2>3, KeepsTransitive
<1>4. Link(r, i, inode, name) \in {r, Stop(r, "lost"), new, r1, Flag(r1, "gap_overwrite")}
  BY DEF Link
<1>5. QED
  BY <1>1, <1>2, <1>3, <1>4

\* The size of a directory is in its inode.
LEMMA ResizeKeeps ==
    ASSUME NEW r \in Run, NEW i, NEW delta, NEW x \in Int, NEW y \in Int
    PROVE  Keeps(r, Resize(r, i, delta), x, y)
BY PutInodeKeeps DEF Resize

-----------------------------------------------------------------------------
(* The bitmap of the inodes: free_inode is the only routine that takes an   *)
(* inode out of it.                                                         *)

Marks(r, q) == r.disk.inode_bitmap \subseteq q.disk.inode_bitmap

\* A write that does not.
LEMMA PutMarks ==
    ASSUME NEW r \in Run, NEW d, r.disk.inode_bitmap \subseteq d.inode_bitmap
    PROVE  Marks(r, Put(r, d))
BY DEF Run, Put, Marks

\* The records of a run are no writes.
LEMMA NotesMark ==
    ASSUME NEW r \in Run, NEW m, NEW n, NEW how
    PROVE  Marks(r, Flag(r, m)) /\ Marks(r, Return(r, n)) /\ Marks(r, Stop(r, how))
BY DEF Run, Flag, Return, Stop, Marks

\* Nor do the writes of an inode or a block.
LEMMA WritesMark ==
    ASSUME NEW r \in Run, NEW i, NEW e, NEW b, NEW content, NEW delta
    PROVE  /\ Marks(r, PutInode(r, i, e)) /\ Marks(r, PutBlock(r, b, content))
           /\ Marks(r, Resize(r, i, delta))
<1>1. ASSUME NEW f PROVE Marks(r, PutInode(r, i, f))
  <2>1. r.disk.inode_bitmap \subseteq [r.disk EXCEPT !.inode_table[i] = f].inode_bitmap
    BY RunDisk DEF Disk
  <2>2. QED
    BY <2>1, PutMarks DEF PutInode, Marks
<1>2. r.disk.inode_bitmap \subseteq [r.disk EXCEPT !.data[b] = content].inode_bitmap
  BY RunDisk DEF Disk
<1>3. QED
  BY <1>1, <1>2, PutMarks DEF PutBlock, Resize

\* Nor do the allocations.
LEMMA AllocationMarks ==
    ASSUME NEW r \in Run
    PROVE  Marks(r, new_inode(r)) /\ Marks(r, new_block(r))
<1>1. Marks(r, Return(Flag(r, "no_inode"), 0)) /\ Marks(r, Return(Flag(r, "no_block"), 0))
      /\ Marks(r, Return(Stop(r, "lost"), 0))
  <2>1. ASSUME NEW q \in Run, Marks(r, q) PROVE Marks(r, Return(q, 0))
    BY <2>1, NotesMark DEF Marks
  <2>2. Flag(r, "no_inode") \in Run /\ Flag(r, "no_block") \in Run /\ Stop(r, "lost") \in Run
    BY FlagType, StopType DEF Mishaps
  <2>3. QED
    BY <2>1, <2>2, NotesMark
<1>2. Marks(r, new_inode(r))
  <2> DEFINE i  == Min(Inode \ r.disk.inode_bitmap)
             e  == [ZeroInode EXCEPT !.perm = 6]
             d1 == [r.disk EXCEPT !.inode_bitmap = @ \cup {i}]
             r1 == Put(r, d1)
             r2 == PutInode(r1, i, e)
             d3 == [r2.disk EXCEPT !.free_inodes_count = Decr(@)]
             r3 == Put(r2, d3)
  <2>1. CASE r.disk.free_inodes_count = 0
    BY <2>1, <1>1 DEF new_inode
  <2>2. CASE r.disk.free_inodes_count # 0 /\ r.disk.inode_bitmap = Inode
    BY <2>2, <1>1 DEF new_inode
  <2>3. CASE r.disk.free_inodes_count # 0 /\ r.disk.inode_bitmap # Inode
    <3>1. i \in Inode \ r.disk.inode_bitmap
      <4>1. Inode \ r.disk.inode_bitmap # {}
        BY <2>3, RunDisk DEF Disk
      <4>2. Inode \ r.disk.inode_bitmap \subseteq Nat
        BY DEF Inode
      <4>3. QED
        BY <4>1, <4>2, MinOfNats
    <3>2. new_inode(r) = Return(r3, i)
      BY <2>3 DEF new_inode
    <3> HIDE DEF i
    <3>3. d1 \in Disk /\ r.disk.inode_bitmap \subseteq d1.inode_bitmap
      BY <3>1, RunDisk DEF Disk
    <3> HIDE DEF d1
    <3>4. r1 \in Run /\ Marks(r, r1)
      BY <3>3, PutType, PutMarks
    <3> HIDE DEF r1
    <3>5. e \in InodeEntry
      BY ZeroInodeType
    <3> HIDE DEF e
    <3>6. r2 \in Run /\ Marks(r1, r2)
      BY <3>4, <3>5, PutInodeType, WritesMark
    <3> HIDE DEF r2
    <3>7. Decr(r2.disk.free_inodes_count) \in Position
      BY <3>6, RunDisk, CountsType DEF Disk, Position
    <3>8. d3 \in Disk /\ r2.disk.inode_bitmap \subseteq d3.inode_bitmap
      BY <3>6, <3>7, RunDisk DEF Disk, Position
    <3> HIDE DEF d3
    <3>9. r3 \in Run /\ Marks(r2, r3)
      BY <3>6, <3>8, PutType, PutMarks
    <3> HIDE DEF r3
    <3>10. Marks(r3, Return(r3, i))
      BY <3>9, NotesMark
    <3>11. QED
      BY <3>2, <3>4, <3>6, <3>9, <3>10 DEF Marks
  <2>4. QED
    BY <2>1, <2>2, <2>3
<1>3. Marks(r, new_block(r))
  <2> DEFINE b  == Min(Block \ r.disk.block_bitmap)
             d1 == [r.disk EXCEPT !.block_bitmap = @ \cup {b}]
             r1 == Put(r, d1)
             d2 == [r1.disk EXCEPT !.free_blocks_count = Decr(@)]
             r2 == Put(r1, d2)
  <2>1. CASE r.disk.free_blocks_count = 0
    BY <2>1, <1>1 DEF new_block
  <2>2. CASE r.disk.free_blocks_count # 0 /\ r.disk.block_bitmap = Block
    BY <2>2, <1>1 DEF new_block
  <2>3. CASE r.disk.free_blocks_count # 0 /\ r.disk.block_bitmap # Block
    <3>1. b \in Block
      <4>1. Block \ r.disk.block_bitmap # {}
        BY <2>3, RunDisk DEF Disk
      <4>2. Block \ r.disk.block_bitmap \subseteq Nat
        BY DEF Block
      <4>3. QED
        BY <4>1, <4>2, MinOfNats
    <3>2. new_block(r) = Return(r2, b)
      BY <2>3 DEF new_block
    <3> HIDE DEF b
    <3>3. d1 \in Disk /\ r.disk.inode_bitmap \subseteq d1.inode_bitmap
      BY <3>1, RunDisk DEF Disk
    <3> HIDE DEF d1
    <3>4. r1 \in Run /\ Marks(r, r1)
      BY <3>3, PutType, PutMarks
    <3> HIDE DEF r1
    <3>5. Decr(r1.disk.free_blocks_count) \in Position
      BY <3>4, RunDisk, CountsType DEF Disk, Position
    <3>6. d2 \in Disk /\ r1.disk.inode_bitmap \subseteq d2.inode_bitmap
      BY <3>4, <3>5, RunDisk DEF Disk, Position
    <3> HIDE DEF d2
    <3>7. r2 \in Run /\ Marks(r1, r2)
      BY <3>4, <3>6, PutType, PutMarks
    <3> HIDE DEF r2
    <3>8. Marks(r2, Return(r2, b))
      BY <3>7, NotesMark
    <3>9. QED
      BY <3>2, <3>4, <3>7, <3>8 DEF Marks
  <2>4. QED
    BY <2>1, <2>2, <2>3
<1>4. QED
  BY <1>2, <1>3

\* Nor does add_file_block.
LEMMA AddFileBlockMarks ==
    ASSUME NEW r \in Run, NEW i \in Inode
    PROVE  Marks(r, add_file_block(r, i))
<1> DEFINE n  == r.disk.inode_table[i].i_blocks
           r1 == new_block(r)
           e  == [r1.disk.inode_table[i] EXCEPT !.i_block[n] = r1.ret, !.i_blocks = n + 1]
           r2 == PutInode(r1, i, e)
<1>1. CASE n = NDIRECT
  BY <1>1, NotesMark DEF add_file_block
<1>2. CASE n # NDIRECT
  <2>1. r1 \in Run /\ r1.ret \in Block /\ Marks(r, r1)
    BY NewBlockRunType, AllocationMarks
  <2>2. add_file_block(r, i) = Return(r2, r1.ret)
    BY <1>2 DEF add_file_block
  <2> HIDE DEF r1, e
  <2>3. Marks(r1, r2)
    BY <2>1, WritesMark
  <2>4. r2.disk.inode_bitmap = Return(r2, r1.ret).disk.inode_bitmap
    BY <2>1 DEF PutInode, Put, Return, Run
  <2>5. QED
    BY <2>1, <2>2, <2>3, <2>4 DEF Marks
<1>3. QED
  BY <1>1, <1>2

\* Nor does linking a name.
LEMMA LinkMarks ==
    ASSUME NEW r \in Run, NEW i \in Inode, NEW k, NEW name
    PROVE  Marks(r, Link(r, i, k, name))
<1> DEFINE n    == r.disk.inode_table[i].i_blocks
           room == {z \in 0..(n - 1) : CanInsert(BlockAt(r.disk, i, z), name)}
           b    == r.disk.inode_table[i].i_block[Min(room)]
           r1   == PutBlock(r, b, Insert(r.disk.data[b], k, name))
           r2   == add_file_block(r, i)
           f    == Flag(r2, "exposed_block")
           r3   == PutBlock(f, r2.ret, FirstEntry(k, name))
           new  == [r3 EXCEPT !.mishaps = r2.mishaps]
<1>1. Marks(r, r) /\ Marks(r, Stop(r, "lost"))
  BY NotesMark DEF Marks
<1>2. Marks(r, r1) /\ Marks(r, Flag(r1, "gap_overwrite"))
  <2>1. Marks(r, r1)
    BY WritesMark
  <2>2. Flag(r1, "gap_overwrite").disk = r1.disk
    BY DEF PutBlock, Put, Flag, Run
  <2>3. QED
    BY <2>1, <2>2 DEF Marks
<1>3. Marks(r, new)
  <2>1. r2 \in Run /\ Marks(r, r2)
    BY AddFileBlockType, AddFileBlockMarks
  <2> HIDE DEF r2
  <2>2. f \in Run /\ f.disk = r2.disk
    BY <2>1, FlagType DEF Mishaps
  <2> HIDE DEF f
  <2>3. Marks(f, r3)
    BY <2>2, WritesMark
  <2>4. new.disk = r3.disk
    BY <2>2 DEF PutBlock, Put, Run
  <2>5. QED
    BY <2>1, <2>2, <2>3, <2>4 DEF Marks
<1>4. Link(r, i, k, name) \in {r, Stop(r, "lost"), new, r1, Flag(r1, "gap_overwrite")}
  BY DEF Link
<1>5. QED
  BY <1>1, <1>2, <1>3, <1>4

\* Nor does unlinking one, or freeing the blocks of an inode.
LEMMA UnlinkMarks ==
    ASSUME NEW r \in Run, NEW i, NEW name
    PROVE  Marks(r, Unlink(r, i, name)) /\ Marks(r, free_file_blocks(r, i))
<1> DEFINE q == Unlink(r, i, name)
           p == free_file_blocks(r, i)
<1>1. q.disk.inode_bitmap = r.disk.inode_bitmap
  BY RunDisk DEF Unlink, Put, Flag, Run, Disk
<1>2. p.disk.inode_bitmap = r.disk.inode_bitmap
  BY RunDisk DEF free_file_blocks, Freed, Run, Disk
<1>3. QED
  BY <1>1, <1>2 DEF Marks

\* free_inode takes one inode out of the bitmap at most.
LEMMA FreeInodeMarks ==
    ASSUME NEW r \in Run, NEW i \in Inode
    PROVE  r.disk.inode_bitmap \ {i} \subseteq free_inode(r, i).disk.inode_bitmap
<1> DEFINE d1 == [r.disk EXCEPT !.inode_bitmap = Inverted(@, i)]
           r1 == Put(r, d1)
           r2 == IF i \in r.disk.inode_bitmap THEN r1 ELSE Flag(r1, "double_free")
           d3 == [r2.disk EXCEPT !.free_inodes_count = Incr(@)]
<1>1. free_inode(r, i) = Put(r2, d3)
  BY DEF free_inode
<1>2. d1 \in Disk /\ r.disk.inode_bitmap \ {i} \subseteq d1.inode_bitmap
  BY RunDisk DEF Disk, Inverted
<1> HIDE DEF d1
<1>3. r1 \in Run /\ r1.disk \in {r.disk, d1}
  BY <1>2, PutType DEF Put, Run
<1> HIDE DEF r1
<1>4. r2 \in Run /\ r2.disk = r1.disk
  BY <1>3, FlagType DEF Mishaps
<1> HIDE DEF r2
<1>5. d3.inode_bitmap = r2.disk.inode_bitmap
  BY <1>4, RunDisk DEF Disk
<1> HIDE DEF d3
<1>6. Marks(r2, Put(r2, d3))
  BY <1>4, <1>5, PutMarks
<1>7. QED
  BY <1>1, <1>2, <1>3, <1>4, <1>6 DEF Marks

-----------------------------------------------------------------------------
(* Making a file or a directory.                                            *)

\* A write is no mishap.
LEMMA PutKeepsMishaps ==
    ASSUME NEW r \in Run, NEW d
    PROVE  Put(r, d).mishaps = r.mishaps
BY DEF Put, Run

\* A new entry: its inode, the count of directories, the block and what it
\* holds.
LEMMA NewDirEntryKeeps ==
    ASSUME NEW r \in Run, NEW name, NEW type \in {FT_REG_FILE, FT_DIR},
           NEW parent \in Inode, NEW x \in Int, NEW y \in Int
    PROVE  /\ Keeps(r, new_dir_entry(r, name, type, parent), x, y)
           /\ Marks(r, new_dir_entry(r, name, type, parent))
<1> DEFINE r1 == new_inode(r)
           i  == r1.ret
           e2 == [r1.disk.inode_table[i] EXCEPT
                    !.type = type, !.perm = IF name \in ExecNames THEN 7 ELSE @]
           r2 == IF i = 0 THEN r1 ELSE PutInode(r1, i, e2)
           r3 == Put(r2, [r2.disk EXCEPT !.used_dirs_count = Incr(@)])
           r4 == new_block(r3)
           r5 == PutBlock(r4, r4.ret, DirImage(i, parent))
           e6 == [r5.disk.inode_table[i] EXCEPT !.i_blocks = 1, !.i_size = 17,
                                                !.i_block[0] = r4.ret, !.perm = 6]
           r6 == IF i = 0 THEN r5 ELSE PutInode(r5, i, e6)
           r7 == IF type = FT_DIR THEN r6 ELSE r2
           Step(q, s) == Keeps(q, s, x, y) /\ Marks(q, s)
<1>1. r1 \in Run /\ i \in 0..INODE_COUNT /\ i \in Position /\ Step(r, r1)
  BY NewInodeType, NewInodeKeeps, AllocationMarks, Volume
<1>2. new_dir_entry(r, name, type, parent) = Return(r7, i)
  BY DEF new_dir_entry
<1> HIDE DEF r1, i
<1>3. ASSUME NEW q \in Run, i # 0 PROVE q.disk.inode_table[i] \in InodeEntry
  <2>1. i \in Inode
    BY <1>1, <1>3 DEF Inode
  <2>2. QED
    BY <2>1, RunDisk DEF Disk
<1>4. ASSUME NEW q \in Run, NEW e, i # 0 => e \in InodeEntry
      PROVE  PutInode(q, i, e) \in Run /\ Step(q, PutInode(q, i, e))
  <2>1. i \in Inode => e \in InodeEntry
    BY <1>4 DEF Inode
  <2>2. QED
    BY <2>1, PutInodeType, PutInodeKeeps, WritesMark DEF PutInode
<1>5. r2 \in Run /\ Step(r1, r2)
  <2>1. ASSUME i # 0 PROVE e2 \in InodeEntry
    <3> DEFINE e == r1.disk.inode_table[i]
               p == IF name \in ExecNames THEN 7 ELSE e.perm
    <3>1. e \in InodeEntry
      BY <1>1, <1>3, <2>1
    <3> HIDE DEF e
    <3>2. p \in 0..7
      BY <3>1 DEF InodeEntry
    <3> HIDE DEF p
    <3>3. [e EXCEPT !.type = type, !.perm = p] \in InodeEntry
      BY <3>1, <3>2 DEF InodeEntry
    <3>4. QED
      BY <3>3 DEF e, p
  <2> HIDE DEF e2
  <2>2. QED
    BY <1>1, <1>4, <2>1, KeepsSame DEF Marks
<1> HIDE DEF r2
<1>6. r3 \in Run /\ Step(r2, r3)
  <2> DEFINE d == [r2.disk EXCEPT !.used_dirs_count = Incr(@)]
  <2>1. Incr(r2.disk.used_dirs_count) \in Position
    BY <1>5, RunDisk, CountsType DEF Disk, Position
  <2>2. d \in Disk /\ SameCounts(d, r2.disk)
    BY <1>5, <2>1, RunDisk DEF Disk, Position, SameCounts
  <2> HIDE DEF d
  <2>3. Put(r2, d) \in Run /\ Step(r2, Put(r2, d))
    BY <1>5, <2>2, PutType, PutKeeps, PutMarks DEF SameCounts
  <2>4. QED
    BY <2>3 DEF d
<1> HIDE DEF r3
<1>7. r4 \in Run /\ r4.ret \in Block /\ Step(r3, r4)
  BY <1>6, NewBlockRunType, NewBlockKeeps, AllocationMarks
<1> HIDE DEF r4
<1>8. r5 \in Run /\ Step(r4, r5)
  <2>1. DirImage(i, parent) \in Content
    <3>1. parent \in 0..INODE_COUNT /\ NoName \in AllNames
      BY Volume DEF AllNames
    <3>2. QED
      BY <1>1, <3>1, NewBlockType DEF Content
  <2>2. QED
    BY <1>7, <2>1, PutBlockType, PutBlockKeeps, WritesMark DEF PutBlock
<1> HIDE DEF r5
<1>9. r6 \in Run /\ Step(r5, r6)
  <2>1. ASSUME i # 0 PROVE e6 \in InodeEntry
    <3> DEFINE e == r5.disk.inode_table[i]
               a == [e.i_block EXCEPT ![0] = r4.ret]
               p == 6
    <3>1. e \in InodeEntry
      BY <1>3, <1>8, <2>1
    <3> HIDE DEF e
    <3>2. 1 \in 0..NDIRECT /\ 17 \in 0..(SIZE_MOD - 1) /\ p \in 0..7
      BY VolumeAssumption
    <3>3. a \in [0..(NDIRECT - 1) -> Block]
      BY <1>7, <3>1 DEF InodeEntry
    <3> HIDE DEF a, p
    <3>4. [e EXCEPT !.i_blocks = 1, !.i_size = 17, !.i_block = a, !.perm = p] \in InodeEntry
      BY <3>1, <3>2, <3>3 DEF InodeEntry
    <3>5. QED
      BY <3>4 DEF e, a, p
  <2> HIDE DEF e6
  <2>2. QED
    BY <1>4, <1>8, <2>1, KeepsSame DEF Marks
<1> HIDE DEF r6
<1>10. ASSUME NEW q, NEW s, NEW t, Step(q, s), Step(s, t) PROVE Step(q, t)
  BY <1>10, KeepsTransitive DEF Marks
<1>11. r7 \in Run /\ Step(r, r7)
  <2> HIDE DEF Step
  <2>1. Step(r, r2)
    BY <1>1, <1>5, <1>10
  <2>2. Step(r, r4)
    BY <2>1, <1>6, <1>7, <1>10
  <2>3. Step(r, r6)
    BY <2>2, <1>8, <1>9, <1>10
  <2>4. QED
    BY <2>1, <2>3, <1>5, <1>9
<1> HIDE DEF r7
<1>12. Return(r7, i).disk = r7.disk
  BY <1>11 DEF Return, Run
<1>13. Keeps(r7, Return(r7, i), x, y)
  BY <1>11, ReturnKeeps
<1>14. QED
  BY <1>2, <1>11, <1>12, <1>13, KeepsTransitive DEF Marks

-----------------------------------------------------------------------------
(* The runs of the commands.                                                *)

Start == Begin(disk, mishaps)

\* A search leaves the disk as it was, or loses the process.
LEMMA SearchKeeps ==
    ASSUME TypeOK, NEW name, NEW x \in Int, NEW y \in Int
    PROVE  Keeps(Start, Search(name), x, y) /\ Marks(Start, Search(name))
<1>1. Start \in Run
  BY BeginType DEF TypeOK, Start
<1>2. Keeps(Start, Start, x, y) /\ Keeps(Start, Stop(Start, "lost"), x, y)
  BY <1>1, KeepsSame, StopKeeps
<1>3. Marks(Start, Start) /\ Marks(Start, Stop(Start, "lost"))
  BY <1>1, NotesMark DEF Marks
<1>4. Search(name) \in {Start, Stop(Start, "lost")}
  BY DEF Search, Start
<1>5. QED
  BY <1>2, <1>3, <1>4

\* mkdir and create keep the drift, at every write but those between a bitmap
\* and its count.
LEMMA MakeRunKeeps ==
    ASSUME TypeOK, NEW name \in AllNames, NEW type \in {FT_REG_FILE, FT_DIR},
           NEW x \in Int, NEW y \in Int
    PROVE  Keeps(Start, MakeRun(name, type), x, y) /\ Marks(Start, MakeRun(name, type))
<1> DEFINE r0 == Search(name)
           r1 == new_dir_entry(r0, name, type, current_dir)
           r2 == Link(r1, current_dir, r1.ret, name)
           r3 == Resize(r2, current_dir, EntryBytes(name))
<1>1. current_dir \in Inode
  BY DEF TypeOK
<1>2. r0 \in Run /\ Keeps(Start, r0, x, y) /\ Marks(Start, r0)
  BY SearchRunType, SearchKeeps
<1>3. MakeRun(name, type) = r3
  BY DEF MakeRun
<1> HIDE DEF r0
<1>4. r1 \in Run /\ r1.ret \in 0..INODE_COUNT /\ Keeps(r0, r1, x, y) /\ Marks(r0, r1)
  BY <1>1, <1>2, NewDirEntryType, NewDirEntryKeeps
<1> HIDE DEF r1
<1>5. r2 \in Run /\ Keeps(r1, r2, x, y) /\ Marks(r1, r2)
  BY <1>1, <1>4, LinkType, LinkKeeps, LinkMarks
<1> HIDE DEF r2
<1>6. Keeps(r2, r3, x, y) /\ Marks(r2, r3)
  BY <1>5, ResizeKeeps, WritesMark
<1> HIDE DEF r3
<1>7. Keeps(Start, r2, x, y)
  BY <1>2, <1>4, <1>5, KeepsTransitive
<1>8. Marks(Start, r3)
  BY <1>2, <1>4, <1>5, <1>6 DEF Marks
<1>9. QED
  BY <1>3, <1>6, <1>7, <1>8, KeepsTransitive

\* So do rmdir and delete.
LEMMA RemoveRunKeeps ==
    ASSUME TypeOK, NEW name \in AllNames, NEW i \in Inode, NEW x, NEW y, Drift(x, y)
    PROVE  /\ Keeps(Start, RemoveRun(name, i), x, y) /\ Keeps(Start, RmdirRun(name, i), x, y)
           /\ disk.inode_bitmap \ {i} \subseteq RemoveRun(name, i).disk.inode_bitmap
           /\ disk.inode_bitmap \ {i} \subseteq RmdirRun(name, i).disk.inode_bitmap
<1> DEFINE r0 == Search(name)
           r1 == Unlink(r0, current_dir, name)
           r2 == free_file_blocks(r1, i)
           r3 == free_inode(r2, i)
           r4 == Resize(r3, current_dir, -EntryBytes(name))
           d5 == [r4.disk EXCEPT !.used_dirs_count = Decr(@)]
           r5 == Put(r4, d5)
<1>1. current_dir \in Inode /\ x \in Int /\ y \in Int
  BY DEF TypeOK, Drift
<1>2. r0 \in Run /\ Keeps(Start, r0, x, y) /\ Marks(Start, r0)
  BY <1>1, SearchRunType, SearchKeeps
<1>3. RemoveRun(name, i) = r4
  BY DEF RemoveRun
<1>4. RmdirRun(name, i) \in {r5, Flag(r5, "open_dir_removed")}
  BY <1>3 DEF RmdirRun
<1> HIDE DEF r0
<1>5. r1 \in Run /\ Keeps(r0, r1, x, y) /\ Marks(r0, r1)
  BY <1>1, <1>2, UnlinkType, UnlinkKeeps, UnlinkMarks
<1> HIDE DEF r1
<1>6. r2 \in Run /\ Keeps(r1, r2, x, y) /\ Marks(r1, r2)
  BY <1>5, FreeFileBlocksType, FreeFileBlocksKeeps, UnlinkMarks
<1> HIDE DEF r2
<1>7. r3 \in Run /\ Keeps(r2, r3, x, y) /\ r2.disk.inode_bitmap \ {i} \subseteq r3.disk.inode_bitmap
  BY <1>6, FreeInodeType, FreeInodeKeeps, FreeInodeMarks
<1> HIDE DEF r3
<1>8. r4 \in Run /\ Keeps(r3, r4, x, y) /\ Marks(r3, r4)
  BY <1>1, <1>3, <1>7, RemoveRunType, ResizeKeeps, WritesMark
<1> HIDE DEF r4
<1>9. Keeps(Start, r4, x, y)
  <2>1. Keeps(Start, r2, x, y)
    BY <1>2, <1>5, <1>6, KeepsTransitive
  <2>2. QED
    BY <2>1, <1>7, <1>8, KeepsTransitive
<1>10. r5 \in Run /\ Keeps(r4, r5, x, y) /\ Marks(r4, r5)
  <2>1. Decr(r4.disk.used_dirs_count) \in Position
    BY <1>8, RunDisk, CountsType DEF Disk, Position
  <2>2. d5 \in Disk /\ SameCounts(d5, r4.disk)
    BY <1>8, <2>1, RunDisk DEF Disk, Position, SameCounts
  <2> HIDE DEF d5
  <2>3. QED
    BY <1>1, <1>8, <2>2, PutType, PutKeeps, PutMarks DEF SameCounts
<1> HIDE DEF r5
<1>11. Keeps(r5, Flag(r5, "open_dir_removed"), x, y) /\ Marks(r5, Flag(r5, "open_dir_removed"))
  BY <1>10, FlagKeeps, NotesMark DEF Mishaps
<1>12. Keeps(Start, r5, x, y)
  BY <1>9, <1>10, KeepsTransitive
<1>13. Keeps(Start, Flag(r5, "open_dir_removed"), x, y)
  BY <1>11, <1>12, KeepsTransitive
<1>14. /\ disk.inode_bitmap \ {i} \subseteq r4.disk.inode_bitmap
       /\ disk.inode_bitmap \ {i} \subseteq r5.disk.inode_bitmap
       /\ disk.inode_bitmap \ {i} \subseteq Flag(r5, "open_dir_removed").disk.inode_bitmap
  <2>1. Start.disk = disk
    BY DEF Start, Begin
  <2>2. QED
    BY <1>2, <1>5, <1>6, <1>7, <1>8, <1>10, <1>11, <2>1 DEF Marks
<1>15. QED
  BY <1>3, <1>4, <1>9, <1>12, <1>13, <1>14

\* So does chmod.
LEMMA AttribRunKeeps ==
    ASSUME TypeOK, NEW name, NEW i, NEW e, NEW x \in Int, NEW y \in Int
    PROVE  /\ Keeps(Start, PutInode(Search(name), i, e), x, y)
           /\ Marks(Start, PutInode(Search(name), i, e))
<1>1. Search(name) \in Run /\ Keeps(Start, Search(name), x, y) /\ Marks(Start, Search(name))
  BY SearchRunType, SearchKeeps
<1>2. /\ Keeps(Search(name), PutInode(Search(name), i, e), x, y)
      /\ Marks(Search(name), PutInode(Search(name), i, e))
  BY <1>1, PutInodeKeeps, WritesMark
<1>3. QED
  BY <1>1, <1>2, KeepsTransitive DEF Marks

\* So does write.
LEMMA WriteRunKeeps ==
    ASSUME TypeOK, NEW name, NEW i \in Inode, NEW n \in Nat, NEW x \in Int, NEW y \in Int
    PROVE  /\ Keeps(Start, WriteRun(name, i, n), x, y) /\ Marks(Start, WriteRun(name, i, n))
           /\ entry(i).type = FT_DIR =>
                 Keeps(Flag(Search(name), "dir_written"), WriteRun(name, i, n), x, y)
<1> DEFINE r0 == IF entry(i).type = FT_DIR THEN Flag(Search(name), "dir_written") ELSE Search(name)
           w == WriteStart(r0, i)
           fill(q) == PutBlock(q, LastBlock(q, i), FileBytes)
           full == add_file_block(fill(w.run), i)
           r1 == IF w.pos + n < BLOCK_SIZE THEN w.run ELSE full
           Step(q, s) == s \in Run /\ Keeps(q, s, x, y) /\ Marks(q, s)
<1>1. Step(Start, r0)
  <2>1. Step(Start, Search(name))
    BY SearchRunType, SearchKeeps
  <2>2. Step(Search(name), Flag(Search(name), "dir_written"))
    BY <2>1, FlagType, FlagKeeps, NotesMark DEF Mishaps
  <2>3. QED
    BY <2>1, <2>2, KeepsTransitive DEF Marks
<1>2. /\ WriteRun(name, i, n) = Resize(fill(r1), i, n - 1)
      /\ entry(i).type = FT_DIR => r0 = Flag(Search(name), "dir_written")
  BY DEF WriteRun
<1>3. Step(r0, w.run)
  <2> DEFINE e  == r0.disk.inode_table[i]
             q  == new_block(r0)
             e1 == [e EXCEPT !.i_block[0] = q.ret, !.i_blocks = 1]
  <2>1. w.run \in {PutInode(q, i, e1), add_file_block(r0, i), r0}
    BY DEF WriteStart
  <2> HIDE DEF r0
  <2>2. e \in InodeEntry
    BY <1>1, RunDisk DEF Disk
  <2>3. q \in Run /\ q.ret \in Block /\ Keeps(r0, q, x, y) /\ Marks(r0, q)
    BY <1>1, NewBlockRunType, NewBlockKeeps, AllocationMarks
  <2> HIDE DEF q, e
  <2>4. e1 \in InodeEntry
    <3>1. 1 \in 0..NDIRECT
      BY VolumeAssumption
    <3>2. QED
      BY <2>2, <2>3, <3>1 DEF InodeEntry
  <2> HIDE DEF e1
  <2>5. Step(q, PutInode(q, i, e1))
    BY <2>3, <2>4, PutInodeType, PutInodeKeeps, WritesMark
  <2>6. Step(r0, PutInode(q, i, e1))
    BY <2>3, <2>5, KeepsTransitive DEF Marks
  <2>7. Step(r0, add_file_block(r0, i))
    BY <1>1, AddFileBlockType, AddFileBlockKeeps, AddFileBlockMarks
  <2>8. QED
    BY <1>1, <2>1, <2>6, <2>7, KeepsSame DEF Marks
<1>4. ASSUME NEW q \in Run PROVE Step(q, fill(q))
  BY PutBlockType, PutBlockKeeps, WritesMark DEF Content
<1> HIDE DEF r0, w, fill
<1>5. Step(w.run, r1)
  <2>1. Step(w.run, fill(w.run))
    BY <1>3, <1>4
  <2>2. Step(fill(w.run), full)
    BY <2>1, AddFileBlockType, AddFileBlockKeeps, AddFileBlockMarks
  <2> HIDE DEF full
  <2>3. Step(w.run, full)
    BY <2>1, <2>2, KeepsTransitive DEF Marks
  <2>4. QED
    BY <1>3, <2>3, KeepsSame DEF Marks
<1> HIDE DEF r1
<1>6. Step(r1, fill(r1))
  BY <1>4, <1>5
<1> DEFINE q == Resize(fill(r1), i, n - 1)
<1>7. Keeps(fill(r1), q, x, y) /\ Marks(fill(r1), q)
  BY <1>6, ResizeKeeps, WritesMark
<1>8. WriteRun(name, i, n) = q
  BY <1>2
<1> HIDE DEF q
<1>9. Step(Start, r1) /\ Step(r0, r1)
  BY <1>1, <1>3, <1>5, KeepsTransitive DEF Marks
<1>10. Keeps(Start, q, x, y) /\ Keeps(r0, q, x, y) /\ Marks(Start, q)
  <2>1. Step(Start, fill(r1)) /\ Step(r0, fill(r1))
    BY <1>6, <1>9, KeepsTransitive DEF Marks
  <2>2. QED
    BY <1>7, <2>1, KeepsTransitive DEF Marks
<1>11. QED
  BY <1>2, <1>8, <1>10

-----------------------------------------------------------------------------
(* Format.                                                                  *)

\* On the volume that initialize_disk leaves the counts and the bitmaps agree.
LEMMA FormattedDrift == InodeDrift(Formatted) = 0 /\ BlockDrift(Formatted) = 0
<1>1. /\ Formatted.inode_bitmap = {ROOT} /\ Formatted.block_bitmap = {0}
      /\ Formatted.free_inodes_count = Decr(INODE_COUNT)
      /\ Formatted.free_blocks_count = Decr(DATA_BLOCK_COUNT)
  BY DEF Formatted
<1>2. Decr(INODE_COUNT) = INODE_COUNT - 1 /\ Decr(DATA_BLOCK_COUNT) = DATA_BLOCK_COUNT - 1
  <2>1. INODE_COUNT \in Position \ {0} /\ DATA_BLOCK_COUNT \in Position \ {0}
    BY SizesAssumption, VolumeAssumption, Ushort DEF Position
  <2>2. QED
    BY <2>1, CountsExact
<1>3. Cardinality({ROOT}) = 1 /\ Cardinality({0}) = 1
  BY FS_Singleton
<1>4. QED
  BY <1>1, <1>2, <1>3, Volume DEF InodeDrift, BlockDrift

-----------------------------------------------------------------------------
(* The bound.                                                               *)

\* However a command ends, a kill is the only thing that adds to the drift.
LEMMA DoesDrift ==
    ASSUME TypeOK, DriftBounded, NEW r \in Run, Does(r),
           \A x, y : Drift(x, y) => Keeps(Start, r, x, y)
    PROVE  DriftBounded'
<1> DEFINE x == IF mishaps \cap Spoils = {} THEN InodeDrift(disk) ELSE 0
           y == IF mishaps \cap Spoils = {} THEN BlockDrift(disk) ELSE 0
<1>1. /\ disk \in Disk /\ crashes \in Int /\ 0 <= crashes /\ crashes <= MaxCrashes
      /\ MaxCrashes \in Int
  BY SessionAssumption DEF TypeOK
<1>2. InodeDrift(disk) \in Int /\ BlockDrift(disk) \in Int
  BY <1>1, DriftType
<1>3. mishaps \cap Spoils = {} => Abs(InodeDrift(disk)) + Abs(BlockDrift(disk)) <= crashes
  BY DEF DriftBounded, Unless, Spoils
<1>4. Start.mishaps = mishaps /\ Start.disk = disk /\ Start.cuts = {}
  BY DEF Start, Begin
<1>5. Level(Start, x, y)
  BY <1>4 DEF Level
<1>6. x \in Int /\ y \in Int /\ Abs(x) + Abs(y) <= crashes
  <2>1. CASE mishaps \cap Spoils = {}
    BY <1>2, <1>3, <2>1
  <2>2. CASE mishaps \cap Spoils # {}
    BY <1>1, <2>2 DEF Abs
  <2>3. QED
    BY <2>1, <2>2
<1> HIDE DEF x, y
<1>7. Keeps(Start, r, x, y)
  <2>1. Abs(x) \in Int /\ Abs(y) \in Int
    BY <1>6 DEF Abs
  <2>2. Drift(x, y)
    BY <1>1, <1>6, <2>1 DEF Drift
  <2>3. QED
    BY <2>2
<1>8. Level(r, x, y) /\ \A c \in r.cuts : Near(c, x, y)
  BY <1>4, <1>5, <1>7 DEF Keeps
<1>9. CASE disk' = r.disk /\ mishaps' = r.mishaps /\ crashes' = crashes
  <2>1. SUFFICES ASSUME mishaps' \cap Spoils = {}
        PROVE  Abs(InodeDrift(disk')) + Abs(BlockDrift(disk')) <= crashes'
    BY DEF DriftBounded, Unless, Spoils, InodeDrift, BlockDrift
  <2>2. InodeDrift(disk') = x /\ BlockDrift(disk') = y
    BY <1>8, <1>9, <2>1 DEF Level
  <2>3. QED
    BY <1>6, <1>9, <2>2
<1>10. CASE IsCut(r, {})
  <2>1. PICK c \in r.cuts : disk' = c.disk /\ mishaps' = c.mishaps \cup {"cut"}
    BY <1>10 DEF IsCut
  <2>2. crashes' = crashes + 1
    BY <1>10 DEF IsCut
  <2>3. SUFFICES ASSUME mishaps' \cap Spoils = {}
        PROVE  Abs(InodeDrift(disk')) + Abs(BlockDrift(disk')) <= crashes'
    BY DEF DriftBounded, Unless, Spoils, InodeDrift, BlockDrift
  <2>4. Abs(InodeDrift(disk') - x) + Abs(BlockDrift(disk') - y) <= 1
    BY <1>8, <2>1, <2>3 DEF Near
  <2>5. InodeDrift(disk') \in Int /\ BlockDrift(disk') \in Int
    BY <2>1, RunDisk, DriftType DEF Cut
  <2>6. QED
    BY <1>1, <1>6, <2>2, <2>4, <2>5 DEF Abs
<1>11. QED
  BY <1>9, <1>10 DEF Does, Completes, GetsLost

\* The free counts that `check' reports and new_inode and new_block rely on
\* are off from the bitmaps by one for each kill at most, on a volume of any
\* size and with any number of kills, unless a bit was freed twice or a format
\* was killed: no command that completes makes them disagree.
THEOREM DriftIsBounded == Spec => []DriftBounded
<1> DEFINE Inv == TypeOK /\ DriftBounded
<1>1. Init => Inv
  <2>1. 0 \in 0..MaxCrashes
    BY SessionAssumption
  <2>2. Abs(0) + Abs(0) <= 0
    BY DEF Abs
  <2>3. QED
    BY <2>1, <2>2, FreshDiskType, FreshDiskFormatted, FormattedDrift, Volume
       DEF Init, TypeOK, DriftBounded
<1>2. Inv /\ TypeOK' /\ [Next]_vars => Inv'
  <2> SUFFICES ASSUME TypeOK, DriftBounded, [Next]_vars PROVE DriftBounded'
    OBVIOUS
  <2>1. ASSUME UNCHANGED <<disk, mishaps, crashes>> PROVE DriftBounded'
    BY <2>1 DEF DriftBounded, Unless, InodeDrift, BlockDrift
  <2>2. \A x, y : Drift(x, y) => x \in Int /\ y \in Int
    BY DEF Drift
  <2>3. ASSUME NEW name \in Args, NEW type \in {FT_REG_FILE, FT_DIR}, Does(MakeRun(name, type))
        PROVE  DriftBounded'
    BY <2>2, <2>3, ArgsType, MakeRunType, MakeRunKeeps, DoesDrift
  <2>4. ASSUME NEW name \in Args, mkdir(name) PROVE DriftBounded'
    BY <2>3, <2>4 DEF mkdir
  <2>5. ASSUME NEW name \in Args, create(name) PROVE DriftBounded'
    BY <2>3, <2>5 DEF create
  <2>6. ASSUME NEW name \in Args, delete(name) PROVE DriftBounded'
    <3>1. PICK i \in Target(name) : Does(RemoveRun(name, i))
      BY <2>6 DEF delete
    <3>2. QED
      BY <3>1, ArgsType, TargetType, RemoveRunType, RemoveRunKeeps, DoesDrift
  <2>7. ASSUME NEW name \in Names, rmdir(name) PROVE DriftBounded'
    <3>1. PICK i \in Target(name) : Does(RmdirRun(name, i))
      BY <2>7 DEF rmdir
    <3>2. QED
      BY <3>1, ArgsType, TargetType, RemoveRunType, RemoveRunKeeps, DoesDrift
  <2>8. ASSUME NEW name \in Args, NEW change \in Perms, attrib(name, change)
        PROVE  DriftBounded'
    <3>1. PICK i \in Target(name) :
            /\ change \in {2, 4, 6, 7}
            /\ Does(PutInode(Search(name), i, [entry(i) EXCEPT !.perm = change]))
      BY <2>8 DEF attrib
    <3>2. QED
      BY <2>2, <3>1, TargetType, AttribRunType, AttribRunKeeps, DoesDrift
  <2>9. ASSUME NEW name \in Args, NEW n \in WriteLens, write(name, n) PROVE DriftBounded'
    <3>1. PICK i \in Target(name) : Does(WriteRun(name, i, n))
      BY <2>9 DEF write
    <3>2. n \in Nat
      BY SizesAssumption, SessionAssumption
    <3>3. QED
      BY <2>2, <3>1, <3>2, TargetType, WriteRunType, WriteRunKeeps, DoesDrift
  <2>10. ASSUME NEW name \in Args, open(name) \/ close(name) PROVE DriftBounded'
    BY <2>1, <2>10 DEF open, close
  <2>11. ASSUME NEW name \in Names, cd(name) PROVE DriftBounded'
    BY <2>1, <2>11 DEF cd
  <2>12. CASE cdRoot \/ cdUp
    BY <2>1, <2>12 DEF cdRoot, cdUp
  <2>13. CASE format
    <3>1. CASE disk' = FormatRun.disk /\ mishaps' = {} /\ crashes' = 0
      <4>1. InodeDrift(disk') = 0 /\ BlockDrift(disk') = 0
        BY <3>1, FormattedDisk, FormattedDrift DEF TypeOK, FormatRun
      <4>2. Abs(0) + Abs(0) <= 0
        BY DEF Abs
      <4>3. QED
        BY <3>1, <4>1, <4>2 DEF DriftBounded, InodeDrift, BlockDrift
    <3>2. CASE IsCut(FormatRun, {"format_cut"})
      BY <3>2 DEF IsCut, DriftBounded, Unless
    <3>3. QED
      BY <2>13, <3>1, <3>2 DEF format
  <2>14. CASE restart \/ UNCHANGED vars
    BY <2>1, <2>14 DEF restart, vars
  <2>15. QED
    BY <2>4, <2>5, <2>6, <2>7, <2>8, <2>9, <2>10, <2>11, <2>12, <2>13, <2>14 DEF Next
<1>3. Spec => []TypeOK
  BY TypeCorrect
<1>4. QED
  BY <1>1, <1>2, <1>3, PTL DEF Spec
=============================================================================
