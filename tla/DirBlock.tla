------------------------------ MODULE DirBlock ------------------------------
(***************************************************************************)
(* One data block of a directory, as the three callbacks of access_file    *)
(* treat it: search_in_block, search_free_dir_in_block and delete_in_block *)
(* of ext2_fs.c.  The block is a set of slots.  A slot stands for the      *)
(* header and the name written at byte `pos`; deleting an entry only       *)
(* lengthens its predecessor, so the slots that no walk reaches any more   *)
(* stay in the set, as their bytes stay in the block.  A position that no  *)
(* slot occupies reads as zeros.  file_type of an entry is only displayed  *)
(* and is left out.                                                        *)
(***************************************************************************)
EXTENDS Integers, FiniteSets, FiniteSetsExt

CONSTANTS
    BLOCK_SIZE,       \* bytes of a block
    DIR_ENTRY_BYTES,  \* sizeof(dir_entry): what one struct assignment copies
    INODE_COUNT,      \* inodes of the volume
    Names,            \* the names a user types, other than "." and ".."
    NameLen,          \* strlen of a name
    FileBytes         \* a block that holds bytes of a file, not entries

\* unsigned short arithmetic wraps here.
USHORT == 65536

\* The name in bytes that no entry was written to.
NoName == ""

AllNames == Names \cup {NoName, ".", ".."}

ASSUME SizesAssumption ==
    /\ BLOCK_SIZE \in Nat \ {0}
    /\ DIR_ENTRY_BYTES \in Nat \ {0}
    /\ INODE_COUNT \in 1..(USHORT - 1)

ASSUME NamesAssumption == NoName \notin Names /\ "." \notin Names /\ ".." \notin Names

ASSUME LengthsAssumption ==
    /\ NameLen \in [AllNames -> Nat]
    /\ NameLen[NoName] = 0 /\ NameLen["."] = 1 /\ NameLen[".."] = 2

\* A command line holds 255 characters and its word takes 6 of them at least
\* (L1181-L1189), so that an entry with the longest name is shorter than
\* sizeof(dir_entry) and than a block; two blocks fit an unsigned short.
ASSUME LayoutAssumption ==
    /\ BLOCK_SIZE > 17 /\ 2 * BLOCK_SIZE <= USHORT
    /\ \A name \in AllNames : 9 + NameLen[name] <= DIR_ENTRY_BYTES /\ 7 + NameLen[name] < BLOCK_SIZE

Slot ==
    [pos: 0..(USHORT - 1), inode: 0..INODE_COUNT, rec_len: 0..(USHORT - 1),
     name: AllNames]

Image == SUBSET Slot

ASSUME ContentAssumption == FileBytes \notin Image

-----------------------------------------------------------------------------
(* Walking a block.                                                         *)

\* The bytes an entry needs: 7 and the name.
EntryBytes(name) == 7 + NameLen[name]

\* What the program reads at byte p.
At(img, p) ==
    IF \E s \in img : s.pos = p
    THEN CHOOSE s \in img : s.pos = p
    ELSE [pos |-> p, inode |-> 0, rec_len |-> 0, name |-> NoName]

NextPos(img, p) == (p + At(img, p).rec_len) % USHORT

\* The positions the do-while loop stops at: the first entry whatever it holds,
\* then every entry its predecessor leads to, while the inode is not 0.
Walk(img) ==
    LET live == {s.pos : s \in {x \in img : x.inode # 0}}
        on[p \in live] == \/ p > 0 /\ NextPos(img, 0) = p
                         \/ \E q \in live : 0 < q /\ q < p /\ NextPos(img, q) = p /\ on[q]
    IN  {0} \cup {p \in live : on[p]}

\* Where the walk ends: the position after the last entry.
End(img) == NextPos(img, Max(Walk(img)))

\* Byte p is in the middle of some entry, or its inode field overlaps one.
InsideEntry(img, p) ==
    \E s \in img : p # s.pos /\ p + 1 \in s.pos..(s.pos + 6 + NameLen[s.name])

\* The walk ends at an entry whose inode reads 0.  Otherwise it goes round in
\* circles, reads the bytes of a name as an entry, or leaves the 2-block buffer.
Terminates(img) ==
    /\ img # FileBytes
    /\ LET end == End(img)
       IN  At(img, end).inode = 0 /\ ~InsideEntry(img, end) /\ end + 1 < 2 * BLOCK_SIZE

-----------------------------------------------------------------------------
(* search_in_block                                                          *)

Matches(img, name) == {p \in Walk(img) : At(img, p).name = name}

Find(img, name) ==
    LET here == Matches(img, name)
    IN  IF img = FileBytes \/ here = {} THEN 0 ELSE At(img, Min(here)).inode

\* The search of this block comes to an end.
Readable(img, name) ==
    img # FileBytes /\ (Matches(img, name) # {} \/ Terminates(img))

-----------------------------------------------------------------------------
(* search_free_dir_in_block                                                 *)

\* Bytes of the entry at p past its own name, an unsigned short.
Slack(img, p) ==
    (At(img, p).rec_len + USHORT - EntryBytes(At(img, p).name)) % USHORT

Gaps(img, name) == {p \in Walk(img) : Slack(img, p) >= EntryBytes(name)}

CanInsert(img, name) ==
    /\ img # FileBytes
    /\ \/ Gaps(img, name) # {}
       \/ Terminates(img) /\ End(img) + EntryBytes(name) < BLOCK_SIZE

\* The struct assignment that stores an entry writes sizeof(dir_entry) bytes,
\* zeros after the name: every slot that starts in that window is gone.
Store(img, slot) ==
    {s \in img : s.pos \notin slot.pos..(slot.pos + DIR_ENTRY_BYTES - 1)} \cup {slot}

\* The new entry takes the first gap that is large enough, else the end.
Insert(img, inode, name) ==
    LET gaps == Gaps(img, name)
        host == At(img, Min(gaps))
        used == EntryBytes(host.name)
        kept == {s \in img : s.pos # host.pos} \cup {[host EXCEPT !.rec_len = used % USHORT]}
    IN  IF gaps # {}
        THEN Store(kept, [pos |-> (host.pos + used) % USHORT, inode |-> inode,
                          rec_len |-> Slack(img, host.pos), name |-> name])
        ELSE Store(img, [pos |-> End(img), inode |-> inode,
                         rec_len |-> EntryBytes(name) % USHORT, name |-> name])

\* Entries the walk visited before the insertion and does not visit after it,
\* at the same place with the same inode and name.
Overwritten(img, inode, name) ==
    LET new == Insert(img, inode, name)
    IN  {p \in Walk(img) : ~ /\ p \in Walk(new)
                             /\ At(new, p).inode = At(img, p).inode
                             /\ At(new, p).name = At(img, p).name}

-----------------------------------------------------------------------------
(* delete_in_block                                                          *)

\* Mutant: pre_pos is never moved.
BeforeUnmoved(img, p) == 0

\* The entry before the one at p.  For the first entry of the block it is the
\* entry itself, since pre_pos still is 0.
Before(img, p) == IF p = 0 THEN 0 ELSE Max({q \in Walk(img) : q < p})

\* Mutant: the entry is marked free and stays in the chain.
DeleteInPlace(img, name) ==
    LET gone == At(img, Min(Matches(img, name)))
    IN  (img \ {gone}) \cup {[gone EXCEPT !.inode = 0]}

Delete(img, name) ==
    LET gone == At(img, Min(Matches(img, name)))
        pre  == At(img, Before(img, gone.pos))
    IN  {s \in img : s.pos # pre.pos}
          \cup {[pre EXCEPT !.rec_len = (@ + gone.rec_len) % USHORT]}

-----------------------------------------------------------------------------
(* The blocks new_dir_entry, mkdir and create write from scratch.           *)

DirImage(self, parent) ==
    {[pos |-> 0, inode |-> self, rec_len |-> 8, name |-> "."],
     [pos |-> 8, inode |-> parent, rec_len |-> 9, name |-> ".."]}

FirstEntry(inode, name) ==
    {[pos |-> 0, inode |-> inode, rec_len |-> EntryBytes(name) % USHORT, name |-> name]}

\* The entries of a directory block that name something else than the
\* directory itself and its parent.
Listing(img) ==
    IF img = FileBytes THEN {}
    ELSE {At(img, p) : p \in {q \in Walk(img) : /\ At(img, q).inode # 0
                                                /\ At(img, q).name \in Names}}
=============================================================================
