---------------------------- MODULE DirBlockOps ----------------------------
(***************************************************************************)
(* One directory block in use: entries come and go through the callbacks   *)
(* of DirBlock, in any order.  The module asks when a block behaves like   *)
(* the set of names DirNames describes.                                    *)
(***************************************************************************)
EXTENDS DirBlock

CONSTANTS
    Inodes,     \* the inodes entries are made for
    SpareGaps,  \* leave out insertions that overwrite an entry after the gap
    SpareFirst  \* leave out deletions of the first entry of the block

ASSUME OpsAssumption ==
    Inodes \subseteq 1..INODE_COUNT /\ SpareGaps \in BOOLEAN /\ SpareFirst \in BOOLEAN

VARIABLE slots

\* The first block of a directory, or a block add_file_block gave it later.
OpsInit ==
    \/ slots = DirImage(1, 1)
    \/ \E i \in Inodes, n \in Names : slots = FirstEntry(i, n)

\* create and mkdir look the name up first.
insert(name, i) ==
    /\ Readable(slots, name) /\ Find(slots, name) = 0
    /\ CanInsert(slots, name)
    /\ SpareGaps => Overwritten(slots, i, name) = {}
    /\ slots' = Insert(slots, i, name)

\* So do delete and rmdir.
remove(name) ==
    /\ Readable(slots, name) /\ Find(slots, name) # 0
    /\ SpareFirst => Min(Matches(slots, name)) # 0
    /\ slots' = Delete(slots, name)

OpsNext == \E name \in Names : remove(name) \/ \E i \in Inodes : insert(name, i)

OpsSpec == OpsInit /\ [][OpsNext]_slots

-----------------------------------------------------------------------------

Pairs(image) == {<<s.name, s.inode>> : s \in Listing(image)}

Directory == INSTANCE DirNames WITH Name <- Names, Ino <- Inodes, names <- Pairs(slots)

\* Used with care (no gap filled whose following entries lie within
\* sizeof(dir_entry), no first entry deleted), search_free_dir_in_block (L436)
\* and delete_in_block (L492) implement a set of names.
ImplementsDirNames == Directory!Spec

\* The entries tile the block: each one holds its own name, none reaches into
\* the next, the last one ends inside the block and what follows reads as
\* inode 0, so that every walk (L442, L475, L498) ends there.
EntriesTile ==
    /\ \A p \in Walk(slots) :
          LET s == At(slots, p)
          IN  /\ s.rec_len >= EntryBytes(s.name)
              /\ p + s.rec_len <= BLOCK_SIZE
    /\ Terminates(slots)

=============================================================================
