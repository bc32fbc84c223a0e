----------------------------- MODULE InodeTable -----------------------------
(***************************************************************************)
(* How ext2_fs.c stores the inodes: eight entries to a block of 512 bytes, *)
(* read and written through inode_Buffer, which is as long as a block.     *)
(* The struct is 80 bytes long, not 64, where a time_t has 8: the list of  *)
(* blocks of the seventh entry, and all of the eighth, lie behind          *)
(* inode_Buffer, in whatever variable the linker puts there (Buffer, where *)
(* variables are laid out in the order of their declaration).              *)
(*                                                                         *)
(* Everything else is left out: which command calls these routines, and    *)
(* what an entry says.                                                     *)
(***************************************************************************)
EXTENDS Integers

CONSTANTS
    INODE_COUNT,
    Values        \* what a field can hold

BLOCK_SIZE == 512
PER_BLOCK == 8
SIZEOF_INODE == 80

\* The first and the last byte of a field: i_mode to i_mtime, and i_block.
Fields == {"head", "i_block"}
LastByte == [head |-> 31, i_block |-> 55]

Inode == 1..INODE_COUNT
Slot == 0..(PER_BLOCK - 1)
Blk(k) == (k - 1) \div PER_BLOCK
At(k) == (k - 1) % PER_BLOCK

\* Field f of entry j lies in the block.
InBlock(j, f) == j * SIZEOF_INODE + LastByte[f] < BLOCK_SIZE

Entry == [Fields -> Values]

VARIABLES
    table,         \* the blocks of the inode table
    inode_Buffer,  \* what is read at the places of eight entries
    inode_buf,
    loaded,        \* history: the inode in inode_buf since load_inode_entry
    stored         \* history: what update_inode_entry last stored for an inode

vars == <<table, inode_Buffer, inode_buf, loaded, stored>>

\* No inode has been stored; everything holds the same value.
Init ==
    /\ \E v \in Values :
         /\ table = [b \in {Blk(k) : k \in Inode} |-> [j \in Slot |-> [f \in Fields |-> v]]]
         /\ inode_Buffer = [j \in Slot |-> [f \in Fields |-> v]]
         /\ inode_buf = [f \in Fields |-> v]
    /\ loaded = 0 /\ stored = [k \in {} |-> inode_buf]

\* disk_IO(.., inode_Buffer, READ_DISK): 512 bytes and no more.
Read(b) == [j \in Slot |-> [f \in Fields |->
              IF InBlock(j, f) THEN table[b][j][f] ELSE inode_Buffer[j][f]]]

load_inode_entry(k) ==
    /\ inode_Buffer' = Read(Blk(k))
    /\ inode_buf' = inode_Buffer'[At(k)]
    /\ loaded' = k
    /\ UNCHANGED <<table, stored>>

\* A command has made an entry, which is written.
update_inode_entry(k, entry) ==
    /\ inode_buf' = entry
    /\ inode_Buffer' = [Read(Blk(k)) EXCEPT ![At(k)] = entry]
    /\ table' = [table EXCEPT ![Blk(k)] = [j \in Slot |-> [f \in Fields |->
                   IF InBlock(j, f) THEN inode_Buffer'[j][f] ELSE table[Blk(k)][j][f]]]]
    /\ stored' = [i \in DOMAIN stored \cup {k} |-> IF i = k THEN entry ELSE stored[i]]
    /\ loaded' = 0

\* load_block_entry, print_file, a new directory...: Buffer is filled with
\* something else.
FillBuffer(v) ==
    /\ inode_Buffer' = [j \in Slot |-> [f \in Fields |->
                          IF InBlock(j, f) THEN inode_Buffer[j][f] ELSE v]]
    /\ loaded' = 0
    /\ UNCHANGED <<table, inode_buf, stored>>

Next ==
    \/ \E k \in Inode : load_inode_entry(k) \/ \E e \in Entry : update_inode_entry(k, e)
    \/ \E v \in Values : FillBuffer(v)

Spec == Init /\ [][Next]_vars

-----------------------------------------------------------------------------
(* Properties.                                                              *)

ReadsBack(k) == loaded = k => inode_buf = stored[k]

\* What the comments say (L161, L164, L170): eight entries lie in a block, the
\* k-th inode is written back to disk, and loading gives what was written.
AllReadBack == \A k \in DOMAIN stored : ReadsBack(k)

\* What the code does: six of the eight.
SixReadBack == \A k \in DOMAIN stored : At(k) < 6 => ReadsBack(k)
=============================================================================
