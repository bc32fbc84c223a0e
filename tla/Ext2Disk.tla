------------------------------ MODULE Ext2Disk ------------------------------
(***************************************************************************)
(* The simulated disk of ext2_fs.c and the routines that change it.        *)
(*                                                                         *)
(* A disk is a record: the two bitmaps (the set of used inodes and of used *)
(* data blocks), the three counters of the group descriptor, the inode     *)
(* table and the data blocks.  The program reaches the disk only through   *)
(* disk_IO, which writes one block and flushes it, so a command is a       *)
(* sequence of block writes and a kill leaves any prefix of it.  A command *)
(* is therefore computed as a run: a record that carries the disk after    *)
(* the writes made so far, the disks a kill can leave behind, and what     *)
(* went wrong on the way.                                                  *)
(***************************************************************************)
EXTENDS DirBlock

CONSTANTS
    DATA_BLOCK_COUNT,   \* data blocks of the volume
    NDIRECT,            \* direct pointers of an inode
    INODES_PER_BLOCK,   \* inodes in one block of the inode table
    SIZE_MOD,           \* i_size is an unsigned int: it wraps here
    ExecNames           \* names that new_dir_entry makes executable

ASSUME VolumeAssumption ==
    /\ DATA_BLOCK_COUNT \in 1..(USHORT - 1)
    /\ NDIRECT \in Nat \ {0}
    /\ INODES_PER_BLOCK \in Nat \ {0}
    /\ SIZE_MOD \in Nat /\ SIZE_MOD > 17
    /\ ExecNames \subseteq Names

\* A directory names each inode once at most and an entry is shorter than a
\* block, so that the size of a directory does not wrap.
ASSUME SizeAssumption == 17 + INODE_COUNT * BLOCK_SIZE < SIZE_MOD

Inode == 1..INODE_COUNT
Block == 0..(DATA_BLOCK_COUNT - 1)
ROOT == 1

FT_UNKNOWN == "unknown"
FT_REG_FILE == "file"
FT_DIR == "dir"

InodeEntry ==
    [type: {FT_UNKNOWN, FT_REG_FILE, FT_DIR}, perm: 0..7, i_blocks: 0..NDIRECT,
     i_size: 0..(SIZE_MOD - 1), i_block: [0..(NDIRECT - 1) -> Block]]

Content == {FileBytes} \cup Image

Disk ==
    [block_bitmap: SUBSET Block, inode_bitmap: SUBSET Inode,
     free_blocks_count: 0..(USHORT - 1), free_inodes_count: 0..(USHORT - 1),
     used_dirs_count: 0..(USHORT - 1),
     inode_table: [Inode -> InodeEntry], data: [Block -> Content]]

Incr(n) == (n + 1) % USHORT
Decr(n) == (n + USHORT - 1) % USHORT

ZeroInode ==
    [type |-> FT_UNKNOWN, perm |-> 0, i_blocks |-> 0, i_size |-> 0,
     i_block |-> [x \in 0..(NDIRECT - 1) |-> 0]]

-----------------------------------------------------------------------------
(* Runs.                                                                    *)

\* What can go wrong, remembered until the volume is formatted again.
Mishaps ==
    {"gap_overwrite",    \* an insertion wiped out an entry of the block
     "first_entry",      \* a deletion hit the first entry of a block
     "no_inode",         \* new_inode failed and the command went on with inode 0
     "no_block",         \* new_block failed and the command went on with block 0
     "double_free",      \* a free set a bit of a bitmap instead of clearing it
     "dir_written",      \* a directory was written as if it were a file
     "open_dir_removed", \* rmdir removed a directory that was open
     "exposed_block",    \* a kill between linking a block and writing it
     "format_cut",       \* a kill in the middle of format
     "cut",              \* any kill between two writes of a command
     "lost"}             \* the program read past what a block or bitmap holds

\* "lost": undefined behaviour, the process is gone.  "deep": the command
\* needs an index block, which this module does not describe.
Run ==
    [disk: Disk, mishaps: SUBSET Mishaps,
     cuts: SUBSET [disk: Disk, mishaps: SUBSET Mishaps],
     ret: 0..(USHORT - 1), status: {"ok", "lost", "deep"}]

Begin(disk, mishaps) ==
    [disk |-> disk, mishaps |-> mishaps, cuts |-> {}, ret |-> 0, status |-> "ok"]

\* disk_IO(.., WRITE_DISK): what was there before is what a kill here leaves.
Put(r, disk) ==
    IF r.status = "ok"
    THEN [r EXCEPT !.disk = disk,
                   !.cuts = @ \cup {[disk |-> r.disk, mishaps |-> r.mishaps]}]
    ELSE r

Flag(r, m) == IF r.status = "ok" THEN [r EXCEPT !.mishaps = @ \cup {m}] ELSE r
Return(r, n) == [r EXCEPT !.ret = n]
Stop(r, how) ==
    IF r.status = "ok"
    THEN [r EXCEPT !.status = how,
                   !.mishaps = IF how = "lost" THEN @ \cup {"lost"} ELSE @]
    ELSE r

\* update_inode_entry.  Inode 0 addresses a block past the end of the image
\* that nothing else reads.  Bound: INODE_COUNT <= 6.  From the seventh inode of
\* a block on, the entry is not kept whole (InodeTable).
PutInode(r, i, entry) ==
    IF i \in Inode THEN Put(r, [r.disk EXCEPT !.inode_table[i] = entry]) ELSE r

PutBlock(r, b, content) == Put(r, [r.disk EXCEPT !.data[b] = content])

-----------------------------------------------------------------------------
(* Allocation: each of the four routines makes two or three writes.         *)

\* Mutant: the counter is forgotten.
new_inodeUncounted(r) ==
    IF r.disk.free_inodes_count = 0 THEN Return(Flag(r, "no_inode"), 0)
    ELSE IF r.disk.inode_bitmap = Inode THEN Return(Stop(r, "lost"), 0)
    ELSE LET i  == Min(Inode \ r.disk.inode_bitmap)
             r1 == Put(r, [r.disk EXCEPT !.inode_bitmap = @ \cup {i}])
         IN  Return(PutInode(r1, i, [ZeroInode EXCEPT !.perm = 6]), i)

new_inode(r) ==
    IF r.disk.free_inodes_count = 0 THEN Return(Flag(r, "no_inode"), 0)
    ELSE IF r.disk.inode_bitmap = Inode THEN Return(Stop(r, "lost"), 0)
    ELSE LET i  == Min(Inode \ r.disk.inode_bitmap)
             r1 == Put(r, [r.disk EXCEPT !.inode_bitmap = @ \cup {i}])
             r2 == PutInode(r1, i, [ZeroInode EXCEPT !.perm = 6])
             r3 == Put(r2, [r2.disk EXCEPT !.free_inodes_count = Decr(@)])
         IN  Return(r3, i)

\* Mutant: the bitmap is forgotten.
new_blockUnmarked(r) ==
    IF r.disk.free_blocks_count = 0 THEN Return(Flag(r, "no_block"), 0)
    ELSE Return(Put(r, [r.disk EXCEPT !.free_blocks_count = Decr(@)]),
                Min(Block \ r.disk.block_bitmap))

new_block(r) ==
    IF r.disk.free_blocks_count = 0 THEN Return(Flag(r, "no_block"), 0)
    ELSE IF r.disk.block_bitmap = Block THEN Return(Stop(r, "lost"), 0)
    ELSE LET b  == Min(Block \ r.disk.block_bitmap)
             r1 == Put(r, [r.disk EXCEPT !.block_bitmap = @ \cup {b}])
             r2 == Put(r1, [r1.disk EXCEPT !.free_blocks_count = Decr(@)])
         IN  Return(r2, b)

\* bitmap_neg_k inverts: freeing what is free marks it used.
Inverted(bitmap, k) == IF k \in bitmap THEN bitmap \ {k} ELSE bitmap \cup {k}

\* Mutant: the counter is forgotten.
free_inodeUncounted(r, i) ==
    Put(r, [r.disk EXCEPT !.inode_bitmap = Inverted(@, i)])

free_inode(r, i) ==
    LET r1 == Put(r, [r.disk EXCEPT !.inode_bitmap = Inverted(@, i)])
        r2 == IF i \in r.disk.inode_bitmap THEN r1 ELSE Flag(r1, "double_free")
    IN  Put(r2, [r2.disk EXCEPT !.free_inodes_count = Incr(@)])

\* The disk when k blocks of inode i have their bit inverted and n of them are
\* counted.
Freed(disk, i, k, n) ==
    LET times(b) == Cardinality({x \in 0..(k - 1) : disk.inode_table[i].i_block[x] = b})
    IN  [disk EXCEPT
            !.block_bitmap = {b \in Block : (b \in @) # (times(b) % 2 = 1)},
            !.free_blocks_count = (@ + n) % USHORT]

\* One of the first k blocks of inode i is free, or is there twice.
FreesTwice(disk, i, k) ==
    LET at == disk.inode_table[i].i_block
    IN  \E x \in 0..(k - 1) : \/ at[x] \notin disk.block_bitmap
                              \/ \E y \in 0..(x - 1) : at[y] = at[x]

\* access_file(i, free_file_block): free_block on every block of inode i, the
\* bitmap first and then the counter.
free_file_blocks(r, i) ==
    LET n == r.disk.inode_table[i].i_blocks
        seen(k) == IF FreesTwice(r.disk, i, k) THEN r.mishaps \cup {"double_free"}
                                               ELSE r.mishaps
    IN  IF r.status # "ok" THEN r
        ELSE [r EXCEPT
                !.disk = Freed(@, i, n, n),
                !.mishaps = seen(n),
                !.cuts = @ \cup
                   {[disk |-> Freed(r.disk, i, k, k), mishaps |-> seen(k)] : k \in 0..(n - 1)}
                   \cup
                   {[disk |-> Freed(r.disk, i, k + 1, k), mishaps |-> seen(k + 1)] : k \in 0..(n - 1)}]

-----------------------------------------------------------------------------
(* Directories: access_file with the callbacks of DirBlock.                 *)

BlocksOf(disk, i) ==
    {disk.inode_table[i].i_block[x] : x \in 0..(disk.inode_table[i].i_blocks - 1)}

\* The content of the x-th block of inode i.
BlockAt(disk, i, x) == disk.data[disk.inode_table[i].i_block[x]]

\* The blocks of directory i in which a search for name succeeds.
Hits(disk, i, name) ==
    {x \in 0..(disk.inode_table[i].i_blocks - 1) : Find(BlockAt(disk, i, x), name) # 0}

\* search_file: the inode of name in directory i, 0 if there is none.
search_file(disk, i, name) ==
    IF Hits(disk, i, name) = {} THEN 0
    ELSE Find(BlockAt(disk, i, Min(Hits(disk, i, name))), name)

\* The search reads a block it cannot make sense of.
SearchLost(disk, i, name) ==
    \E x \in 0..(disk.inode_table[i].i_blocks - 1) :
        /\ \A h \in Hits(disk, i, name) : x <= h
        /\ ~Readable(BlockAt(disk, i, x), name)

\* Mutant: the entry is removed only from the first block of the directory.
UnlinkFirstBlock(r, i, name) ==
    LET block(x) == r.disk.inode_table[i].i_block[x]
        found == block(Min(Hits(r.disk, i, name)))
        r1 == IF found # block(0) THEN r
              ELSE PutBlock(r, found, Delete(r.disk.data[found], name))
    IN  IF Min(Matches(r.disk.data[found], name)) = 0
        THEN Flag(r1, "first_entry") ELSE r1

\* access_file(i, delete_in_block), after a search that found name.  An entry
\* of inode 0 is changed like any other, but does not end the traversal.
Unlink(r, i, name) ==
    LET last == Min(Hits(r.disk, i, name))
        hit(b) == /\ \E x \in 0..last : r.disk.inode_table[i].i_block[x] = b
                  /\ r.disk.data[b] # FileBytes
                  /\ Matches(r.disk.data[b], name) # {}
        found == r.disk.inode_table[i].i_block[last]
        r1 == Put(r, [r.disk EXCEPT !.data =
                [b \in Block |-> IF hit(b) THEN Delete(@[b], name) ELSE @[b]]])
    IN  IF Min(Matches(r.disk.data[found], name)) = 0
        THEN Flag(r1, "first_entry") ELSE r1

\* Mutant: the new block takes the place of the last one.
add_file_blockOverLast(r, i) ==
    LET n  == r.disk.inode_table[i].i_blocks
        r1 == new_block(r)
    IN  IF n = NDIRECT THEN Stop(r, "deep")
        ELSE Return(PutInode(r1, i, [r1.disk.inode_table[i] EXCEPT
                                        !.i_block[n - 1] = r1.ret, !.i_blocks = n + 1]),
                    r1.ret)

\* The direct branch of add_file_block.
add_file_block(r, i) ==
    LET n  == r.disk.inode_table[i].i_blocks
        r1 == new_block(r)
    IN  IF n = NDIRECT THEN Stop(r, "deep")
        ELSE Return(PutInode(r1, i, [r1.disk.inode_table[i] EXCEPT
                                        !.i_block[n] = r1.ret, !.i_blocks = n + 1]),
                    r1.ret)

\* access_file(i, search_free_dir_in_block), and when no block has room a new
\* block that begins with the entry.
Link(r, i, inode, name) ==
    LET n    == r.disk.inode_table[i].i_blocks
        room == {x \in 0..(n - 1) : CanInsert(BlockAt(r.disk, i, x), name)}
        lost == \E x \in 0..(n - 1) : /\ \A y \in room : x < y
                                      /\ ~Terminates(BlockAt(r.disk, i, x))
        b    == r.disk.inode_table[i].i_block[Min(room)]
        r1   == PutBlock(r, b, Insert(r.disk.data[b], inode, name))
        r2   == add_file_block(r, i)
        r3   == PutBlock(Flag(r2, "exposed_block"), r2.ret, FirstEntry(inode, name))
    IN  IF r.status # "ok" THEN r
        ELSE IF lost THEN Stop(r, "lost")
        ELSE IF room = {} THEN [r3 EXCEPT !.mishaps = r2.mishaps]
        ELSE IF Overwritten(r.disk.data[b], inode, name) = {} THEN r1
        ELSE Flag(r1, "gap_overwrite")

\* load_inode_entry, add to i_size, update_inode_entry.
Resize(r, i, delta) ==
    PutInode(r, i, [r.disk.inode_table[i] EXCEPT !.i_size = (@ + delta) % SIZE_MOD])

\* new_dir_entry: an inode of the given type; for a directory a block as well.
new_dir_entry(r, name, type, parent) ==
    LET r1 == new_inode(r)
        i  == r1.ret
        entry(d) == d.inode_table[i]
        r2 == IF i = 0 THEN r1
              ELSE PutInode(r1, i, [entry(r1.disk) EXCEPT
                                      !.type = type,
                                      !.perm = IF name \in ExecNames THEN 7 ELSE @])
        r3 == Put(r2, [r2.disk EXCEPT !.used_dirs_count = Incr(@)])
        r4 == new_block(r3)
        r5 == PutBlock(r4, r4.ret, DirImage(i, parent))
        r6 == IF i = 0 THEN r5
              ELSE PutInode(r5, i, [entry(r5.disk) EXCEPT
                                      !.i_blocks = 1, !.i_size = 17,
                                      !.i_block[0] = r4.ret, !.perm = 6])
    IN  Return(IF type = FT_DIR THEN r6 ELSE r2, i)

-----------------------------------------------------------------------------
(* initialize_disk: every block is zeroed, in order, then the descriptor is *)
(* written and the root directory created.                                  *)

ITABLE_BLOCKS == (INODE_COUNT + INODES_PER_BLOCK - 1) \div INODES_PER_BLOCK

\* The disk when the first k blocks are zero.
Zeroed(disk, k) ==
    [block_bitmap      |-> IF k > 1 THEN {} ELSE disk.block_bitmap,
     inode_bitmap      |-> IF k > 2 THEN {} ELSE disk.inode_bitmap,
     free_blocks_count |-> IF k > 0 THEN 0 ELSE disk.free_blocks_count,
     free_inodes_count |-> IF k > 0 THEN 0 ELSE disk.free_inodes_count,
     used_dirs_count   |-> IF k > 0 THEN 0 ELSE disk.used_dirs_count,
     inode_table |-> [i \in Inode |-> IF 3 + (i - 1) \div INODES_PER_BLOCK < k
                                      THEN ZeroInode ELSE disk.inode_table[i]],
     data |-> [b \in Block |-> IF 3 + ITABLE_BLOCKS + b < k THEN {} ELSE disk.data[b]]]

initialize_disk(r) ==
    LET last == 3 + ITABLE_BLOCKS + DATA_BLOCK_COUNT
        zero == [r EXCEPT
                   !.disk = Zeroed(@, last),
                   !.cuts = @ \cup {[disk |-> Zeroed(r.disk, k), mishaps |-> r.mishaps] :
                                    k \in 0..(last - 1)}]
        desc == Put(zero, [zero.disk EXCEPT !.free_blocks_count = DATA_BLOCK_COUNT,
                                            !.free_inodes_count = INODE_COUNT,
                                            !.used_dirs_count = 0])
    IN  new_dir_entry(desc, "root", FT_DIR, ROOT)

\* The volume main creates when there is no file ./Ext2.
FreshDisk ==
    LET blank == [block_bitmap |-> {}, inode_bitmap |-> {}, free_blocks_count |-> 0,
                  free_inodes_count |-> 0, used_dirs_count |-> 0,
                  inode_table |-> [i \in Inode |-> ZeroInode],
                  data |-> [b \in Block |-> {}]]
    IN  initialize_disk(Begin(blank, {})).disk
=============================================================================
