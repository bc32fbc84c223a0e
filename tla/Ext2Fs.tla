------------------------------- MODULE Ext2Fs -------------------------------
(***************************************************************************)
(* The file system of ext2_fs.c: the commands of its shell over the disk   *)
(* of Ext2Disk, quitting and starting again, and a kill (SIGINT, SIGQUIT   *)
(* before the first `write', a lost terminal) between any two disk writes. *)
(*                                                                         *)
(* Not actions, because they change nothing this module keeps: ls, read    *)
(* and check (access times and output) and password.                       *)
(***************************************************************************)
EXTENDS Ext2Disk

CONSTANTS
    FOPEN_TABLE_MAX,  \* entries of fopen_table
    DotNames,         \* bound: which of "." and ".." are tried as arguments
    WriteLens,        \* bound: how many characters one `write' is given
    Perms,            \* the permission codes the user tries
    MaxCrashes,       \* bound: kills explored between two formats
    FormatKilled,     \* bound: whether kills in the middle of format are explored
    Tolerated         \* bound: the mishaps after which commands are explored

ASSUME SessionAssumption ==
    /\ FOPEN_TABLE_MAX \in Nat
    /\ WriteLens \subseteq 0..BLOCK_SIZE
    /\ Perms \subseteq 0..255
    /\ MaxCrashes \in Nat /\ FormatKilled \in BOOLEAN
    /\ Tolerated \subseteq Mishaps

ASSUME DotsAssumption == DotNames \subseteq {".", ".."}

\* A free count that drifts by one with every kill does not wrap.
ASSUME CountersAssumption ==
    /\ INODE_COUNT + MaxCrashes < USHORT
    /\ DATA_BLOCK_COUNT + MaxCrashes < USHORT

VARIABLES
    disk,         \* the file ./Ext2
    current_dir,  \* inode of the current directory
    fopen_table,  \* the inodes in the open file table, in any order
    mishaps,      \* what went wrong since the volume was formatted
    crashes       \* kills since the volume was formatted

vars == <<disk, current_dir, fopen_table, mishaps, crashes>>

\* Names a command takes: "." and ".." are entries like any other, except that
\* rmdir refuses them and cd treats them apart.
Args == Names \cup DotNames

entry(i) == disk.inode_table[i]
found(name) == search_file(disk, current_dir, name)

\* The inode a command on an existing name works on, if there is one.
Target(name) == {found(name)} \ {0}

\* Commands are explored from here.
Explored == mishaps \subseteq Tolerated

-----------------------------------------------------------------------------
(* How a command ends.                                                      *)

\* The process starts again: load_group_desc, then a successful login.
Restarted == current_dir' = ROOT /\ fopen_table' = {}

\* All its writes reach the disk.  A run that is "deep" needs index blocks and
\* is not explored here.
Completes(r) ==
    /\ r.status = "ok"
    /\ disk' = r.disk /\ mishaps' = r.mishaps
    /\ UNCHANGED crashes

\* It reads outside a block or a bitmap and does not come back.
GetsLost(r) ==
    /\ r.status = "lost"
    /\ disk' = r.disk /\ mishaps' = r.mishaps
    /\ Restarted
    /\ UNCHANGED crashes

\* It is killed between two writes.
IsCut(r, why) ==
    /\ crashes < MaxCrashes /\ r.status # "deep"
    /\ \E c \in r.cuts : disk' = c.disk /\ mishaps' = c.mishaps \cup {"cut"} \cup why
    /\ Restarted
    /\ crashes' = crashes + 1

\* A command that does not touch the memory of the process.
Does(r) ==
    \/ Completes(r) /\ UNCHANGED <<current_dir, fopen_table>>
    \/ GetsLost(r)
    \/ IsCut(r, {})

\* search_file, with which every command on a name begins, gets lost.
Search(name) ==
    IF SearchLost(disk, current_dir, name)
    THEN Stop(Begin(disk, mishaps), "lost") ELSE Begin(disk, mishaps)

SearchEnds(name) == ~SearchLost(disk, current_dir, name)

-----------------------------------------------------------------------------
(* mkdir and create.                                                        *)

\* Mutants: ".." leads to the root, the size of the directory is forgotten.
MakeRunUnderRoot(name, type) ==
    LET r1 == new_dir_entry(Search(name), name, type, ROOT)
        r2 == Link(r1, current_dir, r1.ret, name)
    IN  Resize(r2, current_dir, EntryBytes(name))

MakeRunUnsized(name, type) ==
    LET r1 == new_dir_entry(Search(name), name, type, current_dir)
    IN  Link(r1, current_dir, r1.ret, name)

MakeRun(name, type) ==
    LET r1 == new_dir_entry(Search(name), name, type, current_dir)
        r2 == Link(r1, current_dir, r1.ret, name)
    IN  Resize(r2, current_dir, EntryBytes(name))

mkdir(name) == Explored /\ found(name) = 0 /\ Does(MakeRun(name, FT_DIR))

create(name) == Explored /\ found(name) = 0 /\ Does(MakeRun(name, FT_REG_FILE))

-----------------------------------------------------------------------------
(* rmdir and delete.                                                        *)

\* Mutants: the inode is freed before its entry is gone, the blocks are kept.
RemoveRunFreeFirst(name, i) ==
    LET r1 == free_file_blocks(Search(name), i)
        r2 == free_inode(r1, i)
        r3 == Unlink(r2, current_dir, name)
    IN  Resize(r3, current_dir, -EntryBytes(name))

RemoveRunKeepBlocks(name, i) ==
    LET r1 == Unlink(Search(name), current_dir, name)
    IN  Resize(free_inode(r1, i), current_dir, -EntryBytes(name))

\* The entry goes first, then the blocks, then the inode.
RemoveRun(name, i) ==
    LET r1 == Unlink(Search(name), current_dir, name)
        r2 == free_file_blocks(r1, i)
        r3 == free_inode(r2, i)
    IN  Resize(r3, current_dir, -EntryBytes(name))

\* Mutant: used_dirs_count is forgotten.
RmdirRunUncounted(name, i) ==
    LET r == RemoveRun(name, i)
    IN  IF i \in fopen_table THEN Flag(r, "open_dir_removed") ELSE r

RmdirRun(name, i) ==
    LET r == RemoveRun(name, i)
        s == Put(r, [r.disk EXCEPT !.used_dirs_count = Decr(@)])
    IN  IF i \in fopen_table THEN Flag(s, "open_dir_removed") ELSE s

\* A directory is taken for empty when its size is that of "." and "..".
rmdir(name) ==
    Explored /\ \E i \in Target(name) :
        /\ entry(i).type = FT_DIR
        /\ entry(i).i_size = 17
        /\ Does(RmdirRun(name, i))

\* Mutant: is_open is not asked.
deleteOpen(name) ==
    Explored /\ \E i \in Target(name) :
        entry(i).type = FT_REG_FILE /\ Does(RemoveRun(name, i))

delete(name) ==
    Explored /\ \E i \in Target(name) :
        /\ entry(i).type = FT_REG_FILE
        /\ i \notin fopen_table
        /\ Does(RemoveRun(name, i))

-----------------------------------------------------------------------------
(* cd.                                                                      *)

cdRoot ==
    /\ Explored
    /\ current_dir' = ROOT
    /\ UNCHANGED <<disk, fopen_table, mishaps, crashes>>

\* ".." is read at byte 8 of the first block, without a search.  Where no ".."
\* was ever written, or the bytes of a file were, this module does not follow:
\* TreeShape says that it is there while the directories are in order.
cdUp ==
    LET b == disk.data[entry(current_dir).i_block[0]]
    IN  /\ Explored
        /\ current_dir # ROOT
        /\ b # FileBytes /\ At(b, 8).inode # 0
        /\ current_dir' = At(b, 8).inode
        /\ UNCHANGED <<disk, fopen_table, mishaps, crashes>>

\* Mutants: what the search found is not checked, the type is not checked.
cdUnfound(name) ==
    /\ Explored /\ SearchEnds(name)
    /\ current_dir' = found(name)
    /\ UNCHANGED <<disk, fopen_table, mishaps, crashes>>

cdUntyped(name) ==
    Explored /\ \E i \in Target(name) :
        /\ SearchEnds(name)
        /\ current_dir' = i
        /\ UNCHANGED <<disk, fopen_table, mishaps, crashes>>

cd(name) ==
    Explored /\ \E i \in Target(name) :
        /\ SearchEnds(name)
        /\ entry(i).type = FT_DIR
        /\ current_dir' = i
        /\ UNCHANGED <<disk, fopen_table, mishaps, crashes>>

-----------------------------------------------------------------------------
(* chmod, open, close.                                                      *)

attrib(name, change) ==
    Explored /\ \E i \in Target(name) :
        /\ change \in {2, 4, 6, 7}
        /\ Does(PutInode(Search(name), i, [entry(i) EXCEPT !.perm = change]))

open(name) ==
    Explored /\ \E i \in Target(name) :
        /\ SearchEnds(name)
        /\ i \notin fopen_table
        /\ entry(i).perm # 0
        /\ Cardinality(fopen_table) < FOPEN_TABLE_MAX
        /\ fopen_table' = fopen_table \cup {i}
        /\ UNCHANGED <<disk, current_dir, mishaps, crashes>>

close(name) ==
    Explored /\ \E i \in Target(name) :
        /\ SearchEnds(name)
        /\ i \in fopen_table
        /\ fopen_table' = fopen_table \ {i}
        /\ UNCHANGED <<disk, current_dir, mishaps, crashes>>

-----------------------------------------------------------------------------
(* write: n characters and then Ctrl+\.                                     *)

\* Make the block to write in: [run, byte in the last block of the inode].
WriteStart(r, i) ==
    LET e    == r.disk.inode_table[i]
        pos  == e.i_size % BLOCK_SIZE
        r1   == new_block(r)
    IN  IF e.i_blocks = 0
        THEN [run |-> PutInode(r1, i, [e EXCEPT !.i_block[0] = r1.ret, !.i_blocks = 1]), pos |-> 0]
        ELSE [run |-> IF pos = 0 THEN add_file_block(r, i) ELSE r, pos |-> pos]

LastBlock(r, i) == r.disk.inode_table[i].i_block[r.disk.inode_table[i].i_blocks - 1]

\* A block that fills up is written and the next one is added at once.  The
\* character that Ctrl+\ interrupted is not counted, and 1 is taken off.
WriteRun(name, i, n) ==
    LET r0 == IF entry(i).type = FT_DIR THEN Flag(Search(name), "dir_written") ELSE Search(name)
        w  == WriteStart(r0, i)
        fill(r) == PutBlock(r, LastBlock(r, i), FileBytes)
        r1 == IF w.pos + n < BLOCK_SIZE THEN w.run ELSE add_file_block(fill(w.run), i)
    IN  Resize(fill(r1), i, n - 1)

write(name, n) ==
    Explored /\ \E i \in Target(name) :
        /\ entry(i).perm \in {2, 3, 6, 7}
        /\ i \in fopen_table
        /\ Does(WriteRun(name, i, n))

-----------------------------------------------------------------------------
(* format, quit.                                                            *)

FormatRun == initialize_disk(Begin(disk, {}))

format ==
    \/ /\ disk' = FormatRun.disk
       /\ Restarted
       /\ mishaps' = {} /\ crashes' = 0
    \/ FormatKilled /\ IsCut(FormatRun, {"format_cut"})

restart == Restarted /\ UNCHANGED <<disk, mishaps, crashes>>

-----------------------------------------------------------------------------

Init ==
    /\ disk = FreshDisk
    /\ current_dir = ROOT
    /\ fopen_table = {}
    /\ mishaps = {}
    /\ crashes = 0

Next ==
    \/ \E name \in Args : \/ mkdir(name) \/ create(name)
                          \/ delete(name)
                          \/ open(name) \/ close(name)
                          \/ \E change \in Perms : attrib(name, change)
                          \/ \E n \in WriteLens : write(name, n)
    \/ \E name \in Names : rmdir(name) \/ cd(name)
    \/ cdRoot \/ cdUp
    \/ format \/ restart

Spec == Init /\ [][Next]_vars

-----------------------------------------------------------------------------
(* What the properties speak of.                                            *)

IsDir(d, i) == d.inode_table[i].type = FT_DIR

\* The entries of directory i, with the block each is in.
EntriesOf(d, i) ==
    IF IsDir(d, i) THEN UNION {{b} \X Listing(d.data[b]) : b \in BlocksOf(d, i)} ELSE {}

Children(d, i) == {e[2].inode : e \in EntriesOf(d, i)}

\* The names of directory i and the inodes they lead to.
NamesOf(d, i) == {<<e[2].name, e[2].inode>> : e \in EntriesOf(d, i)}

\* The bytes of the entries of directory i, each counted within its entry; the
\* names of a directory are told apart (TreeShape).
Bytes(d, i) == UNION {{t} \X (1..EntryBytes(t[1])) : t \in NamesOf(d, i)}

\* The inodes a path from the root leads to: no set of inodes that has the root
\* and is closed under `child of' leaves them out.
Live(d) ==
    LET kids == [i \in Inode |-> Children(d, i)]
        Closed(S) == ROOT \in S /\ \A i \in S : kids[i] \subseteq S
    IN  {i \in Inode : \A S \in SUBSET Inode : i \notin S => ~Closed(S)}

\* A directory holds entries it should not hold, or names an inode it should not.
Damaging ==
    {"first_entry", "no_inode", "no_block", "dir_written", "exposed_block", "format_cut"}

\* The disk is in order, but not all of it is accounted for.
Leaking == Damaging \cup {"cut", "gap_overwrite"}

Unless(S) == mishaps \cap S = {}

-----------------------------------------------------------------------------
(* Type invariant.                                                          *)

\* Every variable keeps its type: bitmaps, counters, inode entries and slots
\* stay in the ranges their C types and the volume allow.
TypeOK ==
    /\ disk \in Disk
    /\ current_dir \in Inode
    /\ fopen_table \subseteq Inode
    /\ mishaps \subseteq Mishaps
    /\ crashes \in 0..MaxCrashes

-----------------------------------------------------------------------------
(* Invariants that also hold after a kill at any disk write: create and     *)
(* mkdir (L742, L814) link the entry after the inode and its block are      *)
(* allocated, rmdir and delete (L768, L840) free them after unlinking.      *)

\* Whatever a path leads to is allocated: no directory names a freed inode,
\* and no file or directory uses a freed block.
ReachableIsAllocated ==
    Unless(Damaging) =>
        \A i \in Live(disk) : /\ i \in disk.inode_bitmap
                              /\ BlocksOf(disk, i) \subseteq disk.block_bitmap

\* No data block belongs to two inodes, or twice to one.
BlocksOwnedOnce ==
    LET owners == {o \in Live(disk) \X (0..(NDIRECT - 1)) : o[2] < entry(o[1]).i_blocks}
        block(o) == entry(o[1]).i_block[o[2]]
    IN  Unless(Damaging) =>
            \A o, p \in owners : block(o) = block(p) => o = p

\* The directories are a tree: no two entries of a directory have the same
\* name, every inode but the root is named by one entry, and bytes 0 and 8 of a
\* directory lead to itself and to the directory that names it (cd .. reads
\* byte 8, L891).
TreeShape ==
    LET live == Live(disk)
        dirs == {i \in live : IsDir(disk, i)}
        naming(i) == UNION {{j} \X {e \in EntriesOf(disk, j) : e[2].inode = i} : j \in dirs}
    IN  Unless(Damaging) =>
            /\ \A i \in dirs : \A e, f \in EntriesOf(disk, i) : e[2].name = f[2].name => e = f
            /\ \A i \in live \ {ROOT} : Cardinality(naming(i)) = 1
            /\ \A j \in dirs : \A i \in dirs \cap Children(disk, j) :
                    LET top == BlockAt(disk, i, 0)
                    IN  At(top, 0).inode = i /\ At(top, 8).inode = j

\* The shell never stands in a directory that no path leads to.
CurrentDirLive ==
    Unless(Damaging) => current_dir \in Live(disk) /\ IsDir(disk, current_dir)

\* delete refuses an open file (L856), so no open inode is freed, except that
\* rmdir does not ask whether the directory is open.
OpenIsAllocated ==
    Unless(Damaging \cup {"open_dir_removed"}) => fopen_table \subseteq disk.inode_bitmap

\* bitmap_neg_k (L227) inverts a bit, so freeing twice would allocate: it never
\* happens while the directories are in order, kills or not.
NoDoubleFree ==
    Unless(Damaging) => "double_free" \notin mishaps

\* A volume no kill has touched never runs a search or a scan of a bitmap past
\* the end of what it scans.
NeverLost ==
    Unless(Damaging \cup {"cut"}) => "lost" \notin mishaps

InodeDrift(d) == d.free_inodes_count + Cardinality(d.inode_bitmap) - INODE_COUNT
BlockDrift(d) == d.free_blocks_count + Cardinality(d.block_bitmap) - DATA_BLOCK_COUNT
Abs(n) == IF n < 0 THEN -n ELSE n

\* The free counts of the group descriptor are written after the bitmaps
\* (L260-266, L293-296, L305-309): each kill makes them disagree by one more at
\* most, and without a kill they agree, however damaged the directories are.
DriftBounded ==
    Unless({"double_free", "format_cut"}) =>
        Abs(InodeDrift(disk)) + Abs(BlockDrift(disk)) <= crashes

-----------------------------------------------------------------------------
(* Invariants of a volume of which nothing went wrong (Leaking): no kill, no *)
(* gap too small for a struct assignment, and no mishap that damages the     *)
(* directories.                                                              *)

\* Nothing is allocated that no path leads to: a removal gives back all that the
\* file or directory took.  Excused until the next format: new_inode or new_block
\* found nothing free, and mkdir, create or write went on with 0 and kept what it
\* had (L315-L337; no_inode, no_block); the entry to be removed was the first of
\* its block, and stays (L501; first_entry); an insertion wiped out its neighbour
\* (gap_overwrite); a directory was written like a file (dir_written); a kill
\* (cut, exposed_block, format_cut).
NothingLeaks ==
    Unless(Leaking) =>
        /\ disk.inode_bitmap = Live(disk)
        /\ disk.block_bitmap = UNION {BlocksOf(disk, i) : i \in Live(disk)}

\* `check' reports the number of directories there are.
DirsCounted ==
    Unless(Leaking) =>
        disk.used_dirs_count = Cardinality({i \in Live(disk) : IsDir(disk, i)})

\* rmdir takes a directory for empty when its size is 17 (L790): the size of a
\* directory is that of its entries, "." and ".." included.
SizesMatch ==
    Unless(Leaking) =>
        \A i \in Live(disk) : IsDir(disk, i) =>
            entry(i).i_size = 17 + Cardinality(Bytes(disk, i))

-----------------------------------------------------------------------------
(* Action properties.                                                       *)

\* A command changes one name of the current directory at most and no name of
\* any other directory, whether it completes or is killed half way.
ChangesOneName ==
    [][ \/ mishaps' \cap (Damaging \cup {"gap_overwrite"}) # {}
        \/ disk' \in {disk, FreshDisk}
        \/ \A i \in Inode :
             LET old == NamesOf(disk, i)
                 new == NamesOf(disk', i)
             IN  \/ new = old
                 \/ i = current_dir /\ Cardinality((old \ new) \cup (new \ old)) <= 1
                 \/ i \notin Live(disk) \cap Live(disk') ]_vars
=============================================================================
