---------------------------- MODULE FileContents ----------------------------
(***************************************************************************)
(* The bytes of one open file: write and read of ext2_fs.c, the blocks of  *)
(* a file (direct, then those of the first index block, then those of the  *)
(* second), SIGQUIT, which ends a write, and a kill.                       *)
(*                                                                         *)
(* Nobody else uses the volume, it does not fill up, and the file keeps    *)
(* the permission it was created with, to read and to write.  The          *)
(* characters typed are numbered, so that each is told from every other.   *)
(* write is cut into the steps between which a signal makes a difference,  *)
(* and at the disk writes between which a kill does.                       *)
(*                                                                         *)
(* The file is in the root or in a directory below it.  Block 0 is the     *)
(* root directory and, from the seventh block of the file on, its first    *)
(* index: no search in the root finds anything of this file then.          *)
(***************************************************************************)
EXTENDS Integers, Sequences, SequencesExt

CONSTANTS
    BLOCK_SIZE,
    NDIRECT,     \* direct pointers of an inode: 6
    PER_INDEX,   \* block numbers in an index block: BLOCK_SIZE / 2
    USHORT,      \* new_size is an unsigned short
    SIZE_MOD,    \* i_size is an unsigned int
    MaxChars,    \* bound: characters typed
    MaxKills     \* bound: kills

ASSUME FileAssumption ==
    /\ BLOCK_SIZE \in Nat /\ BLOCK_SIZE > 2
    /\ NDIRECT \in Nat /\ NDIRECT > 0 /\ PER_INDEX \in Nat /\ PER_INDEX > 1
    /\ {USHORT, SIZE_MOD, MaxChars, MaxKills} \subseteq Nat
    /\ USHORT > BLOCK_SIZE /\ SIZE_MOD % BLOCK_SIZE = 0

\* Bound: new_size and i_size do not wrap for the characters typed.
ASSUME CharsAssumption == MaxChars < USHORT /\ MaxChars < SIZE_MOD

VARIABLES
    index,      \* what the data blocks hold as lists of block numbers; block 0 is
                \* the root directory, or what was written over it
    data,       \* what they hold as bytes of the file
    free,       \* the first free data block
    inode,      \* the entry of the file
    pc,         \* where write is, "shell" outside
    Buffer, block_num, pos, new_size, ch,
    flag,
    handling,   \* whether stopWrite is the handler of SIGQUIT
    in_root,    \* whether the file is in the root directory
    opened,     \* whether this process stands in its directory and has it open
    text,       \* history: the characters stored, but for those a later write
                \* was bound to overwrite
    before,     \* history: text when this write began
    misplaced,  \* history: a write did not begin at the last character
    asked,      \* history: SIGQUIT arrived in the loop of this write
    cut,        \* history: a write was killed
    chars, kills

disk == <<index, data, free, inode>>
loop == <<Buffer, block_num, pos, new_size, ch>>
place == <<in_root, opened>>
history == <<text, before, misplaced, asked, cut, chars, kills>>
vars == <<index, data, free, inode, pc, Buffer, block_num, pos, new_size, ch, flag,
          handling, in_root, opened, text, before, misplaced, asked, cut, chars, kills>>

STALE == -1              \* what a block held before
Entry == 0..(PER_INDEX - 1)
DIRECTORY == [x \in Entry |-> STALE]
Offset == 0..(BLOCK_SIZE - 1)
Block == 1..(NDIRECT + PER_INDEX + 5)

Init ==
    /\ index = [b \in {0} \cup Block |-> DIRECTORY] /\ free = 1
    /\ data = [b \in Block |-> [o \in Offset |-> STALE]]
    /\ inode = [i_blocks |-> 0, i_size |-> 0, i_block |-> [x \in 0..(NDIRECT + 1) |-> 0]]
    /\ pc = "shell" /\ flag = 1 /\ handling = FALSE
    /\ Buffer = [o \in Offset |-> 0]
    /\ block_num = 0 /\ pos = 0 /\ new_size = 0 /\ ch = 0
    /\ in_root \in BOOLEAN /\ opened = TRUE
    /\ text = <<>> /\ before = <<>>
    /\ misplaced = FALSE /\ asked = FALSE /\ cut = FALSE /\ chars = 0 /\ kills = 0

-----------------------------------------------------------------------------
(* The blocks of the file.  i_block[NDIRECT] is never assigned: the first   *)
(* index block is block 0.                                                  *)

\* A list is filled from the front.
Used(b) == {x \in Entry : index[b][x] # 0}
Room(b) == Cardinality(Used(b))
List(b) == [k \in 1..Room(b) |-> index[b][k - 1]]
Single(b) == [x \in Entry |-> IF x = 0 THEN b ELSE 0]

\* The second index block, which lists lists.
Top == inode.i_block[NDIRECT + 1]

\* The blocks in the order in which access_file visits them.
FileBlocks ==
    LET n == inode.i_blocks
    IN  [k \in 1..(IF n < NDIRECT THEN n ELSE NDIRECT) |-> inode.i_block[k - 1]]
          \o (IF n > NDIRECT THEN List(0) ELSE <<>>)
          \o (IF n > NDIRECT + 1
              THEN FlattenSeq([k \in 1..Room(Top) |-> List(index[Top][k - 1])]) ELSE <<>>)

\* The second index block no longer lists lists: a block of characters is read
\* as one.  Bound: nothing is written from there on.
Torn == inode.i_blocks > NDIRECT + 1 /\ Room(Top) > 1

\* The block added is n + 1 blocks after the first free one: n index blocks
\* come before it.
Takes(n) == block_num' = free + n /\ free' = free + n + 1

DirectBlock ==
    /\ inode.i_blocks < NDIRECT
    /\ inode' = [inode EXCEPT !.i_block[inode.i_blocks] = free, !.i_blocks = @ + 1]
    /\ Takes(0)
    /\ UNCHANGED index

\* Mutants: the index block comes one block early; it is not cleared.
DirectBlockShort ==
    /\ inode.i_blocks < NDIRECT - 1
    /\ inode' = [inode EXCEPT !.i_block[inode.i_blocks] = free, !.i_blocks = @ + 1]
    /\ Takes(0)
    /\ UNCHANGED index

FirstIndexEarly ==
    /\ inode.i_blocks = NDIRECT - 1
    /\ index' = [index EXCEPT ![0] = Single(free)]
    /\ inode' = [inode EXCEPT !.i_blocks = @ + 1]
    /\ Takes(0)

FirstIndexUncleared ==
    /\ inode.i_blocks = NDIRECT
    /\ index' = [index EXCEPT ![0][0] = free]
    /\ inode' = [inode EXCEPT !.i_blocks = @ + 1]
    /\ Takes(0)

\* Block 0 is written before the inode: KillIndexed is the kill between the two.
FirstIndex ==
    /\ inode.i_blocks = NDIRECT
    /\ index' = [index EXCEPT ![0] = Single(free)]
    /\ inode' = [inode EXCEPT !.i_blocks = @ + 1]
    /\ Takes(0)

InFirstIndex ==
    /\ inode.i_blocks = NDIRECT + 1 /\ Used(0) # Entry
    /\ index' = [index EXCEPT ![0][Room(0)] = free]
    /\ Takes(0)
    /\ UNCHANGED inode

SecondIndex ==
    /\ inode.i_blocks = NDIRECT + 1 /\ Used(0) = Entry
    /\ inode' = [inode EXCEPT !.i_block[NDIRECT + 1] = free, !.i_blocks = @ + 1]
    /\ index' = [index EXCEPT ![free] = Single(free + 1), ![free + 1] = Single(free + 2)]
    /\ Takes(2)

\* The list to be filled is looked for at the first unused entry of the second
\* index, which names block 0: its list is full, and with the new entry it is
\* written over the second index.
InSecondIndex ==
    /\ inode.i_blocks = NDIRECT + 2
    /\ index' = [index EXCEPT ![Top] = [index[index[Top][Room(Top)]] EXCEPT ![Room(Top)] = free],
                              ![free] = Single(free + 1)]
    /\ Takes(1)
    /\ UNCHANGED inode

add_file_blockEarly ==
    DirectBlockShort \/ FirstIndexEarly \/ InFirstIndex \/ SecondIndex \/ InSecondIndex

add_file_block ==
    DirectBlock \/ FirstIndex \/ InFirstIndex \/ SecondIndex \/ InSecondIndex

\* The file goes on in a new block, whose old content is loaded.
GoesOn(d) ==
    /\ add_file_block
    /\ pos' = 0 /\ Buffer' = d[block_num']

-----------------------------------------------------------------------------
(* write.                                                                   *)

\* The block of the index in which a write looks for the end of the file, and
\* the entry there: both from the size.
Past == inode.i_size \div BLOCK_SIZE - NDIRECT

LastBlock ==
    CASE inode.i_blocks <= NDIRECT    -> inode.i_block[inode.i_blocks - 1]
      [] inode.i_blocks = NDIRECT + 1 -> index[0][Past]
      [] OTHER -> index[index[Top][(Past - PER_INDEX) \div PER_INDEX]]
                       [(Past - PER_INDEX) % PER_INDEX]

\* The size leads into the index that i_blocks says is the last one.
Located ==
    inode.i_blocks > NDIRECT =>
        Past >= (IF inode.i_blocks = NDIRECT + 1 THEN 0 ELSE PER_INDEX)

\* Where the last character is, so that the write begins in its place.
AtLast(b, o) == ~cut /\ b = Last(FileBlocks) /\ data[b][o] = Last(text)

\* write returned or was killed: its variables are gone, and Buffer is loaded
\* before it is used again.
Left ==
    /\ Buffer' = [o \in Offset |-> 0]
    /\ block_num' = 0 /\ pos' = 0 /\ new_size' = 0 /\ ch' = 0

\* search_file finds the file and is_open holds: the search goes through the
\* directory of the file, and reads block 0 if that is the root.
Found == opened /\ (in_root => index[0] = DIRECTORY)

AllButLast(s) == IF s = <<>> THEN s ELSE Front(s)

\* A write begins at the last character stored, which i_size does not count:
\* that one is overwritten, the others are kept.
kept == AllButLast(before)

\* Bound: no write after a misplaced one.
Begins ==
    /\ pc = "shell" /\ pc' = "located" /\ ~misplaced /\ ~Torn /\ Found
    /\ before' = text /\ text' = AllButLast(text)
    /\ UNCHANGED <<data, new_size, ch, flag, handling, place, asked, cut, chars, kills>>

WriteFirst ==
    /\ Begins /\ inode.i_blocks = 0
    /\ GoesOn(data)
    /\ UNCHANGED misplaced

WriteInside ==
    /\ Begins /\ inode.i_blocks > 0 /\ inode.i_size % BLOCK_SIZE # 0
    /\ Located
    /\ block_num' = LastBlock /\ pos' = inode.i_size % BLOCK_SIZE
    /\ Buffer' = data[LastBlock]
    /\ misplaced' = (text = <<>> \/ ~AtLast(block_num', pos'))
    /\ UNCHANGED <<index, inode, free>>

\* The size is a multiple of the block size: the last block is taken for full.
WriteNextBlock ==
    /\ Begins /\ inode.i_blocks > 0 /\ inode.i_size % BLOCK_SIZE = 0
    /\ GoesOn(data)
    /\ misplaced' = TRUE

\* The size is still that of the blocks before the index, as it is after a write
\* that ended with the last of them, or after a kill: the index is read before
\* its start, and what is loaded for the last block is undefined.  Bound: such a
\* write is not followed.
WriteAstray ==
    /\ pc = "shell" /\ ~misplaced /\ ~Torn /\ Found
    /\ inode.i_blocks > 0 /\ inode.i_size % BLOCK_SIZE # 0
    /\ ~Located
    /\ misplaced' = TRUE
    /\ UNCHANGED <<disk, loop, pc, flag, handling, place, text, before, asked, cut, chars, kills>>

\* signal(SIGQUIT, stopWrite).
SetHandler ==
    /\ pc = "located" /\ pc' = "handling"
    /\ handling' = TRUE
    /\ UNCHANGED <<disk, loop, flag, place, text, before, misplaced, asked, cut, chars, kills>>

\* flag = 1: a signal between the two is forgotten.
SetFlag ==
    /\ pc = "handling" /\ pc' = "while"
    /\ flag' = 1 /\ new_size' = 0
    /\ UNCHANGED <<disk, Buffer, block_num, pos, ch, handling, place, text, before, misplaced,
                   asked, cut, chars, kills>>

\* while (flag).
While ==
    /\ pc = "while" /\ pc' = IF flag = 1 THEN "getchar" ELSE "end"
    /\ UNCHANGED <<disk, loop, flag, handling, place, history>>

\* getchar is restarted after the handler, so that it takes another character
\* to leave it.
GetChar ==
    /\ pc = "getchar" /\ pc' = "got"
    /\ flag = 0 \/ (chars < MaxChars /\ ~Torn)
    /\ ch' = chars + 1
    /\ chars' = IF flag = 0 THEN chars ELSE chars + 1
    /\ UNCHANGED <<disk, Buffer, block_num, pos, new_size, flag, handling, place, text, before,
                   misplaced, asked, cut, kills>>

\* if (!flag) break.
Break ==
    /\ pc = "got" /\ flag = 0 /\ pc' = "end"
    /\ UNCHANGED <<disk, loop, flag, handling, place, history>>

\* The last block with one more byte put into it.
Stored(v) == [data EXCEPT ![block_num] = [Buffer EXCEPT ![pos] = v]]

\* Buffer[pos] = ch, and a full block is written and another one taken.
StoreChar ==
    /\ pc = "got" /\ flag = 1 /\ pc' = "while"
    /\ text' = Append(text, ch)
    /\ new_size' = (new_size + 1) % USHORT
    /\ IF pos + 1 < BLOCK_SIZE
       THEN /\ Buffer' = [Buffer EXCEPT ![pos] = ch] /\ pos' = pos + 1
            /\ UNCHANGED <<disk, block_num>>
       ELSE data' = Stored(ch) /\ GoesOn(data')
    /\ UNCHANGED <<ch, flag, handling, place, before, misplaced, asked, cut, chars, kills>>

\* Mutants: no terminator; the size counts every character.
FinishOpen ==
    /\ pc = "end" /\ pc' = "shell"
    /\ data' = [data EXCEPT ![block_num] = Buffer]
    /\ inode' = [inode EXCEPT !.i_size = (@ + new_size - 1) % SIZE_MOD]
    /\ asked' = FALSE
    /\ Left
    /\ UNCHANGED <<index, free, flag, handling, place, text, before, misplaced, cut, chars, kills>>

FinishCounted ==
    /\ pc = "end" /\ pc' = "shell"
    /\ data' = Stored(0)
    /\ inode' = [inode EXCEPT !.i_size = (@ + new_size) % SIZE_MOD]
    /\ asked' = FALSE
    /\ Left
    /\ UNCHANGED <<index, free, flag, handling, place, text, before, misplaced, cut, chars, kills>>

\* The last block is ended with a zero and written; the size grows by one less
\* than what was stored.
Finish ==
    /\ pc = "end" /\ pc' = "shell"
    /\ data' = Stored(0)
    /\ inode' = [inode EXCEPT !.i_size = (@ + new_size - 1) % SIZE_MOD]
    /\ asked' = FALSE
    /\ Left
    /\ UNCHANGED <<index, free, flag, handling, place, text, before, misplaced, cut, chars, kills>>

-----------------------------------------------------------------------------
(* Signals.                                                                 *)

\* Mutant: the handler sets a variable of its own.
stopWriteElse ==
    /\ handling /\ asked' = (pc \in {"while", "getchar", "got"})
    /\ UNCHANGED <<disk, loop, pc, flag, handling, place, text, before, misplaced, cut, chars, kills>>

stopWrite ==
    /\ handling /\ flag' = 0
    /\ asked' = (asked \/ pc \in {"while", "getchar", "got"})
    /\ UNCHANGED <<disk, loop, pc, handling, place, text, before, misplaced, cut, chars, kills>>

\* SIGINT, or SIGQUIT before the first write: the process ends and is started
\* again; what was in the buffer is gone, the file is not open and the root is
\* the current directory.
Killed ==
    /\ kills < MaxKills /\ kills' = kills + 1
    /\ pc' = "shell" /\ flag' = 1 /\ handling' = FALSE /\ asked' = FALSE
    /\ opened' = FALSE
    /\ text' = IF pc = "shell" THEN text ELSE kept
    /\ Left
    /\ UNCHANGED <<in_root, before, misplaced, chars>>

\* Between two steps.  A kill after new_block and before the block is linked
\* leaves no more than this: the block gets no number, it is never used again.
Kill ==
    /\ Killed
    /\ cut' = (cut \/ pc # "shell")
    /\ UNCHANGED disk

\* StoreChar has a block to write, Finish always has.
Fills == pc = "got" /\ flag = 1 /\ ~(pos + 1 < BLOCK_SIZE)

\* Between the write of the last block and that of the inode: the block is not
\* followed by another, or not counted in the size.
KillWritten ==
    /\ Fills \/ pc = "end"
    /\ Killed
    /\ cut' = TRUE
    /\ data' = Stored(IF pc = "end" THEN 0 ELSE ch)
    /\ UNCHANGED <<index, free, inode>>

\* Between the two writes of FirstIndex, in StoreChar or WriteNextBlock: the
\* root is lost and the inode does not say so.  Kills further on, behind a lost
\* root, leave other halves of the indexes, of a file that no shell reaches.
KillIndexed ==
    /\ inode.i_blocks = NDIRECT
    /\ \/ Fills /\ data' = Stored(ch)
       \/ /\ pc = "shell" /\ ~misplaced /\ Found /\ inode.i_size % BLOCK_SIZE = 0
          /\ UNCHANGED data
    /\ Killed
    /\ cut' = TRUE
    /\ index' = [index EXCEPT ![0] = Single(free)] /\ free' = free + 1
    /\ UNCHANGED inode

\* cd and open, from the root on: the path begins with a search in block 0.
Reopen ==
    /\ pc = "shell" /\ ~opened /\ index[0] = DIRECTORY
    /\ opened' = TRUE
    /\ UNCHANGED <<disk, loop, pc, flag, handling, in_root, history>>

-----------------------------------------------------------------------------

write == WriteFirst \/ WriteInside \/ WriteNextBlock \/ WriteAstray

\* What write does by itself.
goes_on == SetHandler \/ SetFlag \/ While \/ Break \/ StoreChar \/ Finish

kill == Kill \/ KillWritten \/ KillIndexed

Next == write \/ goes_on \/ GetChar \/ stopWrite \/ kill \/ Reopen

\* Once called, write runs on.  Nobody has to type: getchar may wait for ever.
Spec == Init /\ [][Next]_vars /\ WF_vars(goes_on)

-----------------------------------------------------------------------------
(* Properties.                                                              *)

\* What read prints: the blocks of the file up to the first zero.
Bytes == [k \in 1..(Len(FileBlocks) * BLOCK_SIZE) |->
            data[FileBlocks[(k - 1) \div BLOCK_SIZE + 1]][(k - 1) % BLOCK_SIZE]]
Zeros == {k \in DOMAIN Bytes : Bytes[k] = 0}
Shown == IF Zeros = {} THEN Bytes ELSE SubSeq(Bytes, 1, Min(Zeros) - 1)

\* What read (L1019-L1041, L519-L526) shows is `text': the characters of all
\* writes in order, but that each write has overwritten the last one of the
\* write before, over direct blocks and both indexes, as long as every write began
\* at the last character and the file is found.  After a kill in the middle of
\* a write, what was there before that write is shown first, but for the
\* character it began at.
ReadShowsText ==
    pc = "shell" /\ Found /\ ~misplaced /\ ~Torn =>
        IF cut THEN IsPrefix(text, Shown) ELSE Shown = text

\* What the comments promise: a write appends (L1054) from the end of the file
\* on (L1077), and of the size only what the interruption took is taken off
\* (L1152).  When it has ended, read still shows all that was there before.
WriteAppends ==
    pc = "shell" /\ Found /\ ~cut => IsPrefix(before, Shown)

\* Where a write looks for the end (L1077-L1120) and what the one before left
\* (L1148-L1155) fit together, except at the end of a block: after it, what is
\* appended is not read back.
StartsAtLast ==
    [][write /\ inode.i_blocks > 0 /\ ~misplaced /\ ~cut =>
         (~misplaced' <=> inode.i_size % BLOCK_SIZE \in 1..(BLOCK_SIZE - 2))]_vars

\* The root directory is lost with the first block that does not fit in the
\* inode (L586-L592), and not before.  With as many blocks as fit it is lost only
\* to a kill between the write of block 0 (L591) and that of the inode (L649),
\* after which no process has the file open.
RootIntact ==
    IF inode.i_blocks = NDIRECT
    THEN index[0] = DIRECTORY \/ (cut /\ ~opened)
    ELSE index[0] = DIRECTORY <=> inode.i_blocks < NDIRECT

\* A block added, unless the process is killed over it, is the next one that
\* access_file visits (L383-L432) and none before it is lost, up to the first
\* block of the second index; the block after that one tears the second index
\* (L617-L644).
BlocksAppend ==
    [][free' # free /\ opened' =>
         IF Len(FileBlocks) <= NDIRECT + PER_INDEX
         THEN ~Torn' /\ FileBlocks' = Append(FileBlocks, block_num')
         ELSE Torn']_vars

\* A Ctrl+\ in the loop ends the write, wherever in the loop it arrives, unless
\* getchar is waiting: the handler does not end that call (L1133), so that the
\* write goes on to wait, against L1054 and L1125, until one more character is
\* typed, and with that one it ends.
QuitEnds == asked /\ pc # "getchar" ~> ~asked
=============================================================================
