-------------------------- MODULE PageReplacement --------------------------
(***************************************************************************)
(* The simulator of 2-4-1.c: main runs FIFO, LRU and Clock, one after the  *)
(* other, over the same access sequence and with the same number of        *)
(* frames.  One access is one step, except that each turn of the loop in   *)
(* clock_replace is a step of its own.                                     *)
(***************************************************************************)
EXTENDS Integers, Sequences, FiniteSets

CONSTANTS
    Pages,      \* the page numbers, below MAX_PAGES
    MAX_FRAMES,
    Sequences   \* bound: the access sequences explored

ASSUME PagesAssumption == Pages \subseteq Nat
ASSUME FramesAssumption == MAX_FRAMES \in Nat /\ MAX_FRAMES >= 3
ASSUME SequencesAssumption == Sequences \subseteq Seq(Pages)

VARIABLES
    access_sequence,
    frame_size,
    algorithm,     \* the one that runs, "end" when main returns
    page_table,
    frames,        \* the page_num of each frame
    current_time,  \* also the number of accesses begun
    frame_count,
    page_fault,
    clock_ptr,
    new_page,      \* the page clock_replace looks a frame for, NONE outside
    entered        \* history: when each page was loaded last

run == <<access_sequence, frame_size, algorithm>>
vars == <<access_sequence, frame_size, algorithm, page_table, frames,
          current_time, frame_count, page_fault, clock_ptr, new_page, entered>>

NONE == -1
Frames == 0..(frame_size - 1)
Algorithms == {"FIFO", "LRU", "Clock"}
Successor == [FIFO |-> "LRU", LRU |-> "Clock", Clock |-> "end"]

NotLoaded == [frame_num |-> NONE, valid |-> FALSE, access_time |-> 0, use_bit |-> FALSE]

\* The ring of next_frame.
next_frame(f) == (f + 1) % frame_size

-----------------------------------------------------------------------------
(* init and the bounds of a run.                                            *)

\* A number of frames outside 1..MAX_FRAMES is replaced by 3.
Init ==
    /\ access_sequence \in Sequences
    /\ frame_size \in 1..MAX_FRAMES
    /\ algorithm = "FIFO"
    /\ page_table = [p \in Pages |-> NotLoaded]
    /\ frames = [f \in Frames |-> NONE]
    /\ current_time = 0 /\ frame_count = 0 /\ page_fault = 0
    /\ clock_ptr = 0 /\ new_page = NONE
    /\ entered = [p \in Pages |-> 0]

Running == algorithm \in Algorithms /\ new_page = NONE
Over == current_time = Len(access_sequence)

\* Mutant: init forgets the frames.
initFramesKept ==
    /\ page_table' = [p \in Pages |-> NotLoaded]
    /\ UNCHANGED frames
    /\ current_time' = 0 /\ frame_count' = 0 /\ page_fault' = 0
    /\ entered' = [p \in Pages |-> 0]

init ==
    /\ page_table' = [p \in Pages |-> NotLoaded]
    /\ frames' = [f \in Frames |-> NONE]
    /\ current_time' = 0 /\ frame_count' = 0 /\ page_fault' = 0
    /\ entered' = [p \in Pages |-> 0]

\* The statistics of one algorithm are printed and the next one starts.
NextAlgorithm ==
    /\ Running /\ Over
    /\ algorithm' = Successor[algorithm]
    /\ init
    /\ clock_ptr' = 0
    /\ UNCHANGED <<access_sequence, frame_size, new_page>>

-----------------------------------------------------------------------------
(* Access to a page.                                                        *)

\* The loop of an algorithm reaches its next access.
Accessing(p) ==
    /\ Running /\ ~Over
    /\ p = access_sequence[current_time + 1]
    /\ current_time' = current_time + 1
    /\ UNCHANGED <<access_sequence, frame_size, algorithm>>

\* Mutant: LRU notes the time of a fault only.
HitUnnoted(p) ==
    /\ Accessing(p) /\ page_table[p].valid
    /\ page_table' = [page_table EXCEPT ![p].use_bit = @ \/ algorithm = "Clock"]
    /\ UNCHANGED <<frames, frame_count, page_fault, clock_ptr, new_page, entered>>

Hit(p) ==
    /\ Accessing(p) /\ page_table[p].valid
    /\ page_table' = [page_table EXCEPT
         ![p].access_time = IF algorithm = "LRU" THEN current_time' ELSE @,
         ![p].use_bit = @ \/ algorithm = "Clock"]
    /\ UNCHANGED <<frames, frame_count, page_fault, clock_ptr, new_page, entered>>

FreeFrames == {f \in Frames : frames[f] = NONE}
free_frame == CHOOSE f \in FreeFrames : \A g \in FreeFrames : f <= g

\* The entry of a page that is now in frame f.
Loaded(p, f) == [frame_num |-> f, valid |-> TRUE,
    access_time |-> IF algorithm = "LRU" THEN current_time' ELSE page_table[p].access_time,
    use_bit |-> page_table[p].use_bit \/ algorithm = "Clock"]

\* Page p takes frame f; the page that was there is no longer valid.
Take(p, f) ==
    /\ frames' = [frames EXCEPT ![f] = p]
    /\ page_table' = [q \in Pages |->
         IF q = p THEN Loaded(p, f)
         ELSE IF q = frames[f] THEN [page_table[q] EXCEPT !.valid = FALSE, !.frame_num = NONE]
         ELSE page_table[q]]
    /\ entered' = [entered EXCEPT ![p] = current_time']

Fault(p) == Accessing(p) /\ ~page_table[p].valid /\ page_fault' = page_fault + 1

\* There is a free frame.
Fill(p) ==
    /\ Fault(p) /\ FreeFrames # {}
    /\ Take(p, free_frame)
    /\ frame_count' = frame_count + 1
    /\ clock_ptr' = IF algorithm = "Clock" THEN next_frame(free_frame) ELSE clock_ptr
    /\ UNCHANGED new_page

\* The frame FIFO replaces.
replace_frame == 0

time(f) == page_table[frames[f]].access_time

\* The first of the frames with the least access time.
lru_frame == CHOOSE f \in Frames :
    \A g \in Frames : time(f) < time(g) \/ (time(f) = time(g) /\ f <= g)

Replaces(p, name, f) ==
    /\ Fault(p) /\ FreeFrames = {} /\ algorithm = name
    /\ Take(p, f)
    /\ UNCHANGED <<frame_count, clock_ptr, new_page>>

fifo_replace(p) == Replaces(p, "FIFO", replace_frame)

lru_replace(p) == Replaces(p, "LRU", lru_frame)

-----------------------------------------------------------------------------
(* clock_replace: the loop over the ring.                                   *)

clock_replace(p) ==
    /\ Fault(p) /\ FreeFrames = {} /\ algorithm = "Clock"
    /\ new_page' = p
    /\ UNCHANGED <<page_table, frames, frame_count, clock_ptr, entered>>

pointed == frames[clock_ptr]

\* Mutant: the use bit stays set.
ClockPassKept ==
    /\ new_page # NONE /\ page_table[pointed].use_bit
    /\ clock_ptr' = next_frame(clock_ptr)
    /\ UNCHANGED <<run, page_table, frames, current_time, frame_count, page_fault, new_page, entered>>

\* Its use bit is set: the page at the pointer stays, for this time.
ClockPass ==
    /\ new_page # NONE /\ page_table[pointed].use_bit
    /\ page_table' = [page_table EXCEPT ![pointed].use_bit = FALSE]
    /\ clock_ptr' = next_frame(clock_ptr)
    /\ UNCHANGED <<run, frames, current_time, frame_count, page_fault, new_page, entered>>

\* Mutant: the pointer stays at the page just loaded.
ClockTakeStay ==
    /\ new_page # NONE /\ ~page_table[pointed].use_bit
    /\ UNCHANGED <<run, current_time, frame_count, page_fault, clock_ptr>>
    /\ Take(new_page, clock_ptr)
    /\ new_page' = NONE

\* Its use bit is clear: it is replaced.
ClockTake ==
    /\ new_page # NONE /\ ~page_table[pointed].use_bit
    /\ UNCHANGED <<run, current_time, frame_count, page_fault>>
    /\ Take(new_page, clock_ptr)
    /\ clock_ptr' = next_frame(clock_ptr)
    /\ new_page' = NONE

\* main has returned.
Finished == algorithm = "end" /\ UNCHANGED vars

Access(p) == Hit(p) \/ Fill(p) \/ fifo_replace(p) \/ lru_replace(p) \/ clock_replace(p)

Next ==
    \/ NextAlgorithm
    \/ \E p \in Pages : Access(p)
    \/ ClockPass
    \/ ClockTake
    \/ Finished

\* The program is one thread that the system runs as long as it can run.
Spec == Init /\ [][Next]_vars /\ WF_vars(Next)

-----------------------------------------------------------------------------
(* Properties.                                                              *)

Resident == {frames[f] : f \in Frames} \ {NONE}

\* The page table and the frames say the same of every page, and frame_count
\* counts the frames in use: three algorithms and init (L35-L56) write the two
\* tables from nine places.
TablesAgree ==
    /\ \A p \in Pages : page_table[p].valid <=> p \in Resident
    /\ \A p \in Pages : page_table[p].valid => frames[page_table[p].frame_num] = p
    /\ \A f, g \in Frames : frames[f] = frames[g] /\ frames[f] # NONE => f = g
    /\ frame_count = Cardinality(Frames \ FreeFrames)

\* The accesses made so far, and those among them to p.
Made == 1..current_time
Uses(p) == {k \in Made : access_sequence[k] = p}

\* The pages accessed after the last access to p.
Since(p) == {access_sequence[k] : k \in {m \in Made : \A u \in Uses(p) : u < m}}

\* Under LRU (L128-L201) exactly those pages are resident after which fewer
\* other pages than there are frames have been accessed: the times kept in the
\* page table, stale for pages that left, add up to the order of use.
LruKeepsRecent ==
    algorithm = "LRU" =>
        Resident = {p \in Pages : Uses(p) # {} /\ Cardinality(Since(p)) < frame_size}

\* What the comment in fifo_replace promises (L82-L84): the page that is
\* replaced is the one that came in first.
FifoEvictsOldest ==
    [][\A p \in Pages : algorithm = "FIFO" /\ algorithm' = "FIFO"
         /\ p \in Resident \ Resident' => \A q \in Resident : entered[p] <= entered[q]]_vars

\* main returns: the loop of clock_replace (L228) has no bound of its own.
Terminates == <>(algorithm = "end")

\* The pages in the order in which LRU replaces them, and Clock: from its pointer
\* on, or from the first frame as long as there is a free one.
ByTime == [k \in 1..Cardinality(Resident) |->
    CHOOSE p \in Resident : Cardinality({q \in Resident :
        page_table[q].access_time < page_table[p].access_time}) = k - 1]
Ring == [k \in 1..frame_count |->
    frames[IF FreeFrames = {} THEN (clock_ptr + k - 1) % frame_size ELSE k - 1]]

Queue == CASE algorithm = "LRU" -> ByTime
           [] algorithm = "Clock" -> Ring
           [] OTHER -> <<>>
Second == IF algorithm = "Clock" THEN {p \in Resident : page_table[p].use_bit} ELSE {}

Q == INSTANCE PageQueue WITH
    policy <- algorithm, capacity <- frame_size, queue <- Queue, second <- Second

\* LRU (L128-L201) and Clock (L206-L285) implement the queue each is named for:
\* the time stamps the order of use, and pointer and use bits the second chance.
ImplementsQueue == Q!QSpec
=============================================================================
