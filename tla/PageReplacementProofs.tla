------------------------ MODULE PageReplacementProofs ------------------------
(***************************************************************************)
(* The page table and the frames agree, for any pages, any number of       *)
(* frames and any access sequence, each policy has a frame to replace, LRU *)
(* keeps the pages that were used last, and LRU and Clock implement the    *)
(* queue of PageQueue.                                                     *)
(***************************************************************************)
EXTENDS PageReplacement, FiniteSetTheorems, SequenceTheorems, WellFoundedInduction, TLAPS

\* Every non-empty set of naturals has a least element: the first free frame
\* (L65-L70, L130-L135, L208-L213) and the least recent one (L149-L157) exist.
LEMMA Least ==
    ASSUME NEW S, S \subseteq Nat, S # {}
    PROVE  \E x \in S : \A y \in S : x <= y
<1> DEFINE R == {ss \in Nat \X Nat : ss[1] < ss[2]}
<1>1. R = OpToRel(<, Nat)
  BY DEF OpToRel
<1>2. IsWellFoundedOn(R, Nat)
  BY <1>1, NatLessThanWellFounded, Zenon
<1> HIDE DEF R
<1>3. PICK x \in S : \A y \in S : ~ (<<y, x>> \in R)
  BY <1>2, WFMin, Zenon
<1>4. ASSUME NEW y \in S, ~ (x <= y) PROVE FALSE
  <2>1. x \in Nat /\ y \in Nat
    OBVIOUS
  <2>2. <<y, x>> \in R
    BY <1>4, <2>1 DEF R
  <2> QED
    BY <2>2, <1>3
<1> QED
  BY <1>4

-----------------------------------------------------------------------------
(* The invariant.                                                           *)

TableEntry == [frame_num: Frames \cup {NONE}, valid: BOOLEAN, access_time: Nat, use_bit: BOOLEAN]

TypeInv ==
    /\ frame_size \in 1..MAX_FRAMES
    /\ page_table \in [Pages -> TableEntry]
    /\ frames \in [Frames -> Pages \cup {NONE}]
    /\ current_time \in Nat
    /\ clock_ptr \in Frames
    /\ new_page \in Pages \cup {NONE}

\* While clock_replace goes round there is no free frame, and the page it loads
\* has none.
ClockInv == new_page # NONE => FreeFrames = {} /\ ~page_table[new_page].valid

\* A valid entry says which frame.
FrameInv == \A p \in Pages : page_table[p].valid => page_table[p].frame_num \in Frames

Inv == TypeInv /\ FrameInv /\ ClockInv /\ TablesAgree

\* No page is NONE, and a frame can be counted.
LEMMA Numbers ==
    ASSUME TypeInv
    PROVE  /\ NONE \notin Pages
           /\ Frames \subseteq Nat /\ 0 \in Frames
           /\ IsFiniteSet(Frames \ FreeFrames)
           /\ \A f \in Frames : next_frame(f) \in Frames
<1>1. NONE \notin Pages
  BY PagesAssumption DEF NONE
<1>2. frame_size \in Nat /\ frame_size >= 1
  BY FramesAssumption DEF TypeInv
<1>3. IsFiniteSet(Frames)
  BY <1>2, FS_Interval DEF Frames
<1>4. Frames \ FreeFrames \in SUBSET Frames
  OBVIOUS
<1>5. IsFiniteSet(Frames \ FreeFrames)
  BY <1>3, <1>4, FS_Subset
<1>6. ASSUME NEW f \in Frames PROVE next_frame(f) \in Frames
  <2>1. f + 1 \in Nat
    BY <1>2 DEF Frames
  <2> QED
    BY <1>2, <2>1 DEF next_frame, Frames
<1> QED
  BY <1>1, <1>2, <1>5, <1>6 DEF Frames

\* The frame the search for a free one ends at is the first of them.
LEMMA FreeFrame ==
    ASSUME TypeInv, FreeFrames # {}
    PROVE  free_frame \in FreeFrames /\ \A g \in FreeFrames : free_frame <= g
<1>1. FreeFrames \subseteq Nat
  BY Numbers DEF FreeFrames
<1>2. \E f \in FreeFrames : \A g \in FreeFrames : f <= g
  BY <1>1, Least
<1> QED
  BY <1>2, Zenon DEF free_frame

\* The frame LRU replaces: with the least time, and the first of those.
LEMMA LruFrame ==
    ASSUME TypeInv, FreeFrames = {}
    PROVE  lru_frame \in Frames /\ \A g \in Frames : time(lru_frame) <= time(g)
<1>1. \A f \in Frames : time(f) \in Nat
  BY DEF FreeFrames, TypeInv, time, TableEntry
<1> DEFINE times == {time(f) : f \in Frames}
<1>2. PICK m \in times : \A n \in times : m <= n
  <2>1. times \subseteq Nat /\ times # {}
    BY <1>1, Numbers
  <2> HIDE DEF times
  <2> QED
    BY <2>1, Least
<1> DEFINE oldest == {f \in Frames : time(f) = m}
<1>3. PICK f \in oldest : \A g \in oldest : f <= g
  <2>1. oldest \subseteq Nat /\ oldest # {}
    BY Numbers
  <2> HIDE DEF oldest
  <2> QED
    BY <2>1, Least
<1>4. \A g \in Frames : time(f) < time(g) \/ (time(f) = time(g) /\ f <= g)
  <2> TAKE g \in Frames
  <2>1. time(f) = m /\ m <= time(g) /\ time(g) \in Nat /\ m \in Nat
    BY <1>1, <1>2
  <2> QED
    BY <1>3, <2>1
<1>5. \E h \in Frames : \A g \in Frames : time(h) < time(g) \/ (time(h) = time(g) /\ h <= g)
  BY <1>4
<1>6. lru_frame \in Frames
      /\ \A g \in Frames : time(lru_frame) < time(g) \/ (time(lru_frame) = time(g) /\ lru_frame <= g)
  BY <1>5, Zenon DEF lru_frame
<1> QED
  BY <1>1, <1>6

-----------------------------------------------------------------------------
(* Steps.                                                                   *)

\* Taking a frame for a page that has none leaves the tables in agreement, be
\* the frame free or not.
LEMMA TakeAgrees ==
    ASSUME Inv, NEW p \in Pages, NEW f \in Frames, ~page_table[p].valid,
           Take(p, f), UNCHANGED frame_size, current_time' \in Nat,
           frame_count' = IF f \in FreeFrames THEN frame_count + 1 ELSE frame_count
    PROVE  /\ page_table' \in [Pages -> TableEntry]
           /\ frames' \in [Frames -> Pages \cup {NONE}]
           /\ FrameInv' /\ TablesAgree'
<1> DEFINE old == frames[f]
<1>1. /\ Frames' = Frames /\ TypeInv /\ TablesAgree /\ NONE \notin Pages
      /\ IsFiniteSet(Frames \ FreeFrames)
  BY Numbers DEF Inv, Frames
<1>2. frames' \in [Frames -> Pages \cup {NONE}] /\ frames'[f] = p
      /\ \A g \in Frames : g # f => frames'[g] = frames[g]
  BY <1>1 DEF Take, TypeInv
<1>3. /\ page_table'[p] = Loaded(p, f)
      /\ \A q \in Pages : q # p /\ q # old => page_table'[q] = page_table[q]
      /\ old \in Pages /\ old # p =>
           page_table'[old] = [page_table[old] EXCEPT !.valid = FALSE, !.frame_num = NONE]
  BY DEF Take
<1>4. Loaded(p, f) \in TableEntry /\ Loaded(p, f).valid /\ Loaded(p, f).frame_num = f
  BY <1>1 DEF Loaded, TableEntry, TypeInv
<1>5. page_table' \in [Pages -> TableEntry]
  <2>1. DOMAIN page_table' = Pages /\ page_table' = [q \in Pages |-> page_table'[q]]
    BY DEF Take
  <2>2. ASSUME NEW q \in Pages PROVE page_table'[q] \in TableEntry
    <3>1. page_table[q] \in TableEntry
      BY <1>1 DEF TypeInv
    <3>2. [page_table[q] EXCEPT !.valid = FALSE, !.frame_num = NONE] \in TableEntry
      BY <3>1 DEF TableEntry
    <3> QED
      BY <1>3, <1>4, <3>1, <3>2
  <2> QED
    BY <2>1, <2>2
<1>6. \A g \in Frames : frames[g] # p
  BY <1>1 DEF TablesAgree, Resident
<1>7. \A q \in Pages : page_table[q].valid => page_table[q].frame_num \in Frames
                                              /\ frames[page_table[q].frame_num] = q
  BY <1>1 DEF Inv, FrameInv, TablesAgree
<1>8. ASSUME NEW q \in Pages
      PROVE  /\ page_table'[q].valid <=> \E g \in Frames : frames'[g] = q
             /\ page_table'[q].valid => page_table'[q].frame_num \in Frames
                                        /\ frames'[page_table'[q].frame_num] = q
  <2>1. CASE q = p
    BY <1>2, <1>3, <1>4, <2>1
  <2>2. CASE q # p /\ q = old
    <3>1. ~page_table'[q].valid
      BY <1>1, <1>3, <2>2 DEF TypeInv, TableEntry
    <3>2. \A g \in Frames : g # f => frames[g] # q
      BY <1>1, <2>2 DEF TablesAgree
    <3> QED
      BY <1>2, <2>2, <3>1, <3>2
  <2>3. CASE q # p /\ q # old
    <3>1. page_table[q].valid <=> \E g \in Frames : frames[g] = q
      BY <1>1 DEF TablesAgree, Resident
    <3>2. page_table[q].valid => page_table[q].frame_num # f
      BY <1>7, <2>3
    <3> QED
      BY <1>2, <1>3, <1>7, <2>3, <3>1, <3>2
  <2> QED
    BY <2>1, <2>2, <2>3
<1>9. \A g, h \in Frames : frames'[g] = frames'[h] /\ frames'[g] # NONE => g = h
  BY <1>1, <1>2, <1>6 DEF TablesAgree
<1>10. Frames' \ FreeFrames' = (Frames \ FreeFrames) \cup {f}
  BY <1>1, <1>2 DEF FreeFrames
<1>11. frame_count' = Cardinality(Frames' \ FreeFrames')
  <2>1. Cardinality((Frames \ FreeFrames) \cup {f})
          = IF f \in Frames \ FreeFrames THEN Cardinality(Frames \ FreeFrames)
            ELSE Cardinality(Frames \ FreeFrames) + 1
    BY <1>1, FS_AddElement, Zenon
  <2>2. frame_count = Cardinality(Frames \ FreeFrames)
    BY <1>1 DEF TablesAgree
  <2>3. frame_count' = IF f \in Frames \ FreeFrames THEN frame_count ELSE frame_count + 1
    OBVIOUS
  <2> QED
    BY <1>10, <2>1, <2>2, <2>3, Zenon
<1> QED
  BY <1>1, <1>2, <1>5, <1>8, <1>9, <1>11 DEF FrameInv, TablesAgree, Resident

\* init clears both tables.
LEMMA InitAgrees ==
    ASSUME TypeInv, init, UNCHANGED frame_size
    PROVE  /\ page_table' \in [Pages -> TableEntry]
           /\ frames' \in [Frames -> Pages \cup {NONE}]
           /\ FrameInv' /\ TablesAgree'
<1>1. NotLoaded \in TableEntry /\ ~NotLoaded.valid
  BY DEF NotLoaded, TableEntry
<1>2. page_table' = [p \in Pages |-> NotLoaded] /\ frames' = [f \in Frames |-> NONE]
      /\ Frames' = Frames /\ frame_count' = 0 /\ NONE \notin Pages
  BY Numbers DEF init, Frames
<1>3. Frames' \ FreeFrames' = {}
  BY <1>2 DEF FreeFrames
<1>4. frame_count' = Cardinality(Frames' \ FreeFrames')
  BY <1>2, <1>3, FS_EmptySet, Zenon
<1>5. \A p \in Pages : ~page_table'[p].valid
  BY <1>1, <1>2
<1> QED
  BY <1>1, <1>2, <1>4, <1>5 DEF FrameInv, TablesAgree, Resident

\* A step that changes no more of the page table than times and use bits.
LEMMA NotesAgree ==
    ASSUME Inv, NEW p \in Pages, NEW t \in Nat, NEW u \in BOOLEAN,
           page_table' = [page_table EXCEPT ![p].access_time = t, ![p].use_bit = u],
           UNCHANGED <<frames, frame_count, frame_size>>
    PROVE  /\ page_table' \in [Pages -> TableEntry]
           /\ frames' \in [Frames -> Pages \cup {NONE}]
           /\ FrameInv' /\ TablesAgree'
           /\ \A q \in Pages : page_table'[q].valid = page_table[q].valid
<1>1. page_table \in [Pages -> TableEntry] /\ Frames' = Frames /\ FreeFrames' = FreeFrames
  BY DEF Inv, TypeInv, Frames, FreeFrames
<1>2. page_table' \in [Pages -> TableEntry]
  BY <1>1 DEF TableEntry
<1>3. \A q \in Pages : /\ page_table'[q].valid = page_table[q].valid
                       /\ page_table'[q].frame_num = page_table[q].frame_num
  BY <1>1 DEF TableEntry
<1>4. frames' \in [Frames -> Pages \cup {NONE}]
  BY DEF Inv, TypeInv
<1>5. FrameInv'
  BY <1>1, <1>3 DEF Inv, FrameInv
<1>6. TablesAgree'
  BY <1>1, <1>3 DEF Inv, TablesAgree, Resident
<1> QED
  BY <1>2, <1>3, <1>4, <1>5, <1>6

\* The parts of the invariant, put together after a step.
LEMMA Together ==
    ASSUME TypeInv, UNCHANGED frame_size, current_time' \in Nat, clock_ptr' \in Frames,
           new_page' \in Pages \cup {NONE}, page_table' \in [Pages -> TableEntry],
           frames' \in [Frames -> Pages \cup {NONE}], FrameInv', TablesAgree', ClockInv'
    PROVE  Inv'
<1>1. Frames' = Frames
  BY DEF Frames
<1>2. TableEntry' = TableEntry
  BY <1>1 DEF TableEntry
<1>3. TypeInv'
  BY <1>1, <1>2 DEF TypeInv
<1> QED
  BY <1>3 DEF Inv

\* The tables start empty, and in agreement.
LEMMA InvInit == Init => Inv
<1> SUFFICES ASSUME Init PROVE Inv
  OBVIOUS
<1>1. frame_size \in 1..MAX_FRAMES /\ MAX_FRAMES \in Nat
  BY FramesAssumption DEF Init
<1>2. NotLoaded \in TableEntry /\ ~NotLoaded.valid
  BY DEF NotLoaded, TableEntry
<1>3. TypeInv
  BY <1>1, <1>2 DEF Init, TypeInv, Frames
<1>4. Frames \ FreeFrames = {} /\ frame_count = 0 /\ NONE \notin Pages
  BY <1>3, Numbers DEF Init, FreeFrames
<1>5. frame_count = Cardinality(Frames \ FreeFrames)
  BY <1>4, FS_EmptySet, Zenon
<1>6. FrameInv /\ TablesAgree
  BY <1>2, <1>4, <1>5 DEF Init, FrameInv, TablesAgree, Resident
<1>7. ClockInv
  BY DEF Init, ClockInv
<1> QED
  BY <1>3, <1>6, <1>7 DEF Inv

\* The next algorithm starts with empty tables.
LEMMA NextAlgorithmKeeps == Inv /\ NextAlgorithm => Inv'
<1> SUFFICES ASSUME Inv, NextAlgorithm PROVE Inv'
  OBVIOUS
<1>1. TypeInv /\ init /\ UNCHANGED <<frame_size, new_page>> /\ clock_ptr' = 0
      /\ new_page = NONE /\ current_time' = 0
  BY DEF Inv, NextAlgorithm, init, Running
<1>2. Frames' = Frames /\ 0 \in Frames
  BY <1>1, Numbers DEF Frames
<1>3. page_table' \in [Pages -> TableEntry] /\ frames' \in [Frames -> Pages \cup {NONE}]
      /\ FrameInv' /\ TablesAgree'
  BY <1>1, InitAgrees
<1> QED
  BY <1>1, <1>2, <1>3, Together DEF ClockInv

\* An access that finds its page, or a frame for it at once.
LEMMA AccessKeeps ==
    ASSUME Inv, NEW p \in Pages, Access(p)
    PROVE  Inv'
<1>1. TypeInv /\ FramesAssumption /\ Frames \subseteq Nat /\ 0 \in Frames
  BY Numbers, FramesAssumption DEF Inv
<1>2. Frames' = Frames /\ current_time' \in Nat /\ UNCHANGED frame_size /\ new_page = NONE
  BY <1>1 DEF Access, Hit, Fill, fifo_replace, lru_replace, clock_replace, Replaces, Fault,
              Accessing, Running, TypeInv, Frames
<1>3. CASE Hit(p)
  <2> DEFINE t == IF algorithm = "LRU" THEN current_time' ELSE page_table[p].access_time
             u == page_table[p].use_bit \/ algorithm = "Clock"
  <2>1. t \in Nat /\ u \in BOOLEAN
    BY <1>1, <1>2 DEF TypeInv, TableEntry
  <2>2. page_table' = [page_table EXCEPT ![p].access_time = t, ![p].use_bit = u]
    BY <1>3 DEF Hit
  <2>3. UNCHANGED <<frames, frame_count, clock_ptr, new_page>>
    BY <1>3 DEF Hit
  <2> HIDE DEF t, u
  <2>4. page_table' \in [Pages -> TableEntry] /\ frames' \in [Frames -> Pages \cup {NONE}]
        /\ FrameInv' /\ TablesAgree'
    BY <1>2, <2>1, <2>2, <2>3, NotesAgree
  <2> QED
    <3>1. clock_ptr' \in Frames /\ new_page' \in Pages \cup {NONE} /\ ClockInv'
      BY <1>1, <1>2, <2>3 DEF TypeInv, ClockInv
    <3> QED
      BY <1>1, <1>2, <2>4, <3>1, Together
<1>4. CASE Fill(p)
  <2>1. free_frame \in FreeFrames /\ free_frame \in Frames
    BY <1>1, <1>4, FreeFrame DEF Fill, FreeFrames
  <2>2. ~page_table[p].valid /\ Take(p, free_frame) /\ frame_count' = frame_count + 1
        /\ UNCHANGED new_page
    BY <1>4 DEF Fill, Fault
  <2>3. clock_ptr' \in Frames
    BY <1>1, <1>4, <2>1, Numbers DEF Fill, TypeInv
  <2>4. page_table' \in [Pages -> TableEntry] /\ frames' \in [Frames -> Pages \cup {NONE}]
        /\ FrameInv' /\ TablesAgree'
    BY <1>2, <2>1, <2>2, TakeAgrees
  <2> QED
    <3>1. new_page' \in Pages \cup {NONE} /\ ClockInv'
      BY <1>1, <1>2, <2>2 DEF TypeInv, ClockInv
    <3> QED
      BY <1>1, <1>2, <2>3, <2>4, <3>1, Together
<1>5. ASSUME NEW name, NEW f \in Frames, Replaces(p, name, f) PROVE Inv'
  <2>1. ~page_table[p].valid /\ Take(p, f) /\ UNCHANGED <<frame_count, clock_ptr, new_page>>
        /\ f \notin FreeFrames
    BY <1>5 DEF Replaces, Fault
  <2>2. page_table' \in [Pages -> TableEntry] /\ frames' \in [Frames -> Pages \cup {NONE}]
        /\ FrameInv' /\ TablesAgree'
    BY <1>2, <2>1, TakeAgrees
  <2> QED
    <3>1. clock_ptr' \in Frames /\ new_page' \in Pages \cup {NONE} /\ ClockInv'
      BY <1>1, <1>2, <2>1 DEF TypeInv, ClockInv
    <3> QED
      BY <1>1, <1>2, <2>2, <3>1, Together
<1>6. CASE fifo_replace(p)
  BY <1>1, <1>5, <1>6 DEF fifo_replace, replace_frame
<1>7. CASE lru_replace(p)
  <2>1. FreeFrames = {}
    BY <1>7 DEF lru_replace, Replaces
  <2> QED
    BY <1>1, <1>5, <1>7, <2>1, LruFrame DEF lru_replace
<1>8. CASE clock_replace(p)
  <2>1. UNCHANGED <<page_table, frames, frame_count, clock_ptr>> /\ new_page' = p
        /\ FreeFrames = {} /\ ~page_table[p].valid
    BY <1>8 DEF clock_replace, Fault
  <2>2. FreeFrames' = FreeFrames
    BY <1>2, <2>1 DEF FreeFrames
  <2> QED
    <3>1. FrameInv' /\ TablesAgree' /\ ClockInv'
      BY <1>2, <2>1, <2>2 DEF Inv, FrameInv, ClockInv, TablesAgree, Resident
    <3> QED
      BY <1>1, <1>2, <2>1, <3>1, Together DEF TypeInv
<1> QED
  BY <1>3, <1>4, <1>6, <1>7, <1>8 DEF Access

\* A turn of the loop of clock_replace clears a use bit only.
LEMMA ClockPassKeeps == Inv /\ ClockPass => Inv'
<1> SUFFICES ASSUME Inv, ClockPass PROVE Inv'
  OBVIOUS
<1>1. TypeInv /\ ClockInv /\ new_page # NONE /\ clock_ptr' = next_frame(clock_ptr)
      /\ UNCHANGED <<frame_size, frames, current_time, frame_count, new_page>>
      /\ page_table' = [page_table EXCEPT ![pointed].use_bit = FALSE]
  BY DEF Inv, ClockPass, run
<1>2. pointed \in Pages
  BY <1>1 DEF TypeInv, ClockInv, FreeFrames, pointed
<1> DEFINE t == page_table[pointed].access_time
<1>3. t \in Nat /\ page_table' = [page_table EXCEPT ![pointed].access_time = t,
                                                     ![pointed].use_bit = FALSE]
  BY <1>1, <1>2 DEF TypeInv, TableEntry
<1> HIDE DEF t
<1>4. page_table' \in [Pages -> TableEntry] /\ frames' \in [Frames -> Pages \cup {NONE}]
      /\ FrameInv' /\ TablesAgree' /\ \A q \in Pages : page_table'[q].valid = page_table[q].valid
  BY <1>1, <1>2, <1>3, NotesAgree
<1>5. Frames' = Frames /\ FreeFrames' = FreeFrames /\ clock_ptr' \in Frames
  BY <1>1, Numbers DEF Frames, FreeFrames, TypeInv
<1>6. current_time' \in Nat /\ new_page' \in Pages \cup {NONE} /\ ClockInv'
  BY <1>1, <1>4, <1>5 DEF TypeInv, ClockInv
<1> QED
  BY <1>1, <1>4, <1>5, <1>6, Together

\* The last turn takes the frame at the pointer.
LEMMA ClockTakeKeeps == Inv /\ ClockTake => Inv'
<1> SUFFICES ASSUME Inv, ClockTake PROVE Inv'
  OBVIOUS
<1>1. TypeInv /\ ClockInv /\ new_page # NONE /\ new_page' = NONE
      /\ UNCHANGED <<frame_size, current_time, frame_count>>
      /\ Take(new_page, clock_ptr) /\ clock_ptr' = next_frame(clock_ptr)
  BY DEF Inv, ClockTake, run
<1>2. new_page \in Pages /\ clock_ptr \in Frames /\ clock_ptr \notin FreeFrames
      /\ ~page_table[new_page].valid /\ current_time' \in Nat
  BY <1>1 DEF TypeInv, ClockInv
<1>3. page_table' \in [Pages -> TableEntry] /\ frames' \in [Frames -> Pages \cup {NONE}]
      /\ FrameInv' /\ TablesAgree'
  BY <1>1, <1>2, TakeAgrees
<1>4. Frames' = Frames /\ clock_ptr' \in Frames
  BY <1>1, Numbers DEF Frames, TypeInv
<1> QED
  BY <1>1, <1>2, <1>3, <1>4, Together DEF ClockInv

\* Every step keeps the invariant.
LEMMA InvStep == Inv /\ [Next]_vars => Inv'
<1> SUFFICES ASSUME Inv, [Next]_vars PROVE Inv'
  OBVIOUS
<1>1. CASE UNCHANGED vars
  <2>1. UNCHANGED <<frame_size, page_table, frames, current_time, frame_count, clock_ptr, new_page>>
        /\ Frames' = Frames /\ FreeFrames' = FreeFrames
    BY <1>1 DEF vars, Frames, FreeFrames
  <2>2. FrameInv' /\ TablesAgree' /\ ClockInv'
    BY <2>1 DEF Inv, FrameInv, ClockInv, TablesAgree, Resident
  <2> QED
    BY <2>1, <2>2, Together DEF Inv, TypeInv
<1> QED
  BY <1>1, NextAlgorithmKeeps, AccessKeeps, ClockPassKeeps, ClockTakeKeeps DEF Next, Finished

\* All that writes the page table or the frames (L35-L56, L73-L92, L138-L165,
\* L216-L250) keeps them in agreement.
THEOREM TablesAlwaysAgree == Spec => []TablesAgree
<1>1. Inv => TablesAgree
  BY DEF Inv
<1> QED
  BY <1>1, InvInit, InvStep, PTL DEF Spec

-----------------------------------------------------------------------------
(* LRU.                                                                     *)

stamp(p) == page_table[p].access_time

\* Under LRU the time in the page table is that of the last access to a page, 0
\* before the first; a page that was accessed and is not resident was accessed
\* before every page that is, and there is none as long as a frame is free.
LruInv ==
    algorithm = "LRU" =>
        /\ new_page = NONE
        /\ current_time \in 0..Len(access_sequence)
        /\ \A p \in Pages : /\ stamp(p) \in 0..current_time
                            /\ stamp(p) > 0 => access_sequence[stamp(p)] = p
        /\ \A k \in Made : access_sequence[k] \in Pages /\ stamp(access_sequence[k]) >= k
        /\ \A p \in Resident : stamp(p) > 0
        /\ \A p \in Resident : \A q \in Pages \ Resident : stamp(q) < stamp(p)
        /\ FreeFrames = {} \/ \A p \in Pages : stamp(p) > 0 => p \in Resident

\* What main runs (L290); no algorithm writes to it.
GivenInv == access_sequence \in Seq(Pages)

LruOrder == Inv /\ GivenInv /\ LruInv

\* The statements about times alone, after an access that stamps page p.
LEMMA Stamped ==
    ASSUME LruOrder, algorithm = "LRU", NEW p \in Pages, Accessing(p),
           page_table'[p].access_time = current_time',
           \A q \in Pages : q # p => page_table'[q].access_time = stamp(q)
    PROVE  /\ current_time' = current_time + 1
           /\ current_time' \in 0..Len(access_sequence')
           /\ \A q \in Pages : /\ page_table'[q].access_time \in 0..current_time'
                               /\ page_table'[q].access_time > 0
                                    => access_sequence'[page_table'[q].access_time] = q
           /\ \A k \in 1..current_time' :
                access_sequence'[k] \in Pages /\ page_table'[access_sequence'[k]].access_time >= k
           /\ \A q \in Pages : q # p => stamp(q) < current_time'
<1>1. /\ access_sequence' = access_sequence /\ current_time' = current_time + 1
      /\ p = access_sequence[current_time'] /\ current_time # Len(access_sequence)
      /\ Len(access_sequence) \in Nat
  BY DEF Accessing, Over, LruOrder, GivenInv
<1>2. /\ current_time \in 0..Len(access_sequence)
      /\ \A q \in Pages : stamp(q) \in 0..current_time /\ (stamp(q) > 0 => access_sequence[stamp(q)] = q)
      /\ \A k \in 1..current_time : access_sequence[k] \in Pages /\ stamp(access_sequence[k]) >= k
  BY DEF LruOrder, LruInv, Made
<1>3. current_time' \in 1..Len(access_sequence') /\ current_time \in Nat
  BY <1>1, <1>2
<1>4. ASSUME NEW q \in Pages
      PROVE  /\ page_table'[q].access_time \in 0..current_time'
             /\ page_table'[q].access_time > 0 => access_sequence'[page_table'[q].access_time] = q
             /\ q # p => stamp(q) < current_time'
  BY <1>1, <1>2, <1>3
<1>5. ASSUME NEW k \in 1..current_time'
      PROVE  access_sequence'[k] \in Pages /\ page_table'[access_sequence'[k]].access_time >= k
  <2>1. CASE k = current_time'
    BY <1>1, <1>3, <2>1
  <2>2. CASE k # current_time'
    <3>1. k \in 1..current_time /\ access_sequence[k] \in Pages /\ stamp(access_sequence[k]) >= k
      BY <1>1, <1>2, <1>3, <2>2
    <3>2. CASE access_sequence[k] = p
      BY <1>1, <1>3, <3>1, <3>2
    <3>3. CASE access_sequence[k] # p
      BY <1>1, <3>1, <3>3
    <3> QED
      BY <3>2, <3>3
  <2> QED
    BY <2>1, <2>2
<1> QED
  BY <1>1, <1>3, <1>4, <1>5

\* The pages in the frames after page p took frame f.
LEMMA TakenResident ==
    ASSUME Inv, NEW p \in Pages, NEW f \in Frames, ~page_table[p].valid, Take(p, f),
           UNCHANGED frame_size
    PROVE  /\ p \notin Resident
           /\ Resident' = (Resident \ {frames[f]}) \cup {p}
           /\ FreeFrames' = FreeFrames \ {f}
<1>1. /\ Frames' = Frames /\ TypeInv /\ TablesAgree /\ NONE \notin Pages
  BY Numbers DEF Inv, Frames
<1>2. frames' \in [Frames -> Pages \cup {NONE}] /\ frames'[f] = p
      /\ \A g \in Frames : g # f => frames'[g] = frames[g]
  BY <1>1 DEF Take, TypeInv
<1>3. p \notin Resident
  BY <1>1 DEF TablesAgree
<1>4. \A g \in Frames : frames[g] # NONE /\ frames[g] = frames[f] => g = f
  BY <1>1 DEF TablesAgree
<1>5. Resident' = (Resident \ {frames[f]}) \cup {p}
  <2>1. Resident' = {frames'[g] : g \in Frames} \ {NONE}
    BY <1>1 DEF Resident
  <2>2. ASSUME NEW q \in Resident' PROVE q \in (Resident \ {frames[f]}) \cup {p}
    BY <2>1, <2>2, <1>2, <1>4 DEF Resident
  <2>3. ASSUME NEW q \in (Resident \ {frames[f]}) \cup {p} PROVE q \in Resident'
    BY <2>1, <2>3, <1>1, <1>2 DEF Resident
  <2> QED
    BY <2>2, <2>3
<1>6. FreeFrames' = FreeFrames \ {f}
  BY <1>1, <1>2 DEF FreeFrames
<1> QED
  BY <1>3, <1>5, <1>6

\* Taking a frame stamps the page that takes it and no other.
LEMMA TakenStamps ==
    ASSUME Inv, algorithm = "LRU", NEW p \in Pages, NEW f \in Frames, Take(p, f)
    PROVE  /\ page_table'[p].access_time = current_time'
           /\ \A q \in Pages : q # p => page_table'[q].access_time = stamp(q)
<1>1. page_table \in [Pages -> TableEntry]
  BY DEF Inv, TypeInv
<1>2. page_table'[p].access_time = current_time'
  BY DEF Take, Loaded
<1>3. ASSUME NEW q \in Pages, q # p PROVE page_table'[q].access_time = stamp(q)
  <2>1. page_table[q] \in TableEntry
    BY <1>1
  <2>2. [page_table[q] EXCEPT !.valid = FALSE, !.frame_num = NONE].access_time = page_table[q].access_time
    BY <2>1 DEF TableEntry
  <2> QED
    BY <1>3, <2>2 DEF Take, stamp
<1> QED
  BY <1>2, <1>3

\* Every access keeps the order of LRU.
LEMMA LruAccess ==
    ASSUME LruOrder, algorithm = "LRU", NEW p \in Pages, Access(p)
    PROVE  LruInv'
<1>1. Inv /\ TypeInv /\ TablesAgree /\ NONE \notin Pages
  BY Numbers DEF LruOrder, Inv
<1>2. /\ \A q \in Resident : stamp(q) > 0 /\ q \in Pages
      /\ \A q \in Resident : \A s \in Pages \ Resident : stamp(s) < stamp(q)
      /\ FreeFrames = {} \/ \A q \in Pages : stamp(q) > 0 => q \in Resident
      /\ \A q \in Pages : stamp(q) \in Nat
      /\ \A q, s \in Pages : stamp(q) > 0 /\ stamp(q) = stamp(s) => q = s
      /\ current_time \in Nat /\ new_page = NONE
  BY <1>1 DEF LruOrder, LruInv, Resident, TypeInv
<1>3. Accessing(p) /\ algorithm' = "LRU" /\ UNCHANGED <<access_sequence, frame_size>>
      /\ Frames' = Frames
  BY DEF Access, Hit, Fill, fifo_replace, lru_replace, clock_replace, Replaces, Fault, Accessing, Frames
<1>4. CASE Hit(p)
  <2>1. /\ page_table' \in [Pages -> TableEntry]
        /\ page_table'[p].access_time = current_time'
        /\ \A q \in Pages : q # p => page_table'[q].access_time = stamp(q)
        /\ UNCHANGED <<frames, new_page>> /\ page_table[p].valid
    <3>1. page_table \in [Pages -> TableEntry] /\ current_time' \in Nat
      BY <1>1, <1>2, <1>3 DEF TypeInv, Accessing
    <3>2. page_table[p] \in TableEntry
      BY <3>1
    <3> QED
      BY <3>1, <3>2, <1>4 DEF Hit, TableEntry, stamp
  <2>2. Resident' = Resident /\ FreeFrames' = FreeFrames /\ p \in Resident
    BY <1>1, <1>3, <2>1 DEF Resident, FreeFrames, TablesAgree
  <2>3. /\ current_time' = current_time + 1
        /\ current_time' \in 0..Len(access_sequence')
        /\ \A q \in Pages : /\ page_table'[q].access_time \in 0..current_time'
                            /\ page_table'[q].access_time > 0
                                 => access_sequence'[page_table'[q].access_time] = q
        /\ \A k \in 1..current_time' :
             access_sequence'[k] \in Pages /\ page_table'[access_sequence'[k]].access_time >= k
        /\ \A q \in Pages : q # p => stamp(q) < current_time'
    BY <1>3, <2>1, Stamped
  <2>4. \A q \in Resident' : page_table'[q].access_time > 0
    BY <1>2, <2>1, <2>2, <2>3
  <2>5. ASSUME NEW q \in Resident', NEW s \in Pages \ Resident'
        PROVE  page_table'[s].access_time < page_table'[q].access_time
    BY <1>2, <2>1, <2>2, <2>3
  <2>6. FreeFrames' = {} \/ \A q \in Pages : page_table'[q].access_time > 0 => q \in Resident'
    BY <1>2, <2>1, <2>2
  <2> QED
    BY <1>2, <2>1, <2>3, <2>4, <2>5, <2>6 DEF LruInv, stamp, Made
<1>5. ASSUME NEW f \in Frames, Fault(p), Take(p, f), UNCHANGED new_page,
             \/ f \in FreeFrames
             \/ FreeFrames = {} /\ \A g \in Frames : time(f) <= time(g)
      PROVE  LruInv'
  <2>1. /\ page_table'[p].access_time = current_time'
        /\ \A q \in Pages : q # p => page_table'[q].access_time = stamp(q)
    BY <1>1, <1>5, TakenStamps
  <2>2. /\ p \notin Resident
        /\ Resident' = (Resident \ {frames[f]}) \cup {p}
        /\ FreeFrames' = FreeFrames \ {f}
    BY <1>1, <1>3, <1>5, TakenResident DEF Fault
  <2>3. /\ current_time' = current_time + 1
        /\ current_time' \in 0..Len(access_sequence')
        /\ \A q \in Pages : /\ page_table'[q].access_time \in 0..current_time'
                            /\ page_table'[q].access_time > 0
                                 => access_sequence'[page_table'[q].access_time] = q
        /\ \A k \in 1..current_time' :
             access_sequence'[k] \in Pages /\ page_table'[access_sequence'[k]].access_time >= k
        /\ \A q \in Pages : q # p => stamp(q) < current_time'
    BY <1>3, <2>1, Stamped
  <2>4. \A q \in Resident' : page_table'[q].access_time > 0
    BY <1>2, <2>1, <2>2, <2>3
  <2>5. ASSUME NEW q \in Resident', NEW s \in Pages \ Resident'
        PROVE  page_table'[s].access_time < page_table'[q].access_time
    <3>1. CASE q = p
      BY <2>1, <2>2, <2>3, <2>5, <3>1
    <3>2. CASE q # p /\ s \notin Resident
      BY <1>2, <2>1, <2>2, <2>5, <3>2
    <3>3. CASE q # p /\ s \in Resident
      <4>1. s = frames[f] /\ q \in Resident /\ q # s /\ FreeFrames = {}
        BY <1>1, <1>5, <2>2, <2>5, <3>3 DEF FreeFrames, Resident
      <4>2. PICK g \in Frames : frames[g] = q
        BY <4>1 DEF Resident
      <4>3. stamp(s) <= stamp(q)
        BY <1>5, <4>1, <4>2 DEF time, stamp, FreeFrames
      <4>4. stamp(s) < stamp(q)
        BY <1>2, <2>5, <4>1, <4>3
      <4> QED
        BY <1>2, <2>1, <2>2, <2>5, <3>3, <4>1, <4>4
    <3> QED
      BY <3>1, <3>2, <3>3
  <2>6. FreeFrames' = {} \/ \A q \in Pages : page_table'[q].access_time > 0 => q \in Resident'
    <3>1. CASE f \in FreeFrames
      <4>1. frames[f] = NONE /\ NONE \notin Resident
        BY <3>1 DEF FreeFrames, Resident
      <4> QED
        BY <1>2, <2>1, <2>2, <3>1, <4>1
    <3>2. CASE FreeFrames = {}
      BY <2>2, <3>2
    <3> QED
      BY <1>5, <3>1, <3>2
  <2> QED
    BY <1>2, <1>5, <2>3, <2>4, <2>5, <2>6 DEF LruInv, stamp, Made
<1>6. CASE Fill(p)
  <2>1. free_frame \in FreeFrames /\ free_frame \in Frames
    BY <1>1, <1>6, FreeFrame DEF Fill, FreeFrames
  <2> QED
    BY <1>5, <1>6, <2>1 DEF Fill
<1>7. CASE lru_replace(p)
  <2>1. FreeFrames = {} /\ lru_frame \in Frames
    BY <1>1, <1>7, LruFrame DEF lru_replace, Replaces
  <2>2. \A g \in Frames : time(lru_frame) <= time(g)
    BY <1>1, <2>1, LruFrame
  <2> QED
    BY <1>5, <1>7, <2>1, <2>2 DEF lru_replace, Replaces
<1>8. ~fifo_replace(p) /\ ~clock_replace(p)
  BY DEF fifo_replace, clock_replace, Replaces
<1> QED
  BY <1>4, <1>6, <1>7, <1>8 DEF Access

\* frame_count is the number of resident pages, and the frames are full when it
\* is the number of frames.
LEMMA Counted ==
    Inv => /\ frame_size \in Nat /\ frame_size >= 1
           /\ IsFiniteSet(Resident) /\ Cardinality(Resident) = frame_count
           /\ frame_count \in 0..frame_size
           /\ FreeFrames = {} <=> frame_count = frame_size
<1> SUFFICES ASSUME Inv
             PROVE  /\ frame_size \in Nat /\ frame_size >= 1
                    /\ IsFiniteSet(Resident) /\ Cardinality(Resident) = frame_count
                    /\ frame_count \in 0..frame_size
                    /\ FreeFrames = {} <=> frame_count = frame_size
  OBVIOUS
<1>1. TypeInv /\ TablesAgree
  BY DEF Inv
<1>2. frame_size \in Nat /\ frame_size >= 1
  BY <1>1, FramesAssumption DEF TypeInv
<1>3. IsFiniteSet(Frames) /\ Cardinality(Frames) = frame_size
  <2>1. IsFiniteSet(0..(frame_size - 1))
        /\ Cardinality(0..(frame_size - 1)) = IF 0 > frame_size - 1 THEN 0 ELSE (frame_size - 1) - 0 + 1
    BY <1>2, FS_Interval
  <2> QED
    BY <1>2, <2>1 DEF Frames
<1> DEFINE used == Frames \ FreeFrames
           place == [f \in used |-> frames[f]]
<1>4. place \in Bijection(used, Resident)
  <2>1. \A f \in used : frames[f] \in Resident
    BY DEF Resident, FreeFrames
  <2>2. \A f, g \in used : frames[f] = frames[g] => f = g
    BY <1>1 DEF TablesAgree, FreeFrames
  <2>3. \A q \in Resident : \E f \in used : frames[f] = q
    BY DEF Resident, FreeFrames
  <2>4. place \in Surjection(used, Resident)
    BY <2>1, <2>3 DEF Surjection
  <2>5. place \in Injection(used, Resident)
    BY <2>1, <2>2 DEF Injection, IsInjective
  <2> QED
    BY <2>4, <2>5 DEF Bijection
<1>5. used \in SUBSET Frames /\ frame_count = Cardinality(used)
  BY <1>1 DEF TablesAgree
<1>6. FreeFrames = {} <=> used = Frames
  BY DEF FreeFrames
<1> HIDE DEF used
<1>7. /\ IsFiniteSet(used) /\ Cardinality(used) <= frame_size
      /\ Cardinality(used) = frame_size => used = Frames
  BY <1>3, <1>5, FS_Subset
<1>8. ExistsBijection(used, Resident)
  BY <1>4 DEF ExistsBijection
<1>9. IsFiniteSet(Resident) /\ Cardinality(Resident) = Cardinality(used)
  BY <1>7, <1>8, FS_Bijection
<1>10. Cardinality(used) \in Nat
  BY <1>7, FS_CardinalityType
<1> QED
  BY <1>2, <1>3, <1>5, <1>6, <1>7, <1>9, <1>10

\* In the order of LRU the resident pages are the ones used last.
LEMMA OrderKeepsRecent ==
    ASSUME LruOrder
    PROVE  LruKeepsRecent
<1> SUFFICES ASSUME algorithm = "LRU"
             PROVE  Resident = {p \in Pages : Uses(p) # {} /\ Cardinality(Since(p)) < frame_size}
  BY DEF LruKeepsRecent
<1>1. Inv /\ TypeInv /\ TablesAgree /\ NONE \notin Pages
  BY Numbers DEF LruOrder, Inv
<1>2. /\ \A q \in Resident : stamp(q) > 0 /\ q \in Pages
      /\ \A q \in Resident : \A s \in Pages \ Resident : stamp(s) < stamp(q)
      /\ FreeFrames = {} \/ \A q \in Pages : stamp(q) > 0 => q \in Resident
      /\ \A q \in Pages : stamp(q) \in 0..current_time /\ (stamp(q) > 0 => access_sequence[stamp(q)] = q)
      /\ \A k \in Made : access_sequence[k] \in Pages /\ stamp(access_sequence[k]) >= k
      /\ current_time \in Nat /\ Made = 1..current_time
  BY <1>1 DEF LruOrder, LruInv, Resident, TypeInv, Made
<1>4. /\ frame_size \in Nat /\ IsFiniteSet(Resident) /\ Cardinality(Resident) <= frame_size
      /\ FreeFrames = {} => Cardinality(Resident) = frame_size
  BY <1>1, Counted
<1>5. ASSUME NEW p \in Pages PROVE Uses(p) # {} <=> stamp(p) > 0
  <2>1. ASSUME stamp(p) > 0 PROVE Uses(p) # {}
    <3>1. stamp(p) \in Made /\ access_sequence[stamp(p)] = p
      BY <1>2, <2>1
    <3> QED
      BY <3>1 DEF Uses
  <2>2. ASSUME NEW k \in Uses(p) PROVE stamp(p) > 0
    <3>1. k \in Made /\ stamp(p) >= k
      BY <1>2, <2>2 DEF Uses
    <3> QED
      BY <1>2, <3>1
  <2> QED
    BY <2>1, <2>2
<1>6. ASSUME NEW p \in Pages, stamp(p) > 0
      PROVE  /\ Since(p) = {q \in Pages : stamp(p) < stamp(q)}
             /\ IsFiniteSet(Since(p))
  <2>1. stamp(p) \in Uses(p) /\ \A u \in Uses(p) : u \in Made /\ u <= stamp(p)
    BY <1>2, <1>6 DEF Uses
  <2>2. ASSUME NEW q \in Since(p) PROVE q \in Pages /\ stamp(p) < stamp(q)
    <3>1. PICK m \in Made : access_sequence[m] = q /\ \A u \in Uses(p) : u < m
      BY <2>2 DEF Since
    <3>2. q \in Pages /\ stamp(q) >= m /\ stamp(p) < m
      BY <1>2, <2>1, <3>1
    <3> QED
      BY <1>2, <3>1, <3>2
  <2>3. ASSUME NEW q \in Pages, stamp(p) < stamp(q) PROVE q \in Since(p)
    <3>1. stamp(q) \in Made /\ access_sequence[stamp(q)] = q
      BY <1>2, <2>3
    <3>2. \A u \in Uses(p) : u < stamp(q)
      BY <1>2, <2>1, <2>3
    <3> QED
      BY <3>1, <3>2 DEF Since
  <2>4. IsFiniteSet(Since(p))
    <3> DEFINE after == {m \in Made : \A u \in Uses(p) : u < m}
               image == {access_sequence[k] : k \in after}
    <3>1. IsFiniteSet(Made)
      BY <1>2, FS_Interval
    <3>2. after \in SUBSET Made
      OBVIOUS
    <3>3. IsFiniteSet(after)
      BY <3>1, <3>2, FS_Subset
    <3> HIDE DEF after
    <3>4. IsFiniteSet(image)
      <4> DEFINE get == [k \in after |-> access_sequence[k]]
      <4>1. get \in Surjection(after, image)
        BY DEF Surjection
      <4>2. IsFiniteSet(image)
        BY <3>3, <4>1, FS_Surjection
      <4> QED
        BY <4>2
    <3> QED
      BY <3>4 DEF Since, after
  <2> QED
    BY <2>2, <2>3, <2>4
<1>7. ASSUME NEW p \in Resident PROVE Uses(p) # {} /\ Cardinality(Since(p)) < frame_size
  <2>1. p \in Pages /\ stamp(p) > 0
    BY <1>2
  <2>2. Since(p) \in SUBSET (Resident \ {p}) /\ Since(p) = {q \in Pages : stamp(p) < stamp(q)}
    <3>1. Since(p) = {q \in Pages : stamp(p) < stamp(q)}
      BY <1>6, <2>1
    <3>2. ASSUME NEW q \in Pages, stamp(p) < stamp(q) PROVE q \in Resident \ {p}
      BY <1>2, <2>1, <3>2
    <3> QED
      BY <3>1, <3>2
  <2>3. IsFiniteSet(Resident \ {p}) /\ Cardinality(Resident \ {p}) = Cardinality(Resident) - 1
    BY <1>4, FS_RemoveElement
  <2>4. Cardinality(Since(p)) <= Cardinality(Resident \ {p})
    BY <2>2, <2>3, FS_Subset
  <2>5. Cardinality(Resident) \in Nat /\ Cardinality(Since(p)) \in Nat
    BY <1>4, <1>6, <2>1, FS_CardinalityType
  <2> QED
    BY <1>4, <1>5, <2>1, <2>3, <2>4, <2>5
<1>8. ASSUME NEW p \in Pages \ Resident, Uses(p) # {} PROVE ~(Cardinality(Since(p)) < frame_size)
  <2>1. stamp(p) > 0 /\ FreeFrames = {}
    BY <1>2, <1>5, <1>8
  <2>2. Since(p) = {q \in Pages : stamp(p) < stamp(q)} /\ IsFiniteSet(Since(p))
    BY <1>6, <2>1
  <2>3. Resident \in SUBSET Since(p)
    BY <1>2, <2>2
  <2>4. Cardinality(Resident) <= Cardinality(Since(p))
    BY <2>2, <2>3, FS_Subset
  <2>5. Cardinality(Since(p)) \in Nat
    BY <2>2, FS_CardinalityType
  <2> QED
    BY <1>4, <2>1, <2>4, <2>5
<1> QED
  BY <1>2, <1>7, <1>8

\* The order of LRU holds at first.
LEMMA LruOrderInit == Init => LruOrder
  BY InvInit, SequencesAssumption DEF Init, LruOrder, GivenInv, LruInv

\* Every step keeps it, whichever algorithm runs.
LEMMA LruOrderStep == LruOrder /\ [Next]_vars => LruOrder'
<1> SUFFICES ASSUME LruOrder, [Next]_vars PROVE LruOrder'
  OBVIOUS
<1>1. Inv'
  BY InvStep DEF LruOrder
<1>2. GivenInv'
  <2>1. UNCHANGED access_sequence
    BY DEF Next, vars, run, NextAlgorithm, Access, Hit, Fill, fifo_replace, lru_replace,
           clock_replace, Replaces, Fault, Accessing, ClockPass, ClockTake, Finished
  <2> QED
    BY <2>1 DEF LruOrder, GivenInv
<1>3. LruInv'
  <2>1. CASE UNCHANGED vars
    BY <2>1 DEF LruOrder, LruInv, vars, stamp, Made, Resident, FreeFrames, Frames
  <2>2. CASE NextAlgorithm
    <3> SUFFICES ASSUME algorithm' = "LRU" PROVE LruInv'
      BY DEF LruInv
    <3>1. /\ new_page' = NONE /\ current_time' = 0 /\ access_sequence' \in Seq(Pages)
          /\ page_table' = [q \in Pages |-> NotLoaded]
          /\ frames' = [f \in Frames |-> NONE] /\ Frames' = Frames
      BY <1>2, <2>2 DEF NextAlgorithm, init, Running, Frames, GivenInv
    <3>2. \A q \in Pages : page_table'[q].access_time = 0
      BY <3>1 DEF NotLoaded
    <3>3. Resident' = {}
      BY <3>1 DEF Resident
    <3>4. Made' = {} /\ current_time' \in 0..Len(access_sequence')
      BY <3>1 DEF Made
    <3> QED
      BY <3>1, <3>2, <3>3, <3>4 DEF LruInv, stamp
  <2>3. ASSUME NEW p \in Pages, Access(p) PROVE LruInv'
    <3>1. algorithm' = algorithm
      BY <2>3 DEF Access, Hit, Fill, fifo_replace, lru_replace, clock_replace, Replaces, Fault, Accessing
    <3>2. CASE algorithm = "LRU"
      BY <2>3, <3>2, LruAccess
    <3>3. CASE algorithm # "LRU"
      BY <3>1, <3>3 DEF LruInv
    <3> QED
      BY <3>2, <3>3
  <2>4. CASE ClockPass \/ ClockTake
    BY <2>4 DEF ClockPass, ClockTake, run, LruOrder, LruInv
  <2>5. CASE Finished
    BY <2>1, <2>5 DEF Finished
  <2> QED
    BY <2>1, <2>2, <2>3, <2>4, <2>5 DEF Next
<1> QED
  BY <1>1, <1>2, <1>3 DEF LruOrder

\* LRU (L128-L201) keeps exactly the pages after which fewer other pages than
\* there are frames were accessed, for any pages, frames and accesses: a time
\* that stayed behind in the page table never misleads it.
THEOREM LruRemembers == Spec => []LruKeepsRecent
<1> QED
  BY LruOrderInit, LruOrderStep, OrderKeepsRecent, PTL DEF Spec

-----------------------------------------------------------------------------
(* Sequences.                                                               *)

\* A sequence without its element j.
LEMMA WithoutOne ==
    ASSUME NEW S, NEW s \in Seq(S), NEW t \in Seq(S), NEW j \in 1..Len(s), Len(t) = Len(s) - 1,
           \A k \in 1..(Len(s) - 1) : t[k] = IF k < j THEN s[k] ELSE s[k + 1]
    PROVE  t = Q!RemoveAt(s, j)
<1>1. Len(s) \in Nat /\ \A k \in 1..Len(s) : s[k] \in S
  OBVIOUS
<1> DEFINE a == SubSeq(s, 1, j - 1)
           b == SubSeq(s, j + 1, Len(s))
<1>2. a \in Seq(S) /\ Len(a) = j - 1 /\ \A k \in 1..(j - 1) : a[k] = s[k]
  BY <1>1
<1>3. b \in Seq(S) /\ Len(b) = Len(s) - j /\ \A k \in 1..(Len(s) - j) : b[k] = s[k + j]
  BY <1>1
<1>4. Q!RemoveAt(s, j) = a \o b
  BY DEF Q!RemoveAt
<1> HIDE DEF a, b
<1>5. /\ a \o b \in Seq(S) /\ Len(a \o b) = Len(t)
      /\ \A k \in 1..Len(t) : (a \o b)[k] = IF k < j THEN a[k] ELSE b[k - Len(a)]
  <2>1. /\ a \o b \in Seq(S) /\ Len(a \o b) = Len(a) + Len(b)
        /\ \A k \in 1..(Len(a) + Len(b)) :
             (a \o b)[k] = IF k <= Len(a) THEN a[k] ELSE b[k - Len(a)]
    BY <1>2, <1>3, ConcatProperties
  <2>2. Len(a) + Len(b) = Len(t) /\ \A k \in 1..Len(t) : k <= Len(a) <=> k < j
    BY <1>1, <1>2, <1>3
  <2>3. QED
    BY <2>1, <2>2
<1>6. ASSUME NEW k \in 1..Len(t) PROVE t[k] = (a \o b)[k]
  <2>1. CASE k < j
    <3>1. k \in 1..(j - 1) /\ k \in 1..(Len(s) - 1)
      BY <1>1, <2>1
    <3>2. a[k] = s[k] /\ t[k] = s[k]
      BY <1>2, <2>1, <3>1
    <3>3. QED
      BY <1>5, <2>1, <3>2
  <2>2. CASE ~(k < j)
    <3>1. k - Len(a) \in 1..(Len(s) - j) /\ (k - Len(a)) + j = k + 1
      BY <1>1, <1>2, <2>2
    <3>2. QED
      BY <1>1, <1>3, <1>5, <2>2, <3>1
  <2>3. QED
    BY <2>1, <2>2
<1>7. QED
  BY <1>4, <1>5, <1>6, SeqEqual

\* Its first element removed, a sequence is its tail.
LEMMA WithoutFirst ==
    ASSUME NEW S, NEW s \in Seq(S), Len(s) > 0
    PROVE  Q!RemoveAt(s, 1) = Tail(s)
<1>1. Tail(s) \in Seq(S) /\ Len(Tail(s)) = Len(s) - 1 /\ \A k \in 1..(Len(s) - 1) : Tail(s)[k] = s[k + 1]
  OBVIOUS
<1>2. PICK j \in 1..Len(s) : j = 1
  OBVIOUS
<1>3. \A k \in 1..(Len(s) - 1) : Tail(s)[k] = IF k < j THEN s[k] ELSE s[k + 1]
  BY <1>1, <1>2
<1>4. Tail(s) = Q!RemoveAt(s, j)
  BY <1>1, <1>3, WithoutOne
<1>5. QED
  BY <1>2, <1>4

\* What goes to the tail when the head leaves it.
LEMMA TurnedOnce ==
    ASSUME NEW S, NEW s \in Seq(S), NEW t \in Seq(S), NEW x \in S, Len(s) > 0, Len(t) = Len(s),
           \A k \in 1..(Len(s) - 1) : t[k] = s[k + 1], t[Len(s)] = x
    PROVE  t = Append(Tail(s), x)
<1>1. Tail(s) \in Seq(S) /\ Len(Tail(s)) = Len(s) - 1 /\ \A k \in 1..(Len(s) - 1) : Tail(s)[k] = s[k + 1]
  OBVIOUS
<1>2. /\ Append(Tail(s), x) \in Seq(S) /\ Len(Append(Tail(s), x)) = Len(s)
      /\ \A k \in 1..(Len(s) - 1) : Append(Tail(s), x)[k] = s[k + 1]
      /\ Append(Tail(s), x)[Len(s)] = x
  <2>1. Len(s) \in Nat /\ Len(s) - 1 + 1 = Len(s)
    OBVIOUS
  <2>2. QED
    BY <1>1, <2>1, AppendProperties
<1>3. \A k \in 1..Len(t) : t[k] = Append(Tail(s), x)[k]
  BY <1>2
<1>4. QED
  BY <1>2, <1>3, SeqEqual

\* Numbers less than twice the modulus.
LEMMA OnceAround ==
    \A n \in Nat : n > 0 => \A x \in 0..(2 * n - 1) : x % n = IF x < n THEN x ELSE x - n
  OBVIOUS

-----------------------------------------------------------------------------
(* Elements in the order of their numbers.                                  *)

\* The elements of S with a smaller number in t than p, how many they are, and S
\* in the order of its numbers.
Older(S, t, p) == {q \in S : t[q] < t[p]}
Rank(S, t, p) == Cardinality(Older(S, t, p))
Sorted(S, t) == [k \in 1..Cardinality(S) |-> CHOOSE p \in S : Rank(S, t, p) = k - 1]

\* A page of each rank, and one only.
LEMMA SortedIs ==
    ASSUME NEW S, IsFiniteSet(S), NEW t \in [S -> Nat], \A p, q \in S : t[p] = t[q] => p = q
    PROVE  /\ Cardinality(S) \in Nat /\ Sorted(S, t) \in Seq(S) /\ Len(Sorted(S, t)) = Cardinality(S)
           /\ \A p \in S : /\ Rank(S, t, p) \in 0..(Cardinality(S) - 1)
                           /\ Sorted(S, t)[Rank(S, t, p) + 1] = p
           /\ \A k \in 1..Cardinality(S) :
                Sorted(S, t)[k] \in S /\ Rank(S, t, Sorted(S, t)[k]) = k - 1
<1> DEFINE n == Cardinality(S)
           rank == [p \in S |-> Rank(S, t, p)]
<1>1. n \in Nat
  BY FS_CardinalityType
<1>2. ASSUME NEW p \in S PROVE Rank(S, t, p) \in 0..(n - 1)
  <2>1. Older(S, t, p) \in SUBSET (S \ {p})
    BY DEF Older
  <2>2. IsFiniteSet(S \ {p}) /\ Cardinality(S \ {p}) = n - 1
    BY FS_RemoveElement
  <2>3. IsFiniteSet(Older(S, t, p)) /\ Cardinality(Older(S, t, p)) <= n - 1
    BY <2>1, <2>2, FS_Subset
  <2>4. Cardinality(Older(S, t, p)) \in Nat
    BY <2>3, FS_CardinalityType
  <2>5. QED
    BY <1>1, <2>3, <2>4 DEF Rank
<1>3. ASSUME NEW p \in S, NEW q \in S, t[p] < t[q] PROVE Rank(S, t, p) < Rank(S, t, q)
  <2>1. Older(S, t, p) \in SUBSET Older(S, t, q) /\ p \in Older(S, t, q) /\ p \notin Older(S, t, p)
    BY <1>3 DEF Older
  <2>2. Older(S, t, q) \in SUBSET S
    BY DEF Older
  <2>3. IsFiniteSet(Older(S, t, q))
    BY <2>2, FS_Subset
  <2>4. /\ Cardinality(Older(S, t, p)) <= Cardinality(Older(S, t, q))
        /\ Cardinality(Older(S, t, q)) # Cardinality(Older(S, t, p))
    BY <2>1, <2>3, FS_Subset
  <2>5. QED
    BY <1>2, <2>4 DEF Rank
<1>4. ASSUME NEW p \in S, NEW q \in S, Rank(S, t, p) = Rank(S, t, q) PROVE p = q
  <2>1. t[p] \in Nat /\ t[q] \in Nat
    OBVIOUS
  <2>2. Rank(S, t, p) \in Nat /\ Rank(S, t, q) \in Nat
    BY <1>2
  <2>3. ~(t[p] < t[q]) /\ ~(t[q] < t[p])
    BY <1>3, <1>4, <2>2
  <2>4. QED
    BY <2>1, <2>3
<1>5. rank \in Injection(S, 0..(n - 1))
  BY <1>2, <1>4 DEF Injection, IsInjective
<1>6. IsFiniteSet(0..(n - 1)) /\ Cardinality(0..(n - 1)) = n
  BY <1>1, FS_Interval
<1>7. rank \in Surjection(S, 0..(n - 1))
  BY <1>5, <1>6, FS_Injection
<1>8. ASSUME NEW k \in 1..n
      PROVE  Sorted(S, t)[k] \in S /\ Rank(S, t, Sorted(S, t)[k]) = k - 1
  <2>1. k - 1 \in 0..(n - 1)
    BY <1>1
  <2>2. \E p \in S : Rank(S, t, p) = k - 1
    BY <1>7, <2>1 DEF Surjection
  <2>3. Sorted(S, t)[k] = CHOOSE p \in S : Rank(S, t, p) = k - 1
    BY DEF Sorted
  <2>4. QED
    BY <2>2, <2>3
<1>9. Sorted(S, t) \in Seq(S) /\ Len(Sorted(S, t)) = n
  <2>1. Sorted(S, t) \in [1..n -> S]
    BY <1>8 DEF Sorted
  <2>2. QED
    BY <1>1, <2>1
<1>10. ASSUME NEW p \in S PROVE Sorted(S, t)[Rank(S, t, p) + 1] = p
  <2>1. Rank(S, t, p) + 1 \in 1..n /\ Rank(S, t, p) + 1 - 1 = Rank(S, t, p)
    BY <1>1, <1>2
  <2>2. PICK k \in 1..n : k = Rank(S, t, p) + 1
    BY <2>1
  <2>3. k - 1 = Rank(S, t, p)
    BY <1>1, <1>2, <2>2
  <2>4. Sorted(S, t)[k] \in S /\ Rank(S, t, Sorted(S, t)[k]) = Rank(S, t, p)
    BY <1>8, <2>3
  <2>5. Sorted(S, t)[k] = p
    BY <1>4, <2>4
  <2>6. QED
    BY <2>2, <2>5
<1>11. QED
  BY <1>1, <1>2, <1>8, <1>9, <1>10

\* A page leaves: those after it move up.
LEMMA SortedWithout ==
    ASSUME NEW S, IsFiniteSet(S), NEW t \in [S -> Nat], \A p, q \in S : t[p] = t[q] => p = q,
           NEW p \in S
    PROVE  Sorted(S \ {p}, [q \in S \ {p} |-> t[q]]) = Q!RemoveAt(Sorted(S, t), Rank(S, t, p) + 1)
<1> DEFINE R == S \ {p}
           u == [q \in R |-> t[q]]
           n == Cardinality(S)
           j == Rank(S, t, p) + 1
<1>1. IsFiniteSet(R) /\ Cardinality(R) = n - 1
  BY FS_RemoveElement
<1>2. /\ n \in Nat /\ Sorted(S, t) \in Seq(S) /\ Len(Sorted(S, t)) = n
      /\ \A q \in S : Rank(S, t, q) \in 0..(n - 1) /\ Sorted(S, t)[Rank(S, t, q) + 1] = q
      /\ \A k \in 1..n : Sorted(S, t)[k] \in S /\ Rank(S, t, Sorted(S, t)[k]) = k - 1
  BY SortedIs
<1>3. u \in [R -> Nat] /\ \A q, r \in R : u[q] = u[r] => q = r
  OBVIOUS
<1>4. ASSUME NEW q \in R
      PROVE  Rank(R, u, q) = IF Rank(S, t, q) < Rank(S, t, p) THEN Rank(S, t, q)
                             ELSE Rank(S, t, q) - 1
  <2>1. Older(R, u, q) = Older(S, t, q) \ {p}
    BY DEF Older
  <2>2. Older(S, t, q) \in SUBSET S /\ Older(S, t, p) \in SUBSET S
    BY DEF Older
  <2>3. IsFiniteSet(Older(S, t, q)) /\ IsFiniteSet(Older(S, t, p))
    BY <2>2, FS_Subset
  <2>4. t[q] \in Nat /\ t[p] \in Nat /\ t[q] # t[p]
    OBVIOUS
  <2>5. Rank(S, t, q) \in Nat /\ Rank(S, t, p) \in Nat
    BY <1>2
  <2>6. CASE t[q] < t[p]
    <3>1. p \notin Older(S, t, q) /\ Older(S, t, q) \in SUBSET Older(S, t, p)
          /\ q \in Older(S, t, p) /\ q \notin Older(S, t, q)
      BY <2>4, <2>6 DEF Older
    <3>2. Rank(R, u, q) = Rank(S, t, q)
      BY <2>1, <3>1 DEF Rank
    <3>3. Rank(S, t, q) < Rank(S, t, p)
      <4>1. /\ Cardinality(Older(S, t, q)) <= Cardinality(Older(S, t, p))
            /\ Cardinality(Older(S, t, p)) # Cardinality(Older(S, t, q))
        BY <2>3, <3>1, FS_Subset
      <4>2. QED
        BY <2>5, <4>1 DEF Rank
    <3>4. QED
      BY <3>2, <3>3
  <2>7. CASE t[p] < t[q]
    <3>1. p \in Older(S, t, q) /\ Older(S, t, p) \in SUBSET Older(S, t, q)
      BY <2>4, <2>7 DEF Older
    <3>2. Cardinality(Older(S, t, q) \ {p}) = Cardinality(Older(S, t, q)) - 1
      BY <2>3, <3>1, FS_RemoveElement
    <3>3. Cardinality(Older(S, t, p)) <= Cardinality(Older(S, t, q))
      BY <2>3, <3>1, FS_Subset
    <3>4. QED
      BY <2>1, <2>5, <3>2, <3>3 DEF Rank
  <2>8. QED
    BY <2>4, <2>6, <2>7
<1> HIDE DEF R, u, n, j
<1>5. /\ Sorted(R, u) \in Seq(R) /\ Len(Sorted(R, u)) = n - 1
      /\ \A q \in R : Rank(R, u, q) \in 0..(n - 1 - 1) /\ Sorted(R, u)[Rank(R, u, q) + 1] = q
  BY <1>1, <1>3, SortedIs
<1>6. Sorted(R, u) \in Seq(S) /\ j \in 1..n
  <2>1. R \subseteq S
    BY DEF R
  <2>2. QED
    BY <1>2, <1>5, <2>1, SeqMonotonic DEF j
<1>7. ASSUME NEW k \in 1..(n - 1)
      PROVE  Sorted(R, u)[k] = IF k < j THEN Sorted(S, t)[k] ELSE Sorted(S, t)[k + 1]
  <2>1. PICK i \in 1..n : i = (IF k < j THEN k ELSE k + 1) /\ i # j
    BY <1>2, <1>6
  <2>2. PICK q \in S : q = Sorted(S, t)[i] /\ Rank(S, t, q) = i - 1
    BY <1>2
  <2>3. q # p
    BY <1>2, <2>1, <2>2 DEF j
  <2>4. q \in R
    BY <2>3 DEF R
  <2>5. Rank(S, t, p) = j - 1 /\ j - 1 \in Nat
    BY <1>2 DEF j
  <2>6. Rank(R, u, q) = IF i - 1 < j - 1 THEN i - 1 ELSE i - 1 - 1
    BY <1>4, <2>2, <2>4, <2>5
  <2>7. Rank(R, u, q) + 1 = k
    BY <1>2, <1>6, <2>1, <2>6
  <2>8. Sorted(R, u)[k] = q
    BY <1>5, <2>4, <2>7
  <2>9. QED
    BY <2>1, <2>2, <2>8
<1>8. Sorted(R, u) = Q!RemoveAt(Sorted(S, t), j)
  <2>1. /\ j \in 1..Len(Sorted(S, t)) /\ Len(Sorted(R, u)) = Len(Sorted(S, t)) - 1
        /\ \A k \in 1..(Len(Sorted(S, t)) - 1) :
             Sorted(R, u)[k] = IF k < j THEN Sorted(S, t)[k] ELSE Sorted(S, t)[k + 1]
    BY <1>2, <1>5, <1>6, <1>7
  <2>2. QED
    BY <1>2, <1>6, <2>1, WithoutOne
<1>9. QED
  BY <1>8 DEF R, u, j

\* The page used last comes last.
LEMMA SortedWith ==
    ASSUME NEW S, IsFiniteSet(S), NEW u \in [S -> Nat], \A p, q \in S : u[p] = u[q] => p = q,
           NEW p \in S, \A q \in S \ {p} : u[q] < u[p]
    PROVE  \E rest : /\ rest = Sorted(S \ {p}, [q \in S \ {p} |-> u[q]])
                     /\ Sorted(S, u) = Append(rest, p)
<1> DEFINE R == S \ {p}
           t == [q \in R |-> u[q]]
           n == Cardinality(R)
<1>1. IsFiniteSet(R) /\ Cardinality(S) = n + 1 /\ n \in Nat
  <2>1. IsFiniteSet(R) /\ n = Cardinality(S) - 1
    BY FS_RemoveElement
  <2>2. Cardinality(S) \in Nat /\ n \in Nat
    BY <2>1, FS_CardinalityType
  <2> QED
    BY <2>1, <2>2
<1>2. t \in [R -> Nat] /\ \A q, r \in R : t[q] = t[r] => q = r
  OBVIOUS
<1>3. /\ Len(Sorted(S, u)) = n + 1 /\ Sorted(S, u) \in Seq(S)
      /\ \A q \in S : Sorted(S, u)[Rank(S, u, q) + 1] = q
  <2>1. /\ Len(Sorted(S, u)) = Cardinality(S) /\ Sorted(S, u) \in Seq(S)
        /\ \A q \in S : /\ Rank(S, u, q) \in 0..(Cardinality(S) - 1)
                        /\ Sorted(S, u)[Rank(S, u, q) + 1] = q
    BY SortedIs
  <2> QED
    BY <1>1, <2>1
<1>4. \A q \in S : u[q] \in Nat
  OBVIOUS
<1>5. ASSUME NEW q \in R PROVE Rank(S, u, q) = Rank(R, t, q)
  <2>1. ~(u[p] < u[q])
    BY <1>4
  <2>2. Older(S, u, q) = Older(R, t, q)
    BY <2>1 DEF Older
  <2> QED
    BY <2>2 DEF Rank
<1>6. Rank(S, u, p) = n
  <2>1. ~(u[p] < u[p])
    BY <1>4
  <2>2. Older(S, u, p) = R
    BY <2>1 DEF Older
  <2> QED
    BY <2>2 DEF Rank
<1>7. R \subseteq S
  OBVIOUS
<1> HIDE DEF R, t, n
<1>8. /\ Sorted(R, t) \in Seq(R) /\ Len(Sorted(R, t)) = n
      /\ \A k \in 1..n : Sorted(R, t)[k] \in R /\ Rank(R, t, Sorted(R, t)[k]) = k - 1
  <2>1. /\ Sorted(R, t) \in Seq(R) /\ Len(Sorted(R, t)) = Cardinality(R)
        /\ \A k \in 1..Cardinality(R) :
             Sorted(R, t)[k] \in R /\ Rank(R, t, Sorted(R, t)[k]) = k - 1
    BY <1>1, <1>2, SortedIs
  <2> QED
    BY <2>1 DEF n
<1>9. /\ Append(Sorted(R, t), p) \in Seq(S) /\ Len(Append(Sorted(R, t), p)) = n + 1
      /\ \A k \in 1..n : Append(Sorted(R, t), p)[k] = Sorted(R, t)[k]
      /\ Append(Sorted(R, t), p)[n + 1] = p
  <2>1. Sorted(R, t) \in Seq(S)
    BY <1>7, <1>8, SeqMonotonic
  <2> QED
    BY <1>1, <1>8, <2>1, AppendProperties
<1>10. ASSUME NEW k \in 1..(n + 1) PROVE Sorted(S, u)[k] = Append(Sorted(R, t), p)[k]
  <2>1. CASE k = n + 1
    BY <1>3, <1>6, <1>9, <2>1
  <2>2. CASE k # n + 1
    <3>1. k \in 1..n /\ k - 1 + 1 = k
      BY <1>1, <2>2
    <3>2. PICK q \in R : q = Sorted(R, t)[k] /\ Rank(R, t, q) = k - 1
      BY <1>8, <3>1
    <3>3. q \in S /\ Rank(S, u, q) + 1 = k
      BY <1>5, <1>7, <3>1, <3>2
    <3>4. Sorted(S, u)[k] = q
      BY <1>3, <3>3
    <3> QED
      BY <1>9, <3>1, <3>2, <3>4
  <2> QED
    BY <2>1, <2>2
<1>11. Sorted(S, u) = Append(Sorted(R, t), p)
  <2>1. Sorted(S, u) \in Seq(S) /\ Append(Sorted(R, t), p) \in Seq(S)
        /\ Len(Sorted(S, u)) = Len(Append(Sorted(R, t), p))
        /\ \A k \in 1..Len(Sorted(S, u)) : Sorted(S, u)[k] = Append(Sorted(R, t), p)[k]
    BY <1>3, <1>9, <1>10
  <2> QED
    BY <2>1, SeqEqual
<1> QED
  BY <1>11 DEF R, t

-----------------------------------------------------------------------------
(* The queue of Clock.                                                      *)

\* Under Clock the frames in use come before the free ones, and as long as there
\* is a free one the pointer is at the first of them.
RingInv ==
    /\ algorithm \in Algorithms \cup {"end"}
    /\ new_page # NONE => algorithm = "Clock"
    /\ algorithm = "Clock" =>
         /\ \A f \in Frames : frames[f] = NONE <=> f >= frame_count
         /\ FreeFrames # {} => clock_ptr = frame_count

\* What the proof that the queue is implemented needs of the state.
QueueInv == LruOrder /\ RingInv

\* The frame of the page in place k of the ring.
At(k) == IF FreeFrames = {} THEN (clock_ptr + k - 1) % frame_size ELSE k - 1

\* Every frame in use has one place in the ring.
LEMMA Places ==
    QueueInv /\ algorithm = "Clock" =>
        /\ frame_size \in Nat /\ frame_size >= 1 /\ frame_count \in 0..frame_size
        /\ FreeFrames = {} <=> frame_count = frame_size
        /\ clock_ptr \in Frames
        /\ \A k \in 1..frame_count : At(k) \in Frames /\ frames[At(k)] \in Resident
        /\ \A p \in Resident : \E k \in 1..frame_count : frames[At(k)] = p
<1> SUFFICES ASSUME QueueInv, algorithm = "Clock"
             PROVE  /\ frame_size \in Nat /\ frame_size >= 1 /\ frame_count \in 0..frame_size
                    /\ FreeFrames = {} <=> frame_count = frame_size
                    /\ clock_ptr \in Frames
                    /\ \A k \in 1..frame_count : At(k) \in Frames /\ frames[At(k)] \in Resident
                    /\ \A p \in Resident : \E k \in 1..frame_count : frames[At(k)] = p
  OBVIOUS
<1>1. /\ frame_size \in Nat /\ frame_size >= 1 /\ frame_count \in 0..frame_size
      /\ FreeFrames = {} <=> frame_count = frame_size
      /\ clock_ptr \in Frames
      /\ \A f \in Frames : frames[f] = NONE <=> f >= frame_count
  BY Counted DEF QueueInv, LruOrder, Inv, TypeInv, RingInv
<1>2. ASSUME NEW k \in 1..frame_count PROVE At(k) \in Frames /\ frames[At(k)] \in Resident
  <2>1. At(k) \in Frames
    BY <1>1 DEF At, Frames
  <2>2. frames[At(k)] # NONE
    <3>1. CASE FreeFrames = {}
      BY <2>1, <3>1 DEF FreeFrames
    <3>2. CASE FreeFrames # {}
      <4>1. At(k) = k - 1 /\ ~(k - 1 >= frame_count)
        BY <1>1, <3>2 DEF At
      <4> QED
        BY <1>1, <2>1, <4>1
    <3> QED
      BY <3>1, <3>2
  <2> QED
    BY <2>1, <2>2 DEF Resident
<1>3. ASSUME NEW p \in Resident PROVE \E k \in 1..frame_count : frames[At(k)] = p
  <2>1. PICK f \in Frames : frames[f] = p /\ p # NONE
    BY DEF Resident
  <2>2. CASE FreeFrames = {}
    <3>1. PICK k \in 1..frame_size : f = clock_ptr + k - 1 \/ f + frame_size = clock_ptr + k - 1
      <4>1. f \in Int /\ clock_ptr \in Int /\ 0 <= f /\ f < frame_size
            /\ 0 <= clock_ptr /\ clock_ptr < frame_size
        BY <1>1 DEF Frames
      <4>2. CASE f >= clock_ptr
        <5>1. f - clock_ptr + 1 \in 1..frame_size /\ f = clock_ptr + (f - clock_ptr + 1) - 1
          BY <1>1, <4>1, <4>2
        <5> QED
          BY <5>1
      <4>3. CASE f < clock_ptr
        <5>1. f - clock_ptr + frame_size + 1 \in 1..frame_size
              /\ f + frame_size = clock_ptr + (f - clock_ptr + frame_size + 1) - 1
          BY <1>1, <4>1, <4>3
        <5> QED
          BY <5>1
      <4> QED
        BY <4>1, <4>2, <4>3
    <3>2. clock_ptr + k - 1 \in 0..(2 * frame_size - 1) /\ f \in 0..(frame_size - 1)
      BY <1>1 DEF Frames
    <3>3. (clock_ptr + k - 1) % frame_size = f
      <4>1. (clock_ptr + k - 1) % frame_size =
              IF clock_ptr + k - 1 < frame_size THEN clock_ptr + k - 1
              ELSE clock_ptr + k - 1 - frame_size
        BY <1>1, <3>2, OnceAround
      <4> QED
        BY <1>1, <3>1, <3>2, <4>1
    <3> QED
      BY <1>1, <2>1, <2>2, <3>3 DEF At
  <2>3. CASE FreeFrames # {}
    <3>1. PICK k \in 1..frame_count : k - 1 = f
      <4>1. f + 1 \in 1..frame_count /\ f \in Int
        BY <1>1, <2>1 DEF Frames
      <4> QED
        BY <4>1
    <3>2. At(k) = k - 1
      BY <2>3 DEF At
    <3> QED
      BY <2>1, <3>1, <3>2
  <2> QED
    BY <2>2, <2>3
<1> QED
  BY <1>1, <1>2, <1>3

\* The resident pages with their use bit set.
favoured == {q \in Resident : page_table[q].use_bit}

\* Under Clock the queue is the ring, and its pages are the resident ones.
LEMMA ClockQueue ==
    QueueInv /\ algorithm = "Clock" =>
        /\ Queue = [k \in 1..frame_count |-> frames[At(k)]]
        /\ Queue \in Seq(Pages) /\ Len(Queue) = frame_count /\ DOMAIN Queue = 1..frame_count
        /\ Q!Resident = Resident
        /\ Second = favoured
<1> SUFFICES ASSUME QueueInv, algorithm = "Clock"
             PROVE  /\ Queue = [k \in 1..frame_count |-> frames[At(k)]]
                    /\ Queue \in Seq(Pages) /\ Len(Queue) = frame_count
                    /\ DOMAIN Queue = 1..frame_count
                    /\ Q!Resident = Resident
                    /\ Second = favoured
  OBVIOUS
<1>1. Queue = [k \in 1..frame_count |-> frames[At(k)]]
  BY DEF Queue, Ring, At
<1>2. /\ frame_count \in Nat
      /\ \A k \in 1..frame_count : At(k) \in Frames /\ frames[At(k)] \in Resident
      /\ \A p \in Resident : \E k \in 1..frame_count : frames[At(k)] = p
      /\ Resident \subseteq Pages
  BY Places DEF QueueInv, LruOrder, Inv, TypeInv, Resident
<1>3. Queue \in Seq(Pages) /\ Len(Queue) = frame_count /\ DOMAIN Queue = 1..frame_count
  BY <1>1, <1>2
<1>4. Q!Resident = Resident
  BY <1>1, <1>2, <1>3 DEF Q!Resident
<1> QED
  BY <1>1, <1>3, <1>4 DEF Second, favoured

-----------------------------------------------------------------------------
(* The queue of LRU.                                                        *)

stamps == [p \in Resident |-> stamp(p)]

\* No two resident pages have the same time.
StampsApart == \A p, q \in Resident : stamps[p] = stamps[q] => p = q

\* Under LRU the queue is the resident pages sorted by their times, no two the
\* same.
LEMMA LruQueue ==
    QueueInv /\ algorithm = "LRU" =>
        /\ IsFiniteSet(Resident) /\ Resident \subseteq Pages /\ stamps \in [Resident -> Nat]
        /\ StampsApart
        /\ Queue = Sorted(Resident, stamps) /\ Second = {}
        /\ Queue \in Seq(Pages) /\ Len(Queue) = frame_count /\ DOMAIN Queue = 1..frame_count
        /\ Q!Resident = Resident
<1> SUFFICES ASSUME QueueInv, algorithm = "LRU"
             PROVE  /\ IsFiniteSet(Resident) /\ Resident \subseteq Pages /\ stamps \in [Resident -> Nat]
                    /\ StampsApart
                    /\ Queue = Sorted(Resident, stamps) /\ Second = {}
                    /\ Queue \in Seq(Pages) /\ Len(Queue) = frame_count
                    /\ DOMAIN Queue = 1..frame_count
                    /\ Q!Resident = Resident
  OBVIOUS
<1>1. /\ IsFiniteSet(Resident) /\ Cardinality(Resident) = frame_count /\ frame_count \in Nat
      /\ Resident \subseteq Pages
  BY Counted DEF QueueInv, LruOrder, Inv, TypeInv, Resident
<1>2. \A p \in Resident : stamp(p) \in Nat /\ stamp(p) > 0 /\ access_sequence[stamp(p)] = p
  BY <1>1 DEF QueueInv, LruOrder, LruInv
<1>3. stamps \in [Resident -> Nat] /\ StampsApart
  BY <1>2 DEF stamps, StampsApart
<1>4. /\ Sorted(Resident, stamps) \in Seq(Resident) /\ Len(Sorted(Resident, stamps)) = frame_count
      /\ \A p \in Resident : /\ Rank(Resident, stamps, p) \in 0..(frame_count - 1)
                             /\ Sorted(Resident, stamps)[Rank(Resident, stamps, p) + 1] = p
      /\ \A k \in 1..frame_count :
           /\ Sorted(Resident, stamps)[k] \in Resident
           /\ Rank(Resident, stamps, Sorted(Resident, stamps)[k]) = k - 1
  BY <1>1, <1>3, SortedIs DEF StampsApart
<1>5. \A p \in Resident : Rank(Resident, stamps, p)
          = Cardinality({q \in Resident : page_table[q].access_time < page_table[p].access_time})
  <2> TAKE p \in Resident
  <2>1. Older(Resident, stamps, p)
          = {q \in Resident : page_table[q].access_time < page_table[p].access_time}
    BY DEF Older, stamps, stamp
  <2> QED
    BY <2>1 DEF Rank
<1>6. ASSUME NEW k \in 1..frame_count PROVE ByTime[k] = Sorted(Resident, stamps)[k]
  <2> DEFINE age(p) == Cardinality({q \in Resident :
                         page_table[q].access_time < page_table[p].access_time})
  <2>1. ByTime[k] = CHOOSE p \in Resident : age(p) = k - 1
    BY <1>1 DEF ByTime
  <2>2. \E p \in Resident : age(p) = k - 1
    BY <1>4, <1>5
  <2>3. ByTime[k] \in Resident /\ age(ByTime[k]) = k - 1
    <3> HIDE DEF age
    <3> QED
      BY <2>1, <2>2
  <2>4. Rank(Resident, stamps, ByTime[k]) = k - 1
    BY <1>5, <2>3
  <2>5. k - 1 + 1 = k
    BY <1>1
  <2> QED
    BY <1>4, <2>3, <2>4, <2>5
<1>7. Queue = ByTime /\ Second = {}
  BY DEF Queue, Second
<1>8. ByTime = Sorted(Resident, stamps)
  <2>1. ByTime = [k \in 1..frame_count |-> ByTime[k]]
    <3> DEFINE c(k) == CHOOSE p \in Resident : Cardinality({q \in Resident :
                         page_table[q].access_time < page_table[p].access_time}) = k - 1
    <3>1. ByTime = [k \in 1..Cardinality(Resident) |-> c(k)]
      BY DEF ByTime
    <3> HIDE DEF c
    <3> QED
      BY <1>1, <3>1
  <2>2. Sorted(Resident, stamps) = [k \in 1..frame_count |-> Sorted(Resident, stamps)[k]]
    BY <1>4
  <2> QED
    BY <1>6, <2>1, <2>2
<1>9. Queue \in Seq(Pages)
  BY <1>1, <1>4, <1>7, <1>8, SeqMonotonic
<1>10. DOMAIN Queue = 1..frame_count /\ Len(Queue) = frame_count
  BY <1>4, <1>7, <1>8
<1>11. Q!Resident = Resident
  <2>1. ASSUME NEW p \in Resident PROVE p \in Q!Resident
    <3>1. Rank(Resident, stamps, p) + 1 \in 1..frame_count
      BY <1>1, <1>4
    <3> QED
      BY <1>4, <1>7, <1>8, <1>10, <3>1 DEF Q!Resident
  <2>2. ASSUME NEW p \in Q!Resident PROVE p \in Resident
    BY <1>4, <1>7, <1>8, <1>10 DEF Q!Resident
  <2> QED
    BY <2>1, <2>2
<1> QED
  BY <1>1, <1>3, <1>7, <1>8, <1>9, <1>10, <1>11

-----------------------------------------------------------------------------
(* Steps of the queue.                                                      *)

\* Under Clock the frames are filled in their order.
LEMMA FirstFree ==
    ASSUME QueueInv, algorithm = "Clock", FreeFrames # {}
    PROVE  free_frame = frame_count /\ frame_count \in Frames /\ frame_count < frame_size
<1>1. /\ TypeInv
      /\ \A f \in Frames : frames[f] = NONE <=> f >= frame_count
  BY DEF QueueInv, LruOrder, Inv, RingInv
<1>2. frame_size \in Nat /\ frame_count \in 0..frame_size /\ frame_count # frame_size
  BY Places
<1>3. frame_count \in Frames /\ frame_count \in FreeFrames
  BY <1>1, <1>2 DEF Frames, FreeFrames
<1>4. free_frame \in Frames /\ frames[free_frame] = NONE /\ free_frame <= frame_count
  BY <1>1, <1>3, FreeFrame DEF FreeFrames
<1>5. free_frame >= frame_count
  BY <1>1, <1>4
<1> QED
  BY <1>2, <1>3, <1>4, <1>5 DEF Frames

\* What holds of the ring holds at first.
LEMMA QueueInvInit == Init => QueueInv
<1> SUFFICES ASSUME Init PROVE QueueInv
  OBVIOUS
<1>1. LruOrder
  BY LruOrderInit
<1>2. algorithm = "FIFO" /\ new_page = NONE
  BY DEF Init
<1> QED
  BY <1>1, <1>2 DEF QueueInv, RingInv, Algorithms

\* Every step keeps it.
LEMMA QueueInvStep == QueueInv /\ [Next]_vars => QueueInv'
<1> SUFFICES ASSUME QueueInv, [Next]_vars PROVE QueueInv'
  OBVIOUS
<1>1. LruOrder' /\ Inv /\ TypeInv /\ NONE \notin Pages
  BY LruOrderStep, Numbers DEF QueueInv, LruOrder, Inv
<1>2. /\ algorithm \in Algorithms \cup {"end"}
      /\ new_page # NONE => algorithm = "Clock"
  BY DEF QueueInv, RingInv
<1>3. RingInv'
  <2>1. CASE UNCHANGED vars
    BY <2>1 DEF QueueInv, RingInv, vars, FreeFrames, Frames
  <2>2. CASE NextAlgorithm
    <3>1. /\ algorithm' \in Algorithms \cup {"end"} /\ new_page' = NONE
          /\ frame_count' = 0 /\ clock_ptr' = 0 /\ Frames' = Frames
          /\ frames' = [f \in Frames |-> NONE]
      BY <2>2 DEF NextAlgorithm, init, Running, Successor, Algorithms, Frames
    <3>2. \A f \in Frames' : frames'[f] = NONE /\ f >= frame_count'
      BY <1>1, <3>1, Numbers
    <3> QED
      BY <3>1, <3>2 DEF RingInv
  <2>3. ASSUME NEW p \in Pages, Access(p) PROVE RingInv'
    <3>1. algorithm' = algorithm /\ Frames' = Frames /\ new_page = NONE
      BY <2>3 DEF Access, Hit, Fill, fifo_replace, lru_replace, clock_replace, Replaces, Fault,
                  Accessing, Running, Frames
    <3>2. CASE Hit(p) \/ clock_replace(p)
      <4>1. UNCHANGED <<frames, frame_count, clock_ptr>> /\ FreeFrames' = FreeFrames
            /\ (new_page' # NONE => algorithm = "Clock")
        BY <3>1, <3>2 DEF Hit, clock_replace, FreeFrames
      <4>2. algorithm = "Clock" =>
              /\ \A f \in Frames : frames'[f] = NONE <=> f >= frame_count'
              /\ FreeFrames' # {} => clock_ptr' = frame_count'
        <5>1. algorithm = "Clock" =>
                /\ \A f \in Frames : frames[f] = NONE <=> f >= frame_count
                /\ FreeFrames # {} => clock_ptr = frame_count
          BY DEF QueueInv, RingInv
        <5>2. frames' = frames /\ frame_count' = frame_count /\ clock_ptr' = clock_ptr
          BY <4>1
        <5> QED
          BY <4>1, <5>1, <5>2
      <4>3. algorithm' \in Algorithms \cup {"end"} /\ (new_page' # NONE => algorithm' = "Clock")
        BY <1>2, <3>1, <4>1 DEF Algorithms
      <4> QED
        BY <3>1, <4>2, <4>3 DEF RingInv
    <3>3. CASE Fill(p)
      <4>1. new_page' = NONE
        BY <3>1, <3>3 DEF Fill
      <4>2. CASE algorithm = "Clock"
        <5>1. /\ free_frame = frame_count /\ frame_count \in Frames /\ frame_count < frame_size
              /\ frame_size \in Nat /\ frame_count \in Nat
          BY <3>3, <4>2, FirstFree, Places DEF Fill
        <5>2. /\ frames' = [frames EXCEPT ![frame_count] = p] /\ frame_count' = frame_count + 1
              /\ clock_ptr' = (frame_count + 1) % frame_size
          BY <3>3, <4>2, <5>1 DEF Fill, Take, next_frame
        <5>3. \A f \in Frames : frames'[f] = NONE <=> f >= frame_count'
          <6>1. \A f \in Frames : frames[f] = NONE <=> f >= frame_count
            BY <4>2 DEF QueueInv, RingInv
          <6> QED
            BY <1>1, <5>1, <5>2, <6>1 DEF TypeInv, Frames
        <5>4. FreeFrames' # {} => clock_ptr' = frame_count'
          <6>1. ASSUME NEW f \in Frames, frames'[f] = NONE PROVE clock_ptr' = frame_count'
            <7>1. frame_count + 1 < frame_size
              BY <5>1, <5>2, <5>3, <6>1 DEF Frames
            <7>2. (frame_count + 1) % frame_size = frame_count + 1
              BY <5>1, <7>1
            <7> QED
              BY <5>2, <7>2
          <6> QED
            BY <3>1, <6>1 DEF FreeFrames
        <5> QED
          BY <3>1, <4>1, <4>2, <5>3, <5>4 DEF RingInv, Algorithms
      <4> QED
        BY <1>2, <3>1, <4>1, <4>2 DEF RingInv
    <3>4. CASE fifo_replace(p) \/ lru_replace(p)
      <4>1. new_page' = NONE /\ algorithm # "Clock"
        BY <3>1, <3>4 DEF fifo_replace, lru_replace, Replaces
      <4> QED
        BY <1>2, <3>1, <4>1 DEF RingInv
    <3> QED
      BY <2>3, <3>2, <3>3, <3>4 DEF Access
  <2>4. CASE ClockPass \/ ClockTake
    <3>1. /\ algorithm' = algorithm /\ algorithm = "Clock" /\ Frames' = Frames
          /\ FreeFrames = {} /\ frame_count' = frame_count /\ new_page \in Pages
          /\ new_page' = NONE \/ new_page' = new_page
      BY <1>1, <1>2, <2>4 DEF ClockPass, ClockTake, run, Frames, Inv, ClockInv, TypeInv
    <3>2. \A f \in Frames : frames'[f] # NONE
      BY <1>1, <2>4, <3>1 DEF ClockPass, ClockTake, Take, FreeFrames, TypeInv
    <3>3. \A f \in Frames : ~(f >= frame_count)
      BY <3>1, Places DEF Frames
    <3>4. FreeFrames' = {}
      BY <3>1, <3>2 DEF FreeFrames
    <3> QED
      BY <3>1, <3>2, <3>3, <3>4 DEF RingInv, Algorithms
  <2>5. CASE Finished
    BY <2>1, <2>5 DEF Finished
  <2> QED
    BY <2>1, <2>2, <2>3, <2>4, <2>5 DEF Next
<1> QED
  BY <1>1, <1>3 DEF QueueInv

\* A turn of the ring by one place, in numbers.
LEMMA OnePlaceOn ==
    ASSUME NEW n \in Nat, n >= 1, NEW c \in 0..(n - 1), NEW d \in 0..(n - 1), d = (c + 1) % n
    PROVE  /\ c % n = c /\ (d + n - 1) % n = c
           /\ \A k \in 1..(n - 1) : /\ (d + k - 1) % n = (c + k) % n
                                    /\ (c + k) % n # c
<1>1. d = IF c + 1 = n THEN 0 ELSE c + 1
  <2>1. c + 1 \in 0..(2 * n - 1)
    OBVIOUS
  <2> QED
    BY <2>1, OnceAround
<1>2. c % n = c
  OBVIOUS
<1>3. (d + n - 1) % n = c
  <2>1. d + n - 1 \in 0..(2 * n - 1)
    BY <1>1
  <2>2. (d + n - 1) % n = IF d + n - 1 < n THEN d + n - 1 ELSE d + n - 1 - n
    BY <2>1, OnceAround
  <2> QED
    BY <1>1, <2>2
<1>4. ASSUME NEW k \in 1..(n - 1) PROVE (d + k - 1) % n = (c + k) % n /\ (c + k) % n # c
  <2>1. \A x \in 0..(2 * n - 1) : x % n = IF x < n THEN x ELSE x - n
    BY OnceAround
  <2>2. c + k \in 0..(2 * n - 1) /\ d + k - 1 \in 0..(2 * n - 1)
    BY <1>1
  <2>3. (c + k) % n = IF c + k < n THEN c + k ELSE c + k - n
    <3>1. PICK x \in 0..(2 * n - 1) : x = c + k
      BY <2>2
    <3>2. x % n = IF x < n THEN x ELSE x - n
      BY <2>1
    <3> QED
      BY <3>1, <3>2
  <2>4. (d + k - 1) % n = IF d + k - 1 < n THEN d + k - 1 ELSE d + k - 1 - n
    BY <2>1, <2>2
  <2> QED
    BY <1>1, <2>3, <2>4
<1> QED
  BY <1>2, <1>3, <1>4

\* The pointer goes on and the page it leaves, or the one that took its frame,
\* is the last of the queue.
LEMMA PointerTurns ==
    ASSUME QueueInv, QueueInv', algorithm = "Clock", algorithm' = "Clock",
           FreeFrames = {}, FreeFrames' = {}, UNCHANGED <<frame_size, frame_count>>,
           clock_ptr' = next_frame(clock_ptr), NEW p \in Pages, frames'[clock_ptr] = p,
           \A f \in Frames : f # clock_ptr => frames'[f] = frames[f]
    PROVE  /\ Len(Queue) = frame_size /\ frame_size >= 1 /\ Head(Queue) = pointed
           /\ Queue' = Append(Tail(Queue), p)
<1>1. /\ frame_size \in Nat /\ frame_size >= 1 /\ frame_count = frame_size
      /\ clock_ptr \in 0..(frame_size - 1) /\ Frames = 0..(frame_size - 1)
  BY Places DEF Frames
<1>2. /\ Queue = [k \in 1..frame_size |-> frames[(clock_ptr + k - 1) % frame_size]]
      /\ Queue \in Seq(Pages) /\ Len(Queue) = frame_size
  BY <1>1, ClockQueue DEF At
<1>3. (QueueInv /\ algorithm = "Clock" =>
        /\ Queue = [k \in 1..frame_count |-> frames[At(k)]]
        /\ Queue \in Seq(Pages) /\ Len(Queue) = frame_count)'
  BY ClockQueue, PTL
<1>4. /\ Queue' = [k \in 1..frame_size |-> frames'[(clock_ptr' + k - 1) % frame_size]]
      /\ Queue' \in Seq(Pages) /\ Len(Queue') = frame_size
  BY <1>1, <1>3 DEF At
<1>5. /\ clock_ptr % frame_size = clock_ptr /\ (clock_ptr' + frame_size - 1) % frame_size = clock_ptr
      /\ \A k \in 1..(frame_size - 1) :
           /\ (clock_ptr' + k - 1) % frame_size = (clock_ptr + k) % frame_size
           /\ (clock_ptr + k) % frame_size # clock_ptr
  <2>1. clock_ptr' = (clock_ptr + 1) % frame_size
    BY DEF next_frame
  <2>2. clock_ptr' \in 0..(frame_size - 1)
    BY <1>1, <2>1
  <2> QED
    BY <1>1, <2>1, <2>2, OnePlaceOn
<1>6. Head(Queue) = pointed
  <2>1. Head(Queue) = Queue[1]
    BY <1>1, <1>2
  <2>2. Queue[1] = frames[(clock_ptr + 1 - 1) % frame_size]
    BY <1>1, <1>2
  <2>3. (clock_ptr + 1 - 1) % frame_size = clock_ptr
    BY <1>1, <1>5
  <2> QED
    BY <2>1, <2>2, <2>3 DEF pointed
<1>7. ASSUME NEW k \in 1..(frame_size - 1) PROVE Queue'[k] = Queue[k + 1]
  <2>1. (clock_ptr + k) % frame_size \in Frames /\ clock_ptr + (k + 1) - 1 = clock_ptr + k
    BY <1>1
  <2>2. Queue'[k] = frames'[(clock_ptr + k) % frame_size]
    <3>1. Queue'[k] = frames'[(clock_ptr' + k - 1) % frame_size]
      BY <1>1, <1>4
    <3>2. (clock_ptr' + k - 1) % frame_size = (clock_ptr + k) % frame_size
      BY <1>5
    <3> QED
      BY <3>1, <3>2, Zenon
  <2>3. Queue[k + 1] = frames[(clock_ptr + k) % frame_size]
    BY <1>1, <1>2, <2>1
  <2> QED
    BY <1>5, <2>1, <2>2, <2>3
<1>8. Queue'[frame_size] = p
  BY <1>1, <1>4, <1>5
<1>9. Queue' = Append(Tail(Queue), p)
  <2>1. /\ Queue \in Seq(Pages) /\ Queue' \in Seq(Pages) /\ Len(Queue) > 0
        /\ Len(Queue') = Len(Queue) /\ Queue'[Len(Queue)] = p
    BY <1>1, <1>2, <1>4, <1>8
  <2>2. \A k \in 1..(Len(Queue) - 1) : Queue'[k] = Queue[k + 1]
    <3>1. Len(Queue) - 1 = frame_size - 1
      BY <1>2
    <3> QED
      BY <1>7, <3>1
  <2> QED
    BY <2>1, <2>2, TurnedOnce
<1> QED
  BY <1>1, <1>2, <1>6, <1>9

\* Under Clock an access sets the use bit of its page: the page gets a second
\* chance, and the one whose frame it takes had none.
LEMMA ClockSecond ==
    ASSUME QueueInv, QueueInv', algorithm = "Clock", algorithm' = "Clock", UNCHANGED frame_size,
           NEW p \in Pages, NEW f \in Frames, ~page_table[p].valid, Take(p, f),
           frames[f] \in Pages => ~page_table[frames[f]].use_bit
    PROVE  Second' = Second \cup {p} /\ p \notin Resident
<1>1. /\ Inv /\ page_table \in [Pages -> TableEntry] /\ Resident \subseteq Pages
      /\ Resident' \subseteq Pages
  <2>1. Inv /\ Inv' /\ Frames' = Frames
    BY DEF QueueInv, LruOrder, Frames
  <2> QED
    BY <2>1 DEF Inv, TypeInv, Resident
<1>2. p \notin Resident /\ Resident' = (Resident \ {frames[f]}) \cup {p}
  BY <1>1, TakenResident
<1>3. page_table'[p].use_bit
  BY DEF Take, Loaded
<1>4. ASSUME NEW q \in Pages, q # p PROVE page_table'[q].use_bit = page_table[q].use_bit
  <2>1. page_table[q] \in TableEntry
    BY <1>1
  <2>2. [page_table[q] EXCEPT !.valid = FALSE, !.frame_num = NONE].use_bit = page_table[q].use_bit
    BY <2>1 DEF TableEntry
  <2> QED
    BY <1>4, <2>2 DEF Take
<1>5. Second = {q \in Resident : page_table[q].use_bit}
  BY ClockQueue DEF favoured
<1>6. (QueueInv /\ algorithm = "Clock" => Second = favoured)'
  BY ClockQueue, PTL
<1>7. Second' = {q \in Resident' : page_table'[q].use_bit}
  BY <1>6 DEF favoured
<1>8. ASSUME NEW q \in Pages PROVE q \in Second' <=> q \in Second \cup {p}
  <2>1. CASE q = p
    BY <1>2, <1>3, <1>7, <2>1
  <2>2. CASE q # p
    <3>1. q \in Second' <=> q \in Resident /\ q # frames[f] /\ page_table[q].use_bit
      BY <1>2, <1>4, <1>7, <2>2
    <3>2. q = frames[f] => ~page_table[q].use_bit
      OBVIOUS
    <3> QED
      BY <1>5, <2>2, <3>1, <3>2
  <2> QED
    BY <2>1, <2>2
<1>9. Second' \subseteq Pages /\ Second \subseteq Pages
  BY <1>1, <1>5, <1>7
<1> QED
  BY <1>2, <1>8, <1>9

\* A hit under Clock leaves the queue and gives its page a second chance.
LEMMA ClockHit ==
    ASSUME QueueInv, QueueInv', algorithm = "Clock", NEW p \in Pages, Hit(p)
    PROVE  Q!AccessFavoured(p)
<1>1. /\ algorithm' = "Clock" /\ page_table[p].valid
      /\ UNCHANGED <<algorithm, frame_size, frames, frame_count, clock_ptr>>
      /\ Frames' = Frames /\ FreeFrames' = FreeFrames /\ Resident' = Resident
  BY DEF Hit, Accessing, Frames, FreeFrames, Resident
<1>2. /\ page_table \in [Pages -> TableEntry] /\ Resident \subseteq Pages
      /\ p \in Resident
  BY <1>1 DEF QueueInv, LruOrder, Inv, TypeInv, TablesAgree, Resident
<1>3. /\ Queue = [k \in 1..frame_count |-> frames[At(k)]] /\ Q!Resident = Resident
      /\ Second = favoured
  BY ClockQueue
<1>4. (QueueInv /\ algorithm = "Clock" =>
        /\ Queue = [k \in 1..frame_count |-> frames[At(k)]]
        /\ Second = favoured)'
  BY ClockQueue, PTL
<1>5. Queue' = Queue
  BY <1>1, <1>3, <1>4 DEF At
<1>6. page_table'[p].use_bit /\ \A q \in Pages : q # p => page_table'[q].use_bit = page_table[q].use_bit
  <2>1. page_table[p] \in TableEntry
    BY <1>2
  <2> QED
    BY <1>2, <2>1 DEF Hit, TableEntry
<1>7. Second' = Second \cup {p}
  BY <1>1, <1>2, <1>3, <1>4, <1>6 DEF favoured
<1> QED
  BY <1>1, <1>2, <1>3, <1>5, <1>7 DEF Q!AccessFavoured

\* A fault under Clock with a free frame appends its page.
LEMMA ClockFill ==
    ASSUME QueueInv, QueueInv', algorithm = "Clock", NEW p \in Pages, Fill(p)
    PROVE  Q!Load(p)
<1>1. /\ FreeFrames # {} /\ algorithm' = "Clock" /\ Take(p, free_frame)
      /\ UNCHANGED <<algorithm, frame_size>> /\ ~page_table[p].valid
      /\ frame_count' = frame_count + 1 /\ clock_ptr' = next_frame(free_frame)
  BY DEF Fill, Fault, Accessing
<1>2. free_frame = frame_count /\ frame_count \in Frames /\ frame_count < frame_size
  BY <1>1, FirstFree
<1>3. /\ frame_size \in Nat /\ frame_count \in Nat /\ Frames = 0..(frame_size - 1)
      /\ frames \in [Frames -> Pages \cup {NONE}] /\ frames[frame_count] = NONE
      /\ NONE \notin Pages
  BY <1>2, Places, Numbers DEF QueueInv, LruOrder, Inv, TypeInv, RingInv, Frames
<1>4. Second' = Second \cup {p} /\ p \notin Resident
  BY <1>1, <1>2, <1>3, ClockSecond
<1>5. /\ Queue = [k \in 1..frame_count |-> frames[At(k)]]
      /\ Queue \in Seq(Pages) /\ Len(Queue) = frame_count /\ Q!Resident = Resident
  BY ClockQueue
<1>6. (QueueInv /\ algorithm = "Clock" =>
        /\ Queue = [k \in 1..frame_count |-> frames[At(k)]]
        /\ Queue \in Seq(Pages) /\ Len(Queue) = frame_count)'
  BY ClockQueue, PTL
<1>7. (QueueInv /\ algorithm = "Clock" => (FreeFrames = {} <=> frame_count = frame_size))'
  BY Places, PTL
<1>8. \A k \in 1..frame_count' : At(k)' = k - 1
  <2> TAKE k \in 1..frame_count'
  <2>1. CASE FreeFrames' = {}
    <3>1. clock_ptr' = frame_size % frame_size
      BY <1>1, <1>2, <1>7, <2>1 DEF next_frame
    <3>2. clock_ptr' = 0
      BY <1>2, <1>3, <3>1
    <3>3. (0 + k - 1) % frame_size = k - 1
      BY <1>1, <1>2, <1>3
    <3> QED
      BY <1>1, <2>1, <3>2, <3>3 DEF At
  <2>2. CASE FreeFrames' # {}
    BY <2>2 DEF At
  <2> QED
    BY <2>1, <2>2
<1>9. \A k \in 1..frame_count : At(k) = k - 1
  BY <1>1 DEF At
<1>10. frames' = [frames EXCEPT ![frame_count] = p]
  BY <1>1, <1>2 DEF Take
<1>11. Queue' = Append(Queue, p)
  <2>1. /\ Queue' \in Seq(Pages) /\ Len(Queue') = frame_count + 1
        /\ \A k \in 1..(frame_count + 1) : Queue'[k] = frames'[k - 1]
    BY <1>1, <1>6, <1>8
  <2>2. \A k \in 1..frame_count : Queue[k] = frames[k - 1]
    BY <1>5, <1>9
  <2>3. /\ Append(Queue, p) \in Seq(Pages) /\ Len(Append(Queue, p)) = frame_count + 1
        /\ \A k \in 1..frame_count : Append(Queue, p)[k] = Queue[k]
        /\ Append(Queue, p)[frame_count + 1] = p
    BY <1>3, <1>5, AppendProperties
  <2>4. \A k \in 1..(frame_count + 1) : Queue'[k] = Append(Queue, p)[k]
    <3> TAKE k \in 1..(frame_count + 1)
    <3>1. CASE k = frame_count + 1
      BY <1>2, <1>3, <1>10, <2>1, <2>3, <3>1
    <3>2. CASE k # frame_count + 1
      <4>1. k \in 1..frame_count /\ k - 1 \in Frames /\ k - 1 # frame_count
        BY <1>2, <1>3, <3>2
      <4>2. frames'[k - 1] = frames[k - 1]
        BY <1>3, <1>10, <4>1
      <4> QED
        BY <2>1, <2>2, <2>3, <4>1, <4>2
    <3> QED
      BY <3>1, <3>2
  <2> QED
    BY <2>1, <2>3, <2>4, SeqEqual
<1> QED
  BY <1>1, <1>2, <1>3, <1>4, <1>5, <1>11 DEF Q!Load, Q!IsFull, Q!Favoured

\* A turn of the loop sends the head, which had a second chance, to the tail.
LEMMA ClockSpares ==
    ASSUME QueueInv, QueueInv', ClockPass
    PROVE  Q!Spare
<1>1. /\ new_page # NONE /\ page_table[pointed].use_bit
      /\ page_table' = [page_table EXCEPT ![pointed].use_bit = FALSE]
      /\ clock_ptr' = next_frame(clock_ptr)
      /\ UNCHANGED <<algorithm, frame_size, frames, frame_count>>
  BY DEF ClockPass, run
<1>2. /\ algorithm = "Clock" /\ FreeFrames = {} /\ clock_ptr \in Frames
      /\ frames \in [Frames -> Pages \cup {NONE}] /\ page_table \in [Pages -> TableEntry]
  BY <1>1 DEF QueueInv, LruOrder, Inv, TypeInv, ClockInv, RingInv
<1>3. Frames' = Frames /\ FreeFrames' = FreeFrames /\ Resident' = Resident /\ algorithm' = "Clock"
  BY <1>1, <1>2 DEF Frames, FreeFrames, Resident
<1>4. pointed \in Pages /\ pointed \in Resident /\ frames'[clock_ptr] = pointed
  BY <1>1, <1>2 DEF pointed, FreeFrames, Resident
<1>5. Len(Queue) = frame_size /\ Head(Queue) = pointed /\ Queue' = Append(Tail(Queue), pointed)
  BY <1>1, <1>2, <1>3, <1>4, PointerTurns
<1>6. Second = favoured /\ Resident \subseteq Pages
  BY <1>2, ClockQueue DEF Resident
<1>7. (QueueInv /\ algorithm = "Clock" => Second = favoured)'
  BY ClockQueue, PTL
<1>8. ~page_table'[pointed].use_bit
      /\ \A q \in Pages : q # pointed => page_table'[q].use_bit = page_table[q].use_bit
  <2>1. page_table[pointed] \in TableEntry
    BY <1>2, <1>4
  <2> QED
    BY <1>1, <1>2, <1>4, <2>1 DEF TableEntry
<1>9. pointed \in Second /\ Second' = Second \ {pointed}
  BY <1>1, <1>3, <1>4, <1>6, <1>7, <1>8 DEF favoured
<1> QED
  BY <1>1, <1>5, <1>9 DEF Q!Spare, Q!IsFull

\* The last turn lets the head go and appends the new page.
LEMMA ClockReplaces ==
    ASSUME QueueInv, QueueInv', ClockTake
    PROVE  Q!Replace(new_page) /\ new_page \in Pages
<1>1. /\ new_page # NONE /\ ~page_table[pointed].use_bit /\ Take(new_page, clock_ptr)
      /\ clock_ptr' = next_frame(clock_ptr)
      /\ UNCHANGED <<algorithm, frame_size, frame_count>>
  BY DEF ClockTake, run
<1>2. /\ algorithm = "Clock" /\ algorithm' = "Clock" /\ FreeFrames = {} /\ clock_ptr \in Frames
      /\ frames \in [Frames -> Pages \cup {NONE}] /\ page_table \in [Pages -> TableEntry]
      /\ new_page \in Pages /\ ~page_table[new_page].valid /\ Inv
  BY <1>1 DEF QueueInv, LruOrder, Inv, TypeInv, ClockInv, RingInv
<1>3. Frames' = Frames /\ FreeFrames' = {}
  <2>1. FreeFrames' = FreeFrames \ {clock_ptr}
    BY <1>1, <1>2, TakenResident
  <2> QED
    BY <1>1, <1>2, <2>1 DEF Frames
<1>4. frames'[clock_ptr] = new_page /\ \A f \in Frames : f # clock_ptr => frames'[f] = frames[f]
  BY <1>1, <1>2 DEF Take
<1>5. Len(Queue) = frame_size /\ Head(Queue) = pointed /\ Queue' = Append(Tail(Queue), new_page)
  BY <1>1, <1>2, <1>3, <1>4, PointerTurns
<1>6. Second' = Second \cup {new_page} /\ new_page \notin Resident
  BY <1>1, <1>2, ClockSecond DEF pointed
<1>7. Second = favoured /\ Q!Resident = Resident
  BY <1>2, ClockQueue
<1> QED
  BY <1>1, <1>2, <1>5, <1>6, <1>7 DEF Q!Replace, Q!IsFull, Q!Favoured, favoured

\* Under LRU the page accessed goes to the tail of the rest.
LEMMA LruSorted ==
    ASSUME QueueInv, QueueInv', algorithm = "LRU", algorithm' = "LRU", NEW p \in Pages,
           current_time' = current_time + 1, page_table'[p].access_time = current_time',
           \A q \in Pages : q # p => page_table'[q].access_time = stamp(q),
           NEW rest, rest \subseteq Resident \ {p}, Resident' = rest \cup {p}
    PROVE  /\ IsFiniteSet(rest)
           /\ Queue' = Append(Sorted(rest, [q \in rest |-> stamps[q]]), p)
           /\ Second = {} /\ Second' = {}
<1>1. /\ IsFiniteSet(Resident) /\ Resident \subseteq Pages /\ stamps \in [Resident -> Nat]
      /\ StampsApart
      /\ Second = {}
  BY LruQueue
<1>2. (QueueInv /\ algorithm = "LRU" =>
        /\ IsFiniteSet(Resident) /\ stamps \in [Resident -> Nat]
        /\ StampsApart
        /\ Queue = Sorted(Resident, stamps) /\ Second = {})'
  BY LruQueue, PTL
<1>3. /\ IsFiniteSet(Resident') /\ stamps' \in [Resident' -> Nat]
      /\ \A q, r \in Resident' : stamps'[q] = stamps'[r] => q = r
      /\ Queue' = Sorted(Resident', stamps') /\ Second' = {}
  BY <1>2 DEF StampsApart
<1>4. p \in Resident' /\ rest = Resident' \ {p}
  OBVIOUS
<1>5. \A q \in rest : stamps'[q] = stamps[q] /\ stamps[q] < current_time'
  <2>1. current_time \in Nat /\ \A q \in Pages : stamp(q) \in 0..current_time
    BY DEF QueueInv, LruOrder, Inv, TypeInv, LruInv
  <2>2. \A q \in rest : stamps'[q] = stamp(q) /\ stamps[q] = stamp(q) /\ q \in Pages
    BY <1>1, <1>4 DEF stamps, stamp
  <2> QED
    BY <2>1, <2>2
<1>6. stamps'[p] = current_time'
  BY <1>4 DEF stamps, stamp
<1>7. Sorted(Resident', stamps') = Append(Sorted(rest, [q \in rest |-> stamps'[q]]), p)
  <2>1. PICK S, u : S = Resident' /\ u = stamps'
    OBVIOUS
  <2>2. /\ IsFiniteSet(S) /\ u \in [S -> Nat]
        /\ \A q, r \in S : u[q] = u[r] => q = r
    BY <1>3, <2>1, Zenon
  <2>3. p \in S /\ rest = S \ {p}
    BY <1>4, <2>1, Zenon
  <2>4. \A q \in S \ {p} : u[q] < u[p]
    BY <1>5, <1>6, <2>1, <2>3
  <2>5. PICK s : s = Sorted(S \ {p}, [q \in S \ {p} |-> u[q]]) /\ Sorted(S, u) = Append(s, p)
    <3>1. p \in S
      BY <2>3
    <3> QED
      BY <2>2, <2>4, <3>1, SortedWith
  <2>6. s = Sorted(rest, [q \in rest |-> u[q]])
    BY <2>3, <2>5, Zenon
  <2> QED
    BY <2>1, <2>5, <2>6, Zenon
<1>8. [q \in rest |-> stamps'[q]] = [q \in rest |-> stamps[q]]
  BY <1>5
<1>9. IsFiniteSet(rest)
  <2>1. rest \in SUBSET Resident
    OBVIOUS
  <2> QED
    BY <1>1, <2>1, FS_Subset
<1> QED
  BY <1>1, <1>3, <1>7, <1>8, <1>9

\* A page that is accessed has the time of the access in the page table.
LEMMA LruHit ==
    ASSUME QueueInv, QueueInv', algorithm = "LRU", NEW p \in Pages, Hit(p)
    PROVE  Q!AccessRecent(p)
<1>1. /\ algorithm' = "LRU" /\ page_table[p].valid /\ current_time' = current_time + 1
      /\ UNCHANGED <<algorithm, frame_size>> /\ Resident' = Resident
  BY DEF Hit, Accessing, Frames, Resident
<1>2. page_table \in [Pages -> TableEntry] /\ p \in Resident
  BY <1>1 DEF QueueInv, LruOrder, Inv, TypeInv, TablesAgree
<1>3. /\ page_table'[p].access_time = current_time'
      /\ \A q \in Pages : q # p => page_table'[q].access_time = stamp(q)
  <2>1. page_table[p] \in TableEntry
    BY <1>2
  <2> QED
    BY <1>2, <2>1 DEF Hit, TableEntry, stamp
<1>4. /\ IsFiniteSet(Resident) /\ stamps \in [Resident -> Nat]
      /\ StampsApart
      /\ Queue = Sorted(Resident, stamps)
      /\ Len(Queue) = frame_count /\ DOMAIN Queue = 1..frame_count
  BY LruQueue
<1> DEFINE rest == Resident \ {p}
<1>5. /\ Queue' = Append(Sorted(rest, [q \in rest |-> stamps[q]]), p)
      /\ Second = {} /\ Second' = {}
  <2>1. rest \subseteq Resident \ {p} /\ Resident' = rest \cup {p}
    BY <1>1, <1>2
  <2> HIDE DEF rest
  <2> QED
    BY <1>1, <1>3, <2>1, LruSorted
<1>6. Sorted(rest, [q \in rest |-> stamps[q]])
        = Q!RemoveAt(Sorted(Resident, stamps), Rank(Resident, stamps, p) + 1)
  BY <1>2, <1>4, SortedWithout DEF StampsApart
<1>7. PICK k \in DOMAIN Queue : k = Rank(Resident, stamps, p) + 1 /\ Queue[k] = p
  <2>1. Rank(Resident, stamps, p) \in 0..(frame_count - 1) /\ frame_count \in Nat
        /\ Sorted(Resident, stamps)[Rank(Resident, stamps, p) + 1] = p
    <3>1. Cardinality(Resident) = frame_count
      BY Counted DEF QueueInv, LruOrder
    <3> QED
      BY <1>2, <1>4, <3>1, SortedIs DEF StampsApart
  <2>2. Rank(Resident, stamps, p) + 1 \in 1..frame_count
    BY <2>1
  <2> QED
    BY <1>4, <2>1, <2>2
<1>8. Queue' = Append(Q!RemoveAt(Queue, k), p)
  BY <1>4, <1>5, <1>6, <1>7
<1> QED
  BY <1>1, <1>5, <1>7, <1>8 DEF Q!AccessRecent

\* A fault under LRU with a free frame appends its page.
LEMMA LruFill ==
    ASSUME QueueInv, QueueInv', algorithm = "LRU", NEW p \in Pages, Fill(p)
    PROVE  Q!Load(p)
<1>1. /\ FreeFrames # {} /\ algorithm' = "LRU" /\ Take(p, free_frame)
      /\ UNCHANGED <<algorithm, frame_size>> /\ ~page_table[p].valid
      /\ current_time' = current_time + 1
  BY DEF Fill, Fault, Accessing
<1>2. /\ Inv /\ free_frame \in Frames /\ frames[free_frame] = NONE
      /\ NONE \notin Resident
  BY <1>1, FreeFrame DEF QueueInv, LruOrder, Inv, FreeFrames, Resident
<1>3. p \notin Resident /\ Resident' = Resident \cup {p}
  <2>1. p \notin Resident /\ Resident' = (Resident \ {frames[free_frame]}) \cup {p}
    BY <1>1, <1>2, TakenResident
  <2> QED
    BY <1>2, <2>1
<1>4. /\ page_table'[p].access_time = current_time'
      /\ \A q \in Pages : q # p => page_table'[q].access_time = stamp(q)
  BY <1>1, <1>2, TakenStamps
<1>5. /\ stamps \in [Resident -> Nat] /\ Queue = Sorted(Resident, stamps)
      /\ Len(Queue) = frame_count /\ Q!Resident = Resident
  BY LruQueue
<1>6. frame_count # frame_size
  BY <1>1, <1>2, Counted
<1>7. /\ Queue' = Append(Sorted(Resident, [q \in Resident |-> stamps[q]]), p)
      /\ Second = {} /\ Second' = {}
  <2>1. Resident \subseteq Resident \ {p}
    BY <1>3
  <2> QED
    BY <1>1, <1>3, <1>4, <2>1, LruSorted
<1>8. stamps = [q \in Resident |-> stamps[q]]
  BY <1>5
<1> QED
  BY <1>1, <1>3, <1>5, <1>6, <1>7, <1>8 DEF Q!Load, Q!IsFull, Q!Favoured

\* The frame with the least time is that of the head.
LEMMA LruReplaces ==
    ASSUME QueueInv, QueueInv', algorithm = "LRU", NEW p \in Pages, lru_replace(p)
    PROVE  Q!Replace(p)
<1>1. /\ FreeFrames = {} /\ algorithm' = "LRU" /\ Take(p, lru_frame)
      /\ UNCHANGED <<algorithm, frame_size>> /\ ~page_table[p].valid
      /\ current_time' = current_time + 1
  BY DEF lru_replace, Replaces, Fault, Accessing
<1> DEFINE victim == frames[lru_frame]
           rest == Resident \ {victim}
<1>2. /\ Inv /\ lru_frame \in Frames /\ \A g \in Frames : time(lru_frame) <= time(g)
      /\ victim \in Resident
  BY <1>1, LruFrame DEF QueueInv, LruOrder, Inv, FreeFrames, Resident
<1>3. p \notin Resident /\ Resident' = rest \cup {p}
  BY <1>1, <1>2, TakenResident
<1>4. /\ page_table'[p].access_time = current_time'
      /\ \A q \in Pages : q # p => page_table'[q].access_time = stamp(q)
  BY <1>1, <1>2, TakenStamps
<1>5. /\ IsFiniteSet(Resident) /\ Resident \subseteq Pages /\ stamps \in [Resident -> Nat]
      /\ StampsApart
      /\ Queue = Sorted(Resident, stamps) /\ Queue \in Seq(Pages)
      /\ Len(Queue) = frame_count /\ Q!Resident = Resident
  BY LruQueue
<1>6. frame_count = frame_size /\ frame_size >= 1 /\ frame_size \in Nat
  BY <1>1, <1>2, Counted
<1>7. Rank(Resident, stamps, victim) = 0
  <2>1. ASSUME NEW q \in Resident PROVE ~(stamps[q] < stamps[victim])
    <3>1. PICK g \in Frames : frames[g] = q
      BY DEF Resident
    <3>2. stamps[victim] = time(lru_frame) /\ stamps[q] = time(g)
      BY <1>2, <3>1 DEF stamps, stamp, time
    <3>3. stamps[q] \in Nat /\ stamps[victim] \in Nat
      BY <1>2, <1>5
    <3> QED
      BY <1>2, <3>2, <3>3
  <2>2. Older(Resident, stamps, victim) = {}
    BY <2>1 DEF Older
  <2> QED
    BY <2>2, FS_EmptySet DEF Rank
<1> HIDE DEF victim
<1>8. Sorted(rest, [q \in rest |-> stamps[q]]) = Tail(Queue)
  <2>1. Sorted(rest, [q \in rest |-> stamps[q]])
          = Q!RemoveAt(Sorted(Resident, stamps), Rank(Resident, stamps, victim) + 1)
    BY <1>2, <1>5, SortedWithout DEF StampsApart
  <2>2. Q!RemoveAt(Queue, 1) = Tail(Queue)
    BY <1>5, <1>6, WithoutFirst
  <2>3. Rank(Resident, stamps, victim) + 1 = 1
    BY <1>7
  <2> QED
    BY <1>5, <2>1, <2>2, <2>3
<1>9. /\ Queue' = Append(Sorted(rest, [q \in rest |-> stamps[q]]), p)
      /\ Second = {} /\ Second' = {}
  <2>1. rest \subseteq Resident \ {p}
    BY <1>3
  <2> HIDE DEF rest
  <2> QED
    BY <1>1, <1>3, <1>4, <2>1, LruSorted
<1> QED
  BY <1>1, <1>3, <1>5, <1>6, <1>8, <1>9 DEF Q!Replace, Q!IsFull, Q!Favoured

\* Before LRU and after Clock there is no queue.
LEMMA NoQueue == algorithm \notin {"LRU", "Clock"} => Queue = <<>> /\ Second = {}
  BY DEF Queue, Second

\* The next algorithm starts with an empty queue.
LEMMA Switches ==
    ASSUME QueueInv, QueueInv', NextAlgorithm
    PROVE  Q!Switch
<1>1. /\ algorithm' # algorithm /\ frame_count' = 0 /\ frame_size' = frame_size
  BY DEF NextAlgorithm, init, Running, Successor, Algorithms
<1>2. Resident' = {}
  <2>1. frames' = [f \in Frames |-> NONE] /\ Frames' = Frames
    BY DEF NextAlgorithm, init, Frames
  <2> QED
    BY <2>1 DEF Resident
<1>3. (algorithm \notin {"LRU", "Clock"} => Queue = <<>> /\ Second = {})'
  BY NoQueue, PTL
<1>4. (QueueInv /\ algorithm = "LRU" =>
        Queue \in Seq(Pages) /\ Len(Queue) = frame_count /\ Second = {})'
  BY LruQueue, PTL
<1>5. (QueueInv /\ algorithm = "Clock" =>
        Queue \in Seq(Pages) /\ Len(Queue) = frame_count /\ Second = favoured)'
  BY ClockQueue, PTL
<1>6. favoured' = {}
  BY <1>2 DEF favoured
<1>7. Queue' = <<>> /\ Second' = {}
  <2>1. CASE algorithm' \notin {"LRU", "Clock"}
    BY <1>3, <2>1
  <2>2. CASE algorithm' \in {"LRU", "Clock"}
    <3>1. Queue' \in Seq(Pages) /\ Len(Queue') = 0 /\ Second' = {}
      BY <1>1, <1>4, <1>5, <1>6, <2>2
    <3> QED
      BY <3>1
  <2> QED
    BY <2>1, <2>2
<1> QED
  BY <1>1, <1>7 DEF Q!Switch

\* What the queue is made of does not change in a step that turns to no frame.
LEMMA QueueStays ==
    ASSUME UNCHANGED <<algorithm, frame_size, frame_count, frames, page_table, clock_ptr>>
    PROVE  UNCHANGED Q!qvars
<1>1. Frames' = Frames /\ FreeFrames' = FreeFrames /\ Resident' = Resident
  BY DEF Frames, FreeFrames, Resident
<1>2. ByTime' = ByTime
  BY <1>1 DEF ByTime
<1>3. Ring' = Ring
  BY <1>1 DEF Ring
<1> QED
  BY <1>1, <1>2, <1>3 DEF Q!qvars, Queue, Second

\* An access is a step of the queue, or the beginning of clock_replace, or FIFO.
LEMMA AccessImplements ==
    ASSUME QueueInv, QueueInv', NEW p \in Pages, Access(p)
    PROVE  Q!QNext \/ UNCHANGED Q!qvars
<1>1. algorithm \in Algorithms /\ algorithm' = algorithm /\ frame_size' = frame_size
  BY DEF Access, Hit, Fill, fifo_replace, lru_replace, clock_replace, Replaces, Fault, Accessing,
         Running
<1>2. CASE algorithm = "FIFO"
  <2>1. (algorithm \notin {"LRU", "Clock"} => Queue = <<>> /\ Second = {})'
    BY NoQueue, PTL
  <2> QED
    BY <1>1, <1>2, <2>1, NoQueue DEF Q!qvars
<1>3. CASE algorithm = "LRU"
  <2>1. Hit(p) \/ Fill(p) \/ lru_replace(p)
    BY <1>3 DEF Access, fifo_replace, clock_replace, Replaces
  <2> QED
    BY <1>3, <2>1, LruHit, LruFill, LruReplaces DEF Q!QNext
<1>4. CASE algorithm = "Clock"
  <2>1. Hit(p) \/ Fill(p) \/ clock_replace(p)
    BY <1>4 DEF Access, fifo_replace, lru_replace, Replaces
  <2>2. CASE clock_replace(p)
    BY <1>1, <2>2, QueueStays DEF clock_replace
  <2> QED
    BY <1>4, <2>1, <2>2, ClockHit, ClockFill DEF Q!QNext
<1> QED
  BY <1>1, <1>2, <1>3, <1>4 DEF Algorithms

\* LRU (L128-L201) and Clock (L206-L285) implement the queue each is named for,
\* for any pages, frames and accesses: every step of the simulator is a step of
\* the queue or changes nothing in it.
THEOREM QueueImplemented == Spec => ImplementsQueue
<1>1. Init => Q!QInit
  <2> SUFFICES ASSUME Init PROVE Q!QInit
    OBVIOUS
  <2>1. algorithm = "FIFO" /\ frame_size \in Nat \ {0}
    BY FramesAssumption DEF Init
  <2> QED
    BY <2>1, NoQueue DEF Q!QInit
<1>2. QueueInv /\ QueueInv' /\ [Next]_vars => [Q!QNext]_(Q!qvars)
  <2> SUFFICES ASSUME QueueInv, QueueInv', [Next]_vars PROVE Q!QNext \/ UNCHANGED Q!qvars
    OBVIOUS
  <2>1. CASE UNCHANGED vars
    BY <2>1, QueueStays DEF vars
  <2>2. CASE NextAlgorithm
    BY <2>2, Switches DEF Q!QNext
  <2>3. CASE \E p \in Pages : Access(p)
    BY <2>3, AccessImplements
  <2>4. CASE ClockPass
    BY <2>4, ClockSpares DEF Q!QNext
  <2>5. CASE ClockTake
    BY <2>5, ClockReplaces DEF Q!QNext
  <2>6. CASE Finished
    BY <2>1, <2>6 DEF Finished
  <2> QED
    BY <2>1, <2>2, <2>3, <2>4, <2>5, <2>6 DEF Next
<1> QED
  BY <1>1, <1>2, QueueInvInit, QueueInvStep, PTL DEF Spec, ImplementsQueue, Q!QSpec
=============================================================================
