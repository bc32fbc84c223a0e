-------------------------- MODULE PipeWritersProofs --------------------------
(***************************************************************************)
(* What the two writers and the reader get, for any number of characters   *)
(* and any pipe that holds them.                                           *)
(***************************************************************************)
EXTENDS PipeWriters, FiniteSetTheorems, SequenceTheorems, TLAPS

ParentPlaces == {"fork 1", "fork 2", "close", "wait 1", "wait 2", "read", "print", "end"}
ChildPlaces == {"unborn", "born", "lock", "write", "close", "zombie", "reaped"}

TypeInv ==
    /\ parent \in ParentPlaces
    /\ child \in [Children -> ChildPlaces]
    /\ written \in [Children -> 0..WRITES]
    /\ pipe \in Seq(Children) /\ InPipe \in Seq(Children)

\* Where a child is says what it has written, and where the parent is says
\* where the children are.
PlaceInv ==
    /\ \A c \in Children : child[c] \in {"unborn", "born", "lock"} => written[c] = 0
    /\ \A c \in Children : child[c] \in {"close", "zombie", "reaped"} => written[c] = WRITES
    /\ parent = "fork 1" => child[1] = "unborn"
    /\ parent \in {"fork 1", "fork 2"} => child[2] = "unborn"
    /\ parent = "wait 2" => \E c \in Children : child[c] = "reaped"
    /\ parent \in {"read", "print", "end"} => \A c \in Children : child[c] = "reaped"

\* The parent keeps its end for reading, and who writes holds the lock.
HoldInv ==
    /\ parent # "end" => Parent \in readers
    /\ locking => \A c \in Children : child[c] = "write" => locked = c

Other(c) == 3 - c
Of(s, c) == {k \in DOMAIN s : s[k] = c}

\* First all of one child, then what the other has written so far.
TwoRuns(s) ==
    \E c \in Children :
        /\ \A k \in DOMAIN s : s[k] = IF k <= written[c] THEN c ELSE Other(c)
        /\ written[Other(c)] > 0 => written[c] = WRITES

\* The sequence is what both have written.
Holds(s) ==
    /\ Len(s) = written[1] + written[2]
    /\ \A c \in Children : Cardinality(Of(s, c)) = written[c]
    /\ locking => TwoRuns(s)

DataInv ==
    IF parent \in {"print", "end"} THEN pipe = <<>> /\ Holds(InPipe)
    ELSE Holds(pipe) /\ InPipe = <<>>

Inv == TypeInv /\ PlaceInv /\ HoldInv /\ DataInv

-----------------------------------------------------------------------------
(* Sequences of writers.                                                    *)

\* One more character leaves a sequence of characters.
LEMMA AppendType ==
    ASSUME NEW S, NEW s \in Seq(S), NEW c \in S
    PROVE  Append(s, c) \in Seq(S)
  OBVIOUS

\* The empty sequence.
LEMMA Nothing == <<>> \in Seq(Children) /\ Len(<<>>) = 0 /\ DOMAIN <<>> = {}
  BY EmptySeq

\* The places of one writer can be counted.
LEMMA OfFinite ==
    ASSUME NEW s \in Seq(Children), NEW c
    PROVE  IsFiniteSet(Of(s, c)) /\ Of(s, c) \subseteq 1..Len(s)
<1>1. DOMAIN s = 1..Len(s) /\ Len(s) \in Nat
  BY LenProperties
<1>2. Of(s, c) \in SUBSET (1..Len(s))
  BY <1>1 DEF Of
<1>3. IsFiniteSet(1..Len(s))
  BY <1>1, FS_Interval
<1> QED
  BY <1>2, <1>3, FS_Subset

\* One more character is one more of its writer.
LEMMA OfAppend ==
    ASSUME NEW s \in Seq(Children), NEW c \in Children, NEW d \in Children
    PROVE  Cardinality(Of(Append(s, c), d))
             = IF d = c THEN Cardinality(Of(s, d)) + 1 ELSE Cardinality(Of(s, d))
<1> DEFINE t == Append(s, c)
<1>1. Len(s) \in Nat /\ DOMAIN s = 1..Len(s)
  BY LenProperties
<1>2. DOMAIN t = 1..(Len(s) + 1) /\ t[Len(s) + 1] = c /\ \A k \in 1..Len(s) : t[k] = s[k]
  BY <1>1
<1>3. CASE d = c
  <2>1. Of(t, d) = Of(s, d) \cup {Len(s) + 1}
    <3> HIDE DEF t
    <3> QED
      BY <1>1, <1>2, <1>3 DEF Of
  <2>2. Len(s) + 1 \notin Of(s, d) /\ IsFiniteSet(Of(s, d))
    BY <1>1, OfFinite
  <2>3. Cardinality(Of(s, d) \cup {Len(s) + 1}) = Cardinality(Of(s, d)) + 1
    BY <2>2, FS_AddElement, Zenon
  <2> QED
    BY <1>3, <2>1, <2>3, Zenon
<1>4. CASE d # c
  <2>1. Of(t, d) = Of(s, d)
    <3> HIDE DEF t
    <3> QED
      BY <1>1, <1>2, <1>4 DEF Of
  <2> QED
    BY <1>4, <2>1, Zenon
<1> QED
  BY <1>3, <1>4

\* A child goes on writing: the sequence still is what both have written.  It
\* does not begin before the other has written nothing, or everything.
LEMMA HoldsAppend ==
    ASSUME TypeInv, Holds(pipe), NEW c \in Children, written[c] < WRITES,
           locking => written[Other(c)] \in {0, WRITES},
           written' = [written EXCEPT ![c] = @ + 1], pipe' = Append(pipe, c),
           UNCHANGED locking
    PROVE  Holds(pipe)'
<1>1. /\ c \in {1, 2} /\ Other(c) \in Children /\ Other(c) # c /\ Other(Other(c)) = c
      /\ WRITES \in Nat /\ written[1] \in Nat /\ written[2] \in Nat
      /\ written \in [Children -> Nat]
  BY PipeAssumption DEF TypeInv, Children, Other
<1>2. /\ written'[c] = written[c] + 1 /\ written'[Other(c)] = written[Other(c)]
      /\ \A d \in Children : d # c => written'[d] = written[d]
  BY <1>1
<1>3. /\ pipe \in Seq(Children) /\ Len(pipe) \in Nat /\ DOMAIN pipe = 1..Len(pipe)
      /\ Len(pipe) = written[1] + written[2]
      /\ Len(pipe) = written[c] + written[Other(c)]
  BY <1>1, LenProperties DEF TypeInv, Holds, Other
<1>4. /\ DOMAIN pipe' = 1..(Len(pipe) + 1) /\ Len(pipe') = Len(pipe) + 1
      /\ pipe'[Len(pipe) + 1] = c /\ \A k \in 1..Len(pipe) : pipe'[k] = pipe[k]
  BY <1>3
<1>5. Len(pipe') = written'[1] + written'[2]
  BY <1>1, <1>2, <1>3, <1>4 DEF Children
<1>6. \A d \in Children : Cardinality(Of(pipe', d)) = written'[d]
  <2> TAKE d \in Children
  <2>1. Cardinality(Of(pipe, d)) = written[d]
    BY DEF Holds
  <2>2. Cardinality(Of(pipe', d))
          = IF d = c THEN Cardinality(Of(pipe, d)) + 1 ELSE Cardinality(Of(pipe, d))
    BY <1>3, OfAppend
  <2> QED
    BY <1>2, <2>1, <2>2
<1>7. ASSUME locking PROVE TwoRuns(pipe)'
  <2>1. PICK b \in Children :
          /\ \A k \in DOMAIN pipe : pipe[k] = IF k <= written[b] THEN b ELSE Other(b)
          /\ written[Other(b)] > 0 => written[b] = WRITES
    BY <1>7 DEF Holds, TwoRuns
  <2>2. CASE b = c \/ written[b] = 0
    <3>2. written[Other(c)] = 0
      <4>1. CASE b = c
        <5>1. written[c] \in Nat /\ written[Other(c)] \in Nat
          BY <1>1
        <5>2. written[c] # WRITES
          BY <1>1, <5>1
        <5>3. ~(written[Other(c)] > 0)
          BY <2>1, <4>1, <5>2, Zenon
        <5> QED
          BY <5>1, <5>3
      <4>2. CASE b # c /\ written[b] = 0
        BY <1>1, <4>2 DEF Children, Other
      <4> QED
        BY <2>2, <4>1, <4>2
    <3>3. \A k \in DOMAIN pipe : pipe[k] = c
      <4> TAKE k \in DOMAIN pipe
      <4>1. k \in Nat /\ k > 0 /\ k <= written[c]
        BY <1>1, <1>3, <3>2
      <4>2. CASE b = c
        BY <2>1, <4>1, <4>2
      <4>3. CASE b # c /\ written[b] = 0
        <5>1. Other(b) = c
          BY <1>1, <4>3 DEF Children, Other
        <5> QED
          BY <2>1, <4>1, <4>3, <5>1
      <4> QED
        BY <2>2, <4>2, <4>3
    <3>4. \A k \in DOMAIN pipe' : pipe'[k] = IF k <= written'[c] THEN c ELSE Other(c)
      BY <1>1, <1>2, <1>3, <1>4, <3>2, <3>3
    <3>5. written'[Other(c)] = 0
      BY <1>2, <3>2
    <3> QED
      BY <1>1, <3>4, <3>5 DEF TwoRuns
  <2>3. CASE b # c /\ written[b] # 0
    <3>1. b = Other(c) /\ c = Other(b) /\ written[b] = WRITES
      BY <1>1, <1>7, <2>3 DEF Children, Other
    <3>2. \A k \in DOMAIN pipe' : pipe'[k] = IF k <= written'[b] THEN b ELSE Other(b)
      <4> TAKE k \in DOMAIN pipe'
      <4>1. written'[b] = written[b] /\ written[b] \in Nat /\ written[c] \in Nat
            /\ Len(pipe) = written[c] + written[b]
        BY <1>1, <1>2, <1>3, <3>1
      <4>2. CASE k = Len(pipe) + 1
        BY <1>3, <1>4, <3>1, <4>1, <4>2
      <4>3. CASE k \in 1..Len(pipe)
        <5>1. pipe'[k] = pipe[k] /\ k \in DOMAIN pipe
          BY <1>3, <1>4, <4>3
        <5> QED
          BY <2>1, <4>1, <5>1
      <4> QED
        BY <1>3, <1>4, <4>2, <4>3
    <3>3. written'[b] = WRITES
      BY <1>2, <3>1
    <3> QED
      BY <3>2, <3>3 DEF TwoRuns
  <2> QED
    BY <2>2, <2>3
<1> QED
  BY <1>5, <1>6, <1>7 DEF Holds

\* The characters of two runs change at one place at most.
LEMMA RunsChangeOnce ==
    ASSUME TypeInv, NEW s \in Seq(Children), TwoRuns(s)
    PROVE  Cardinality(Changes(s)) <= 1
<1>1. PICK c \in Children : \A k \in DOMAIN s : s[k] = IF k <= written[c] THEN c ELSE Other(c)
  BY DEF TwoRuns
<1>2. DOMAIN s = 1..Len(s) /\ Len(s) \in Nat /\ written[c] \in Nat
  BY LenProperties, PipeAssumption DEF TypeInv
<1>3. Changes(s) \in SUBSET {written[c]}
  BY <1>1, <1>2 DEF Changes
<1>4. IsFiniteSet({written[c]}) /\ Cardinality({written[c]}) = 1
  BY FS_Singleton
<1> QED
  BY <1>3, <1>4, FS_Subset

-----------------------------------------------------------------------------
(* The invariant.                                                           *)

LEMMA InvInit == Init => Inv
<1> SUFFICES ASSUME Init PROVE Inv
  OBVIOUS
<1>0. /\ pipe = <<>> /\ InPipe = <<>> /\ parent = "fork 1" /\ readers = {Parent}
      /\ child = [c \in Children |-> "unborn"] /\ written = [c \in Children |-> 0]
  BY DEF Init
<1>1. TypeInv /\ PlaceInv /\ HoldInv
  <2>0. 0 \in 0..WRITES
    BY PipeAssumption
  <2>1. written \in [Children -> 0..WRITES]
    BY <1>0, <2>0
  <2> QED
    BY <1>0, <2>1, Nothing
       DEF TypeInv, PlaceInv, HoldInv, ParentPlaces, ChildPlaces, Children
<1>2. Len(pipe) = 0 /\ DOMAIN pipe = {} /\ written[1] = 0 /\ written[2] = 0
  BY <1>0, Nothing, Zenon DEF Children
<1>3. \A c \in Children : Of(pipe, c) = {} /\ written[c] = 0
  BY <1>2 DEF Of, Init
<1>4. \A c \in Children : Cardinality(Of(pipe, c)) = written[c]
  BY <1>3, FS_EmptySet, Zenon
<1>5. TwoRuns(pipe)
  BY <1>2 DEF TwoRuns, Children, Other
<1>6. Holds(pipe)
  BY <1>2, <1>4, <1>5 DEF Holds
<1> QED
  BY <1>0, <1>1, <1>6 DEF Inv, DataInv

\* A step that leaves the characters alone leaves what is said of them.
LEMMA DataKept ==
    ASSUME DataInv, UNCHANGED <<locking, written, pipe, InPipe>>,
           parent \in {"print", "end"} <=> parent' \in {"print", "end"}
    PROVE  DataInv'
<1>1. Holds(pipe)' <=> Holds(pipe)
  BY DEF Holds, TwoRuns
<1>2. Holds(InPipe)' <=> Holds(InPipe)
  BY DEF Holds, TwoRuns
<1> QED
  BY <1>1, <1>2 DEF DataInv

\* A child goes on to its next place.
LEMMA ChildMoves ==
    ASSUME TypeInv, PlaceInv, NEW c \in Children, NEW next \in ChildPlaces,
           child[c] \notin {"unborn", "reaped"}, next # "unborn",
           child' = [child EXCEPT ![c] = next], UNCHANGED <<parent, written>>,
           next \in {"born", "lock"} => written[c] = 0,
           next \in {"close", "zombie", "reaped"} => written[c] = WRITES
    PROVE  PlaceInv'
<1>1. \A d \in Children : child'[d] = IF d = c THEN next ELSE child[d]
  BY DEF TypeInv
<1>2. \A d \in Children : child'[d] \in {"unborn", "born", "lock"} => written'[d] = 0
  BY <1>1 DEF PlaceInv
<1>3. \A d \in Children : child'[d] \in {"close", "zombie", "reaped"} => written'[d] = WRITES
  BY <1>1 DEF PlaceInv
<1>4. /\ parent' = "fork 1" => child'[1] = "unborn"
      /\ parent' \in {"fork 1", "fork 2"} => child'[2] = "unborn"
  BY <1>1 DEF PlaceInv, Children
<1>5. parent' = "wait 2" => \E d \in Children : child'[d] = "reaped"
  <2> SUFFICES ASSUME parent = "wait 2" PROVE \E d \in Children : child'[d] = "reaped"
    OBVIOUS
  <2>1. PICK d \in Children : child[d] = "reaped"
    BY DEF PlaceInv
  <2> QED
    BY <1>1, <2>1
<1>6. parent' \notin {"read", "print", "end"}
  BY DEF PlaceInv
<1> QED
  BY <1>2, <1>3, <1>4, <1>5, <1>6 DEF PlaceInv

LEMMA ParentKeeps == Inv /\ parent_runs => Inv'
<1> SUFFICES ASSUME Inv, parent_runs PROVE Inv'
  OBVIOUS
<1> USE DEF ParentPlaces, ChildPlaces
<1>0. TypeInv /\ PlaceInv /\ HoldInv /\ DataInv /\ 0 \notin Children
  BY DEF Inv, Children
<1>c. 1 \in Children /\ 2 \in Children /\ 1 # 2
  BY DEF Children
<1>1. ASSUME NEW c \in Children, NEW next \in {"fork 2", "close"},
             fork(c, parent, next), child[c] = "unborn",
             next = "fork 2" => parent = "fork 1" /\ c = 1,
             next = "close" => parent = "fork 2" /\ c = 2
      PROVE  Inv'
  <2>1. /\ parent' = next /\ child' = [child EXCEPT ![c] = "born"] /\ readers' = readers \cup {c}
        /\ UNCHANGED <<locking, written, pipe, InPipe, locked>>
    BY <1>1 DEF fork
  <2>2. \A d \in Children : child'[d] = IF d = c THEN "born" ELSE child[d]
    BY <1>0, <2>1 DEF TypeInv
  <2>0. UNCHANGED <<locking, written, locked>> /\ parent' = next
    BY <2>1
  <2>3. TypeInv'
    BY <1>0, <2>1 DEF TypeInv
  <2>4. PlaceInv'
    <3>1. /\ parent' \notin {"fork 1", "wait 2", "read", "print", "end"}
          /\ parent' = "fork 2" => child'[2] = "unborn"
      <4>1. CASE next = "fork 2"
        <5>0. parent = "fork 1" /\ c = 1
          BY <1>1, <4>1, Zenon
        <5>1. child[2] = "unborn"
          BY <1>0, <5>0 DEF PlaceInv
        <5> QED
          BY <1>c, <2>0, <2>2, <4>1, <5>0, <5>1
      <4>2. CASE next = "close"
        BY <2>0, <4>2
      <4> QED
        BY <1>1, <4>1, <4>2
    <3>2. \A d \in Children : child'[d] \in {"unborn", "born", "lock"} => written'[d] = 0
      BY <1>0, <1>1, <2>0, <2>2 DEF PlaceInv
    <3>3. \A d \in Children : child'[d] \in {"close", "zombie", "reaped"} => written'[d] = WRITES
      BY <1>0, <2>0, <2>2 DEF PlaceInv
    <3> QED
      BY <3>1, <3>2, <3>3 DEF PlaceInv
  <2>5. HoldInv'
    <3>1. Parent \in readers'
      BY <1>0, <1>1, <2>1 DEF HoldInv
    <3>2. locking' => \A d \in Children : child'[d] = "write" => locked' = d
      BY <1>0, <2>0, <2>2 DEF HoldInv
    <3> QED
      BY <3>1, <3>2 DEF HoldInv
  <2>6. DataInv'
    BY <1>0, <1>1, <2>1, DataKept
  <2> QED
    BY <2>3, <2>4, <2>5, <2>6 DEF Inv
<1>2. CASE ParentCloses
  <2>1. TypeInv' /\ PlaceInv' /\ HoldInv'
    BY <1>0, <1>2 DEF ParentCloses, TypeInv, PlaceInv, HoldInv
  <2>2. DataInv'
    BY <1>0, <1>2, DataKept DEF ParentCloses
  <2> QED
    BY <2>1, <2>2 DEF Inv
<1>3. CASE wait("wait 1", "wait 2") \/ wait("wait 2", "read")
  <2>1. PICK c \in Children : child[c] = "zombie" /\ child' = [child EXCEPT ![c] = "reaped"]
    BY <1>3 DEF wait
  <2>2. \A d \in Children : child'[d] = IF d = c THEN "reaped" ELSE child[d]
    BY <1>0, <2>1 DEF TypeInv
  <2>3. /\ UNCHANGED <<locking, written, pipe, readers, locked, InPipe>>
        /\ parent \in {"wait 1", "wait 2"} /\ parent' \in {"wait 2", "read"}
        /\ parent' = "read" => parent = "wait 2"
    BY <1>3 DEF wait
  <2>4. TypeInv'
    BY <1>0, <2>1, <2>3 DEF TypeInv
  <2>5. PlaceInv'
    <3>1. parent' = "read" => \A d \in Children : child'[d] = "reaped"
      BY <1>0, <2>1, <2>2, <2>3 DEF PlaceInv, Children
    <3>2. \A d \in Children : child'[d] \in {"unborn", "born", "lock"} => written'[d] = 0
      BY <1>0, <2>2, <2>3 DEF PlaceInv
    <3>3. \A d \in Children : child'[d] \in {"close", "zombie", "reaped"} => written'[d] = WRITES
      BY <1>0, <2>1, <2>2, <2>3 DEF PlaceInv
    <3>4. \E d \in Children : child'[d] = "reaped"
      BY <2>2
    <3> QED
      BY <2>3, <3>1, <3>2, <3>3, <3>4 DEF PlaceInv
  <2>6. HoldInv'
    BY <1>0, <2>2, <2>3 DEF HoldInv
  <2>7. DataInv'
    BY <1>0, <2>3, DataKept
  <2> QED
    BY <2>4, <2>5, <2>6, <2>7 DEF Inv
<1>4. CASE read
  <2>1. /\ parent = "read" /\ parent' = "print" /\ UNCHANGED <<locking, child, written, readers, locked>>
        /\ Holds(pipe) /\ pipe \in Seq(Children)
    BY <1>0, <1>4 DEF read, DataInv, TypeInv
  <2>2. Len(pipe) <= TO_READ
    BY <1>0, <2>1, PipeAssumption DEF TypeInv, Holds, Children
  <2>3. Len(pipe) \in Nat /\ TO_READ \in Nat
    BY <2>1, LenProperties, PipeAssumption
  <2>4. InPipe' = SubSeq(pipe, 1, Len(pipe)) /\ pipe' = SubSeq(pipe, Len(pipe) + 1, Len(pipe))
    <3> DEFINE n == IF Len(pipe) < TO_READ THEN Len(pipe) ELSE TO_READ
    <3>1. n = Len(pipe)
      BY <2>2, <2>3
    <3>2. InPipe' = SubSeq(pipe, 1, n) /\ pipe' = SubSeq(pipe, n + 1, Len(pipe))
      BY <1>4 DEF read
    <3> QED
      BY <3>1, <3>2, Zenon
  <2>5. InPipe' = pipe
    BY <2>1, <2>3, <2>4, LenProperties
  <2>6. pipe' = <<>>
    BY <2>1, <2>3, <2>4
  <2>7. Holds(InPipe)'
    BY <2>1, <2>5 DEF Holds, TwoRuns
  <2>8. TypeInv' /\ PlaceInv' /\ HoldInv'
    BY <1>0, <2>1, <2>5, <2>6, EmptySeq DEF TypeInv, PlaceInv, HoldInv
  <2> QED
    BY <2>1, <2>6, <2>7, <2>8 DEF Inv, DataInv
<1>5. CASE Printing
  <2>1. TypeInv' /\ PlaceInv' /\ HoldInv'
    <3>1. TypeInv'
      BY <1>0, <1>5 DEF Printing, TypeInv
    <3>2. PlaceInv'
      BY <1>0, <1>5 DEF Printing, TypeInv, PlaceInv
    <3>3. HoldInv'
      BY <1>0, <1>5 DEF Printing, TypeInv, HoldInv
    <3> QED
      BY <3>1, <3>2, <3>3
  <2>2. DataInv'
    BY <1>0, <1>5, DataKept DEF Printing
  <2> QED
    BY <2>1, <2>2 DEF Inv
<1>6. CASE fork(1, "fork 1", "fork 2") \/ fork(2, "fork 2", "close")
  <2>2. CASE fork(1, "fork 1", "fork 2")
    <3>1. parent = "fork 1" /\ child[1] = "unborn"
      BY <1>0, <2>2 DEF fork, PlaceInv
    <3> QED
      BY <1>1, <1>c, <2>2, <3>1
  <2>3. CASE fork(2, "fork 2", "close")
    <3>1. parent = "fork 2" /\ child[2] = "unborn"
      BY <1>0, <2>3 DEF fork, PlaceInv
    <3> QED
      BY <1>1, <1>c, <2>3, <3>1
  <2> QED
    BY <1>6, <2>2, <2>3
<1> QED
  BY <1>2, <1>3, <1>4, <1>5, <1>6 DEF parent_runs

LEMMA ChildKeeps ==
    ASSUME Inv, NEW c \in Children, child_runs(c)
    PROVE  Inv'
<1> USE DEF ParentPlaces, ChildPlaces
<1>0. TypeInv /\ PlaceInv /\ HoldInv /\ DataInv /\ c # Parent
  BY DEF Inv, Children, Parent
<1>1. CASE ChildCloses(c)
  <2>1. TypeInv' /\ PlaceInv' /\ HoldInv'
    <3>1. TypeInv'
      BY <1>0, <1>1 DEF ChildCloses, Step, TypeInv
    <3>2. PlaceInv'
      <4> DEFINE next == IF locking THEN "lock" ELSE "write"
      <4>1. child' = [child EXCEPT ![c] = next] /\ UNCHANGED <<parent, written>>
            /\ child[c] \notin {"unborn", "reaped"} /\ next \in ChildPlaces /\ next # "unborn"
        BY <1>1 DEF ChildCloses, Step
      <4>2. /\ next \in {"born", "lock"} => written[c] = 0
            /\ next \in {"close", "zombie", "reaped"} => written[c] = WRITES
        BY <1>0, <1>1 DEF ChildCloses, Step, PlaceInv
      <4> HIDE DEF next
      <4> QED
        BY <1>0, <4>1, <4>2, ChildMoves
    <3>3. HoldInv'
      BY <1>0, <1>1 DEF ChildCloses, Step, TypeInv, HoldInv
    <3> QED
      BY <3>1, <3>2, <3>3
  <2>2. DataInv'
    BY <1>0, <1>1, DataKept DEF ChildCloses
  <2> QED
    BY <2>1, <2>2 DEF Inv
<1>2. CASE lock(c)
  <2>1. TypeInv' /\ PlaceInv'
    <3>1. TypeInv'
      BY <1>0, <1>2 DEF lock, Step, TypeInv
    <3>2. PlaceInv'
      <4> DEFINE next == "write"
      <4>1. child' = [child EXCEPT ![c] = next] /\ UNCHANGED <<parent, written>>
            /\ child[c] \notin {"unborn", "reaped"} /\ next \in ChildPlaces /\ next # "unborn"
        BY <1>2 DEF lock, Step
      <4>2. /\ next \in {"born", "lock"} => written[c] = 0
            /\ next \in {"close", "zombie", "reaped"} => written[c] = WRITES
        BY <1>0, <1>2 DEF lock, Step, PlaceInv
      <4> HIDE DEF next
      <4> QED
        BY <1>0, <4>1, <4>2, ChildMoves
    <3> QED
      BY <3>1, <3>2
  <2>2. HoldInv'
    <3>1. NOBODY \notin Children
      BY DEF NOBODY, Children
    <3> QED
      BY <1>0, <1>2, <3>1 DEF lock, Step, TypeInv, HoldInv
  <2>3. DataInv'
    BY <1>0, <1>2, DataKept DEF lock
  <2> QED
    BY <2>1, <2>2, <2>3 DEF Inv
<1>3. CASE write(c)
  <2>1. /\ child[c] = "write" /\ written[c] < WRITES /\ WRITES \in Nat
        /\ written' = [written EXCEPT ![c] = @ + 1] /\ pipe' = Append(pipe, c)
        /\ UNCHANGED <<locking, parent, child, readers, locked, InPipe>>
    BY <1>3, PipeAssumption DEF write
  <2>2. TypeInv'
    <3>1. pipe' \in Seq(Children)
      BY <1>0, <2>1, AppendType, Zenon DEF TypeInv
    <3>2. written' \in [Children -> 0..WRITES]
      <4>1. written \in [Children -> 0..WRITES]
        BY <1>0 DEF TypeInv
      <4> QED
        BY <2>1, <4>1
    <3> QED
      BY <1>0, <2>1, <3>1, <3>2 DEF TypeInv
  <2>3. PlaceInv' /\ HoldInv'
    BY <1>0, <2>1 DEF TypeInv, PlaceInv, HoldInv
  <2>4. parent \notin {"print", "end"}
    BY <1>0, <2>1 DEF PlaceInv
  <2>5. locking => written[Other(c)] \in {0, WRITES}
    <3>1. Other(c) \in Children /\ Other(c) # c
      BY DEF Children, Other
    <3>2. locking => child[Other(c)] # "write"
      BY <1>0, <2>1, <3>1 DEF HoldInv
    <3> QED
      BY <1>0, <3>1, <3>2 DEF TypeInv, PlaceInv
  <2>6. Holds(pipe)'
    BY <1>0, <2>1, <2>4, <2>5, HoldsAppend DEF DataInv
  <2> QED
    BY <1>0, <2>1, <2>2, <2>3, <2>4, <2>6 DEF Inv, DataInv
<1>4. CASE unlock(c)
  <2>1. TypeInv' /\ PlaceInv' /\ HoldInv'
    <3>1. TypeInv'
      BY <1>0, <1>4 DEF unlock, Step, TypeInv
    <3>2. PlaceInv'
      <4> DEFINE next == "close"
      <4>1. child' = [child EXCEPT ![c] = next] /\ UNCHANGED <<parent, written>>
            /\ child[c] \notin {"unborn", "reaped"} /\ next \in ChildPlaces /\ next # "unborn"
        BY <1>4 DEF unlock, Step
      <4>2. /\ next \in {"born", "lock"} => written[c] = 0
            /\ next \in {"close", "zombie", "reaped"} => written[c] = WRITES
        BY <1>0, <1>4 DEF unlock, Step, PlaceInv
      <4> HIDE DEF next
      <4> QED
        BY <1>0, <4>1, <4>2, ChildMoves
    <3>3. HoldInv'
      BY <1>0, <1>4 DEF unlock, Step, TypeInv, HoldInv
    <3> QED
      BY <3>1, <3>2, <3>3
  <2>2. DataInv'
    BY <1>0, <1>4, DataKept DEF unlock
  <2> QED
    BY <2>1, <2>2 DEF Inv
<1>5. CASE ChildEnds(c)
  <2>1. TypeInv' /\ PlaceInv' /\ HoldInv'
    <3>1. TypeInv'
      BY <1>0, <1>5 DEF ChildEnds, Step, TypeInv
    <3>2. PlaceInv'
      <4> DEFINE next == "zombie"
      <4>1. child' = [child EXCEPT ![c] = next] /\ UNCHANGED <<parent, written>>
            /\ child[c] \notin {"unborn", "reaped"} /\ next \in ChildPlaces /\ next # "unborn"
        BY <1>5 DEF ChildEnds, Step
      <4>2. /\ next \in {"born", "lock"} => written[c] = 0
            /\ next \in {"close", "zombie", "reaped"} => written[c] = WRITES
        BY <1>0, <1>5 DEF ChildEnds, Step, PlaceInv
      <4> HIDE DEF next
      <4> QED
        BY <1>0, <4>1, <4>2, ChildMoves
    <3>3. HoldInv'
      BY <1>0, <1>5 DEF ChildEnds, Step, TypeInv, HoldInv
    <3> QED
      BY <3>1, <3>2, <3>3
  <2>2. DataInv'
    BY <1>0, <1>5, DataKept DEF ChildEnds
  <2> QED
    BY <2>1, <2>2 DEF Inv
<1> QED
  BY <1>1, <1>2, <1>3, <1>4, <1>5 DEF child_runs

LEMMA InvAlways == Spec => []Inv
<1>1. Inv /\ [Next]_vars => Inv'
  <2> SUFFICES ASSUME Inv, [Next]_vars PROVE Inv'
    OBVIOUS
  <2>1. CASE UNCHANGED vars
    <3>1. TypeInv' /\ PlaceInv' /\ HoldInv'
      BY <2>1 DEF vars, Inv, TypeInv, PlaceInv, HoldInv
    <3>2. DataInv'
      BY <2>1, DataKept DEF vars, Inv
    <3> QED
      BY <3>1, <3>2 DEF Inv
  <2> QED
    BY <2>1, ParentKeeps, ChildKeeps DEF Next
<1> QED
  BY <1>1, InvInit, PTL DEF Spec

-----------------------------------------------------------------------------
(* Theorems.                                                                *)

\* With the lock the two children's characters come one after the other, in the
\* pipe and in what is read (2-2-1.c L25-L35, L75).
THEOREM WritersApart == Spec => []RunsApart
<1>1. Inv => RunsApart
  <2> SUFFICES ASSUME Inv, locking
               PROVE  Cardinality(Changes(pipe)) <= 1 /\ Cardinality(Changes(InPipe)) <= 1
    BY DEF RunsApart
  <2>1. TypeInv /\ pipe \in Seq(Children) /\ InPipe \in Seq(Children)
    BY DEF Inv, TypeInv
  <2>2. Changes(<<>>) = {}
    BY DEF Changes
  <2>3. Cardinality(Changes(<<>>)) <= 1
    <3>1. Cardinality(Changes(<<>>)) = 0
      BY <2>2, FS_EmptySet, Zenon
    <3> QED
      BY <3>1
  <2>4. \A s \in Seq(Children) : Holds(s) => Cardinality(Changes(s)) <= 1
    BY <2>1, RunsChangeOnce DEF Holds
  <2> QED
    BY <2>1, <2>3, <2>4 DEF Inv, DataInv
<1> QED
  BY <1>1, InvAlways, PTL

\* One read after both children have ended gets all they wrote (L71-L75), in
\* either program.
THEOREM EverythingRead == Spec => []ReadsAll
<1>1. Inv => ReadsAll
  BY DEF Inv, DataInv, Holds, Of, PlaceInv, ReadsAll
<1> QED
  BY <1>1, InvAlways, PTL

\* Nobody writes to a pipe without a reader.
THEOREM AlwaysAReader == Spec => []HasReader
<1>1. Inv => HasReader
  BY DEF Inv, PlaceInv, HoldInv, HasReader, Parent
<1> QED
  BY <1>1, InvAlways, PTL

\* Room is left for whoever still has to write.
HasRoom == \A c \in Children : child[c] = "write" /\ written[c] < WRITES => Len(pipe) < PIPE_SIZE

\* The parent may wait for both children before it reads (L71-L72): a pipe that
\* holds what both write never makes one of them wait.
THEOREM NobodyBlocks == Spec => []HasRoom
<1>1. Inv => HasRoom
  <2> SUFFICES ASSUME Inv, NEW c \in Children, child[c] = "write", written[c] < WRITES
               PROVE  Len(pipe) < PIPE_SIZE
    BY DEF HasRoom
  <2>1. Len(pipe) = written[1] + written[2]
    BY DEF Inv, PlaceInv, DataInv, Holds
  <2>2. written[1] \in 0..WRITES /\ written[2] \in 0..WRITES /\ (c = 1 \/ c = 2)
    BY DEF Inv, TypeInv, Children
  <2> QED
    BY <2>1, <2>2, PipeAssumption
<1> QED
  BY <1>1, InvAlways, PTL
=============================================================================
