-------------------------- MODULE SignalWaitProofs --------------------------
(***************************************************************************)
(* The safety properties of SignalWait, however many keys are pressed.     *)
(***************************************************************************)
EXTENDS SignalWait, TLAPS

Signals == {"KEY", "ALRM", "USR"}
BeforeTest == {"fork 1", "fork 2", "begin", "to pause", "paused", "test"}
ParentPlaces == BeforeTest \cup {"kill 1", "kill 2", "wait 1", "wait 2", "end"}
ChildPlaces == {"unborn", "born", "to pause", "paused", "woken", "zombie", "reaped"}

TypeInv ==
    /\ program \in {"sleep", "alarm"}
    /\ parent \in ParentPlaces
    /\ child \in [Children -> ChildPlaces]
    /\ flag \in {0, 1}
    /\ pending \in [Processes -> SUBSET Signals]
    /\ handler \subseteq Children /\ sent \subseteq Children /\ said \subseteq Children
    /\ woken \subseteq Children /\ keys \in Nat

\* A wait returns for a child of its own.
ReapInv ==
    /\ parent = "wait 2" => \E c \in Children : child[c] = "reaped"
    /\ ParentLast

\* No signal is sent before the test of flag; the pause of 2-1-2.c returns with
\* flag at 1; and the two are sent one after the other.
SendInv ==
    /\ parent \in BeforeTest \cup {"kill 1"} => sent = {}
    /\ parent = "kill 2" => sent = {1}
    /\ program = "alarm" /\ parent = "test" => flag = 1
    /\ program = "sleep" => parent \notin {"to pause", "paused"}
    /\ SendsBoth

\* Where a signal comes from, and what it leaves behind.
CauseInv ==
    /\ \A c \in Children : "USR" \in pending[c] => c \in sent
    /\ \A c \in Children : child[c] = "woken" => c \in woken
    /\ program = "sleep" => handler = {} /\ \A c \in Children : child[c] # "born"
    /\ SaidWhy

Inv == TypeInv /\ ReapInv /\ SendInv /\ CauseInv

LEMMA InvInit == Init => Inv
<1> SUFFICES ASSUME Init PROVE Inv
  OBVIOUS
<1>1. TypeInv
  BY DEF Init, TypeInv, Children, BeforeTest, ParentPlaces, ChildPlaces
<1>2. ReapInv
  BY DEF Init, ReapInv, ParentLast
<1>3. SendInv
  BY DEF Init, SendInv, SendsBoth
<1>4. CauseInv
  BY DEF Init, CauseInv, SaidWhy, Dead, Processes, Children
<1> QED
  BY <1>1, <1>2, <1>3, <1>4 DEF Inv

\* A signal on its way: nothing else becomes pending.
LEMMA Arriving ==
    ASSUME TypeInv, NEW sig \in Signals, NEW at, Arrives(sig, at)
    PROVE  /\ pending' \in [Processes -> SUBSET Signals]
           /\ \A p \in Processes : \A g \in pending'[p] : g \in pending[p] \/ (g = sig /\ p \in at)
  BY DEF TypeInv, Arrives

LEMMA Taking ==
    ASSUME TypeInv, NEW sig \in Signals, NEW p \in Processes, Taken(sig, p)
    PROVE  /\ pending' \in [Processes -> SUBSET Signals]
           /\ \A q \in Processes : pending'[q] \subseteq pending[q]
           /\ sig \in pending[p]
  BY DEF TypeInv, Taken

-----------------------------------------------------------------------------
(* The parent.                                                              *)

\* Whatever is not a fork, a kill or a wait leaves the children alone.
LEMMA ParentStep ==
    ASSUME Inv, parent_runs
    PROVE  Inv'
<1> USE DEF Inv, Parent, Goes
<1>1. ASSUME NEW c \in Children, NEW next \in {"fork 2", "begin"},
             \/ c = 1 /\ next = "fork 2" /\ fork(c, "fork 1", next)
             \/ c = 2 /\ next = "begin" /\ fork(c, "fork 2", next)
      PROVE  Inv'
  <2>1. TypeInv'
    BY <1>1 DEF fork, TypeInv, Children, BeforeTest, ParentPlaces, ChildPlaces
  <2>2. ReapInv'
    BY <1>1 DEF fork, ReapInv, ParentLast
  <2>3. SendInv'
    BY <1>1 DEF fork, SendInv, SendsBoth, BeforeTest
  <2>4. CauseInv'
    BY <1>1 DEF fork, TypeInv, CauseInv, SaidWhy, Dead
  <2> QED
    BY <2>1, <2>2, <2>3, <2>4
<1>2. ASSUME sleep \/ SetAlarm \/ ParentPauses \/ Test
      PROVE  Inv'
  <2> USE DEF sleep, SetAlarm, ParentPauses, Test
  <2>1. TypeInv'
    BY <1>2 DEF TypeInv, BeforeTest, ParentPlaces
  <2>2. ReapInv'
    BY <1>2 DEF ReapInv, ParentLast
  <2>3. SendInv'
    BY <1>2 DEF TypeInv, SendInv, SendsBoth, BeforeTest
  <2>4. CauseInv'
    BY <1>2 DEF CauseInv, SaidWhy, Dead
  <2> QED
    BY <2>1, <2>2, <2>3, <2>4
<1>3. ASSUME NEW c \in Children, NEW next \in {"kill 2", "wait 1"},
             \/ c = 1 /\ next = "kill 2" /\ kill(c, "kill 1", next)
             \/ c = 2 /\ next = "wait 1" /\ kill(c, "kill 2", next)
      PROVE  Inv'
  <2>0. /\ pending' \in [Processes -> SUBSET Signals]
        /\ \A p \in Processes : \A g \in pending'[p] : g \in pending[p] \/ (g = "USR" /\ p \in {c})
    BY <1>3, Arriving DEF kill, Signals
  <2>1. TypeInv'
    BY <1>3, <2>0 DEF kill, TypeInv, BeforeTest, ParentPlaces
  <2>2. ReapInv'
    BY <1>3 DEF kill, ReapInv, ParentLast
  <2>3. SendInv'
    BY <1>3 DEF kill, SendInv, SendsBoth, BeforeTest, Children
  <2>4. CauseInv'
    <3>1. \A d \in Children : "USR" \in pending'[d] => d \in sent'
      BY <1>3, <2>0 DEF kill, CauseInv, Processes
    <3> QED
      BY <1>3, <3>1 DEF kill, CauseInv, SaidWhy, Dead
  <2> QED
    BY <2>1, <2>2, <2>3, <2>4
<1>4. ASSUME NEW next \in {"wait 2", "end"},
             \/ next = "wait 2" /\ wait("wait 1", next)
             \/ next = "end" /\ wait("wait 2", next)
      PROVE  Inv'
  <2>0. PICK c \in Children : child[c] = "zombie" /\ child' = [child EXCEPT ![c] = "reaped"]
    BY <1>4 DEF wait
  <2>1. TypeInv'
    BY <1>4, <2>0 DEF wait, TypeInv, BeforeTest, ParentPlaces, ChildPlaces
  <2>2. ReapInv'
    <3>1. /\ child'[c] = "reaped"
          /\ \A d \in Children : child[d] = "reaped" => d # c /\ child'[d] = "reaped"
      BY <2>0 DEF TypeInv
    <3> QED
      BY <1>4, <3>1 DEF wait, ReapInv, ParentLast, Children
  <2>3. SendInv'
    BY <1>4 DEF wait, SendInv, SendsBoth, BeforeTest
  <2>4. CauseInv'
    BY <1>4, <2>0 DEF wait, TypeInv, CauseInv, SaidWhy, Dead
  <2> QED
    BY <2>1, <2>2, <2>3, <2>4
<1> QED
  BY <1>1, <1>2, <1>3, <1>4 DEF parent_runs, Children

-----------------------------------------------------------------------------
(* Signals that arrive and are handled.                                     *)

LEMMA SignalStep ==
    ASSUME Inv, Key \/ AlarmRings \/ handled
    PROVE  Inv'
<1> USE DEF Inv
<1>1. CASE Key
  <2>0. /\ pending' \in [Processes -> SUBSET Signals]
        /\ \A p \in Processes : \A g \in pending'[p] : g \in pending[p] \/ (g = "KEY" /\ p \in Processes)
    BY <1>1, Arriving DEF Key, Signals
  <2>1. TypeInv'
    BY <1>1, <2>0 DEF Key, TypeInv
  <2>2. ReapInv' /\ SendInv'
    BY <1>1 DEF Key, ReapInv, ParentLast, SendInv, SendsBoth
  <2>3. \A c \in Children : "USR" \in pending'[c] => c \in sent'
    BY <1>1, <2>0 DEF Key, CauseInv, Processes
  <2>5. CauseInv'
    BY <1>1, <2>3 DEF Key, CauseInv, SaidWhy, Dead
  <2> QED
    BY <2>1, <2>2, <2>5
<1>2. CASE AlarmRings
  <2>0. /\ pending' \in [Processes -> SUBSET Signals]
        /\ \A p \in Processes : \A g \in pending'[p] : g \in pending[p] \/ (g = "ALRM" /\ p \in {Parent})
    BY <1>2, Arriving DEF AlarmRings, Signals
  <2>1. TypeInv'
    BY <1>2, <2>0 DEF AlarmRings, TypeInv
  <2>2. ReapInv' /\ SendInv'
    BY <1>2 DEF AlarmRings, ReapInv, ParentLast, SendInv, SendsBoth
  <2>3. \A c \in Children : "USR" \in pending'[c] => c \in sent'
    BY <1>2, <2>0 DEF AlarmRings, CauseInv, Processes
  <2>4. CauseInv'
    BY <1>2, <2>3 DEF AlarmRings, CauseInv, SaidWhy, Dead
  <2> QED
    BY <2>1, <2>2, <2>4
<1>3. ASSUME NEW sig \in {"KEY", "ALRM"}, ParentHandles(sig)
      PROVE  Inv'
  <2>0. /\ pending' \in [Processes -> SUBSET Signals]
        /\ \A q \in Processes : pending'[q] \subseteq pending[q]
    BY <1>3, Taking DEF ParentHandles, Signals, Processes
  <2>1. TypeInv'
    BY <1>3, <2>0 DEF ParentHandles, TypeInv, BeforeTest, ParentPlaces
  <2>2. ReapInv'
    BY <1>3 DEF ParentHandles, ReapInv, ParentLast
  <2>3. SendInv'
    BY <1>3 DEF ParentHandles, SendInv, SendsBoth, BeforeTest
  <2>4. \A c \in Children : "USR" \in pending'[c] => c \in sent'
    BY <1>3, <2>0 DEF ParentHandles, CauseInv, Processes
  <2>5. CauseInv'
    BY <1>3, <2>4 DEF ParentHandles, CauseInv, SaidWhy, Dead
  <2> QED
    BY <2>1, <2>2, <2>3, <2>5
<1> QED
  BY <1>1, <1>2, <1>3 DEF handled

-----------------------------------------------------------------------------
(* The children.                                                            *)

LEMMA ChildStep ==
    ASSUME Inv, NEW c \in Children, child_runs(c) \/ delivered(c)
    PROVE  Inv'
<1> USE DEF Inv, ChildGoes
<1>0. c \in Processes /\ c # Parent
  BY DEF Processes, Children, Parent
<1>1. CASE child_runs(c)
  <2> USE DEF child_runs, Install, ChildPauses, ChildReturns
  <2>1. TypeInv'
    BY <1>1 DEF TypeInv, ChildPlaces
  <2>2. ReapInv'
    BY <1>1 DEF TypeInv, ReapInv, ParentLast
  <2>3. SendInv'
    BY <1>1 DEF SendInv, SendsBoth
  <2>4. CauseInv'
    BY <1>1 DEF TypeInv, CauseInv, SaidWhy, Dead
  <2> QED
    BY <2>1, <2>2, <2>3, <2>4
<1>2. ASSUME NEW sig \in {"KEY", "USR"},
             \/ sig = "KEY" /\ ChildHandlesKey(c)
             \/ sig = "USR" /\ ChildGetsKill(c)
      PROVE  Inv'
  <2> USE DEF ChildHandlesKey, ChildGetsKill
  <2>0. /\ pending' \in [Processes -> SUBSET Signals]
        /\ \A q \in Processes : pending'[q] \subseteq pending[q]
        /\ sig \in pending[c]
    BY <1>0, <1>2, Taking DEF Signals
  <2>1. TypeInv'
    BY <1>2, <2>0 DEF TypeInv, ChildPlaces
  <2>2. ReapInv'
    BY <1>0, <1>2 DEF TypeInv, ReapInv, ParentLast, Alive
  <2>3. SendInv'
    BY <1>2 DEF SendInv, SendsBoth
  <2>4. \A d \in Children : "USR" \in pending'[d] => d \in sent'
    BY <1>2, <2>0 DEF CauseInv, Processes
  <2>5. \A d \in Children : child'[d] = "woken" => d \in woken'
    BY <1>0, <1>2, <2>0 DEF TypeInv, CauseInv
  <2>6. SaidWhy'
    BY <1>2, <2>0 DEF TypeInv, CauseInv, SaidWhy, Dead
  <2>7. CauseInv'
    BY <1>2, <2>4, <2>5, <2>6 DEF TypeInv, CauseInv
  <2> QED
    BY <2>1, <2>2, <2>3, <2>7
<1> QED
  BY <1>1, <1>2 DEF delivered

-----------------------------------------------------------------------------

LEMMA Stutter == Inv /\ UNCHANGED vars => Inv'
  BY DEF vars, Inv, TypeInv, ReapInv, SendInv, CauseInv, ParentLast, SendsBoth, SaidWhy, Dead

THEOREM InvHolds == Spec => []Inv
<1>1. Inv /\ [Next]_vars => Inv'
  BY ParentStep, SignalStep, ChildStep, Stutter DEF Next
<1> QED
  BY InvInit, <1>1, PTL DEF Spec

\* The parent of 2-1-1.c and 2-1-2.c prints that it ends after both children
\* have ended (L37-L39, L49-L51).
THEOREM ParentEndsLast == Spec => []ParentLast
<1>1. Inv => ParentLast
  BY DEF Inv, ReapInv
<1> QED
  BY InvHolds, <1>1, PTL

\* Both signals are sent, or, in 2-1-1.c, none (L32-L36, L45-L48).
THEOREM BothOrNone == Spec => []SendsBoth
<1>1. Inv => SendsBoth
  BY DEF Inv, SendInv
<1> QED
  BY InvHolds, <1>1, PTL

\* Who prints that the parent killed it: in 2-1-2.c (L25, L27) only a child the
\* parent sent its signal to, in 2-1-1.c (L43, L49) only one whose pause a key
\* has ended; and a child that ends in silence was sent the signal, or, in
\* 2-1-2.c, woken by a key.
THEOREM WhoSaysSo == Spec => []SaidWhy
<1>1. Inv => SaidWhy
  BY DEF Inv, CauseInv
<1> QED
  BY InvHolds, <1>1, PTL
=============================================================================
