----------------------------- MODULE PageQueue -----------------------------
(***************************************************************************)
(* What LRU and Clock promise, without page table or frames: the resident  *)
(* pages stand in a queue and the page at its head is the next to leave.   *)
(* LRU sends a page to the tail whenever it is accessed.  Clock gives it a *)
(* second chance: a page accessed since it came to the tail is sent there  *)
(* once more instead of leaving.                                           *)
(***************************************************************************)
EXTENDS Integers, Sequences, SequencesExt

CONSTANT Pages

VARIABLES
    policy,    \* the algorithm at work
    capacity,  \* how many pages fit
    queue,     \* the resident pages
    second     \* those that get a second chance

qvars == <<policy, capacity, queue, second>>

Resident == {queue[k] : k \in DOMAIN queue}
IsFull == Len(queue) = capacity

\* The pages that are given a second chance along with p.
Favoured(p) == IF policy = "Clock" THEN second \cup {p} ELSE second

QInit ==
    /\ capacity \in Nat \ {0}
    /\ queue = <<>> /\ second = {}

AccessRecent(p) ==
    /\ policy = "LRU"
    /\ \E k \in DOMAIN queue : queue[k] = p /\ queue' = Append(RemoveAt(queue, k), p)
    /\ UNCHANGED <<policy, capacity, second>>

AccessFavoured(p) ==
    /\ policy = "Clock" /\ p \in Resident
    /\ second' = second \cup {p}
    /\ UNCHANGED <<policy, capacity, queue>>

Load(p) ==
    /\ p \notin Resident /\ ~IsFull
    /\ queue' = Append(queue, p) /\ second' = Favoured(p)
    /\ UNCHANGED <<policy, capacity>>

Spare ==
    /\ IsFull /\ Head(queue) \in second
    /\ queue' = Append(Tail(queue), Head(queue))
    /\ second' = second \ {Head(queue)}
    /\ UNCHANGED <<policy, capacity>>

Replace(p) ==
    /\ p \notin Resident /\ IsFull /\ Head(queue) \notin second
    /\ queue' = Append(Tail(queue), p) /\ second' = Favoured(p)
    /\ UNCHANGED <<policy, capacity>>

\* The next algorithm begins with nothing loaded.
Switch == policy' # policy /\ queue' = <<>> /\ second' = {} /\ UNCHANGED capacity

QNext ==
    \/ \E p \in Pages : AccessRecent(p) \/ AccessFavoured(p) \/ Load(p) \/ Replace(p)
    \/ Spare
    \/ Switch

QSpec == QInit /\ [][QNext]_qvars
=============================================================================
