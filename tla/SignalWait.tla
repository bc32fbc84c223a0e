---------------------------- MODULE SignalWait ----------------------------
(***************************************************************************)
(* A parent that ends its two children with signals, after a while or when *)
(* a key (Ctrl+C, Ctrl+\) is pressed: 2-1-1.c, where the parent sleeps, and *)
(* 2-1-2.c, where it sets an alarm and pauses.                             *)
(*                                                                         *)
(* A key sends a signal to every process of the group.  A signal is first  *)
(* pending and delivered in a later step; one of a kind is pending at most *)
(* once.  A pause ends only with a handler that runs during it.  Time is   *)
(* not measured: the five seconds may pass at any point.  The model begins *)
(* when the parent has installed its handlers (2-1-1.c L24, 2-1-2.c L35).  *)
(***************************************************************************)
EXTENDS Integers

CONSTANT MaxKeys  \* bound: how often a key is pressed

ASSUME KeysAssumption == MaxKeys \in Nat

Children == {1, 2}
Parent == 0
Processes == {Parent} \cup Children

VARIABLES
    program,  \* "sleep" for 2-1-1.c, "alarm" for 2-1-2.c
    parent,   \* where the parent is
    child,    \* where each child is
    flag,     \* the parent's; the children do not read theirs
    pending,  \* the signals on their way to each process: KEY, ALRM, USR
    alarm,    \* whether the alarm is set
    handler,  \* the children that handle the parent's signal
    sent,     \* history: the children the parent has sent it to
    said,     \* the children that printed that the parent killed them
    missed,   \* history: the processes a signal reached before their pause
    woken,    \* history: the children whose pause a key has ended
    keys      \* how often a key was pressed

vars == <<program, parent, child, flag, pending, alarm, handler, sent, said, missed, woken, keys>>

Init ==
    /\ program \in {"sleep", "alarm"}
    /\ parent = "fork 1" /\ child = [c \in Children |-> "unborn"]
    /\ flag = 0 /\ pending = [p \in Processes |-> {}] /\ alarm = FALSE
    /\ handler = {} /\ sent = {} /\ said = {} /\ missed = {} /\ woken = {} /\ keys = 0

Alive(p) == IF p = Parent THEN parent # "end"
            ELSE child[p] \notin {"unborn", "zombie", "reaped"}

Arrives(sig, at) == pending' = [p \in Processes |-> pending[p] \cup
                                  (IF p \in at /\ Alive(p) THEN {sig} ELSE {})]
Taken(sig, p) == sig \in pending[p] /\ pending' = [pending EXCEPT ![p] = @ \ {sig}]

-----------------------------------------------------------------------------
(* The keyboard.                                                            *)

\* A child that is not yet born does not get the signal.
Key ==
    /\ keys < MaxKeys /\ keys' = keys + 1
    /\ Arrives("KEY", Processes)
    /\ missed' = missed \cup {c \in Children : child[c] = "unborn"}
    /\ UNCHANGED <<program, parent, child, flag, alarm, handler, sent, said, woken>>

-----------------------------------------------------------------------------
(* The parent.                                                              *)

Goes(here, next) == parent = here /\ parent' = next

\* Handlers are inherited, signals on their way and the alarm are not.  A fork
\* that fails is tried again and changes nothing.
fork(c, here, next) ==
    /\ Goes(here, next)
    /\ child' = [child EXCEPT ![c] = IF program = "alarm" THEN "born" ELSE "to pause"]
    /\ UNCHANGED <<program, flag, pending, alarm, handler, sent, said, missed, woken, keys>>

\* sleep ends after its time, or with a handler that runs during it.
sleep ==
    /\ program = "sleep" /\ Goes("begin", "test")
    /\ UNCHANGED <<program, child, flag, pending, alarm, handler, sent, said, missed, woken, keys>>

SetAlarm ==
    /\ program = "alarm" /\ Goes("begin", "to pause")
    /\ alarm' = TRUE
    /\ UNCHANGED <<program, child, flag, pending, handler, sent, said, missed, woken, keys>>

AlarmRings ==
    /\ alarm /\ alarm' = FALSE
    /\ Arrives("ALRM", {Parent})
    /\ UNCHANGED <<program, parent, child, flag, handler, sent, said, missed, woken, keys>>

ParentPauses ==
    /\ Goes("to pause", "paused")
    /\ UNCHANGED <<program, child, flag, pending, alarm, handler, sent, said, missed, woken, keys>>

\* Mutant: only the keyboard's handler sets the flag.
ParentHandlesKey(sig) ==
    /\ Taken(sig, Parent)
    /\ flag' = IF sig = "KEY" THEN 1 ELSE flag
    /\ parent' = IF parent = "paused" THEN "test" ELSE parent
    /\ missed' = IF sig = "ALRM" /\ parent = "to pause" THEN missed \cup {Parent} ELSE missed
    /\ UNCHANGED <<program, child, alarm, handler, sent, said, woken, keys>>

\* inter_handler and alarm_handler.
ParentHandles(sig) ==
    /\ Taken(sig, Parent)
    /\ flag' = 1
    /\ parent' = IF parent = "paused" THEN "test" ELSE parent
    /\ missed' = IF sig = "ALRM" /\ parent = "to pause" THEN missed \cup {Parent} ELSE missed
    /\ UNCHANGED <<program, child, alarm, handler, sent, said, woken, keys>>

\* Mutant: both programs ask for the same value of flag.
TestSame ==
    /\ Goes("test", IF flag = 1 THEN "kill 1" ELSE "wait 1")
    /\ UNCHANGED <<program, child, flag, pending, alarm, handler, sent, said, missed, woken, keys>>

\* if (!flag) in 2-1-1.c, if (flag) in 2-1-2.c.
Test ==
    /\ Goes("test", IF (flag = 1) = (program = "alarm") THEN "kill 1" ELSE "wait 1")
    /\ UNCHANGED <<program, child, flag, pending, alarm, handler, sent, said, missed, woken, keys>>

kill(c, here, next) ==
    /\ Goes(here, next)
    /\ Arrives("USR", {c}) /\ sent' = sent \cup {c}
    /\ UNCHANGED <<program, child, flag, alarm, handler, said, missed, woken, keys>>

\* Mutant: the first child that ends lets the parent go.
waitOnce(here, next) ==
    /\ Goes(here, "end")
    /\ \E c \in Children : child[c] = "zombie" /\ child' = [child EXCEPT ![c] = "reaped"]
    /\ UNCHANGED <<program, flag, pending, alarm, handler, sent, said, missed, woken, keys>>

\* Whichever child ended first; a handler that runs meanwhile restarts the call.
wait(here, next) ==
    /\ Goes(here, next)
    /\ \E c \in Children : child[c] = "zombie" /\ child' = [child EXCEPT ![c] = "reaped"]
    /\ UNCHANGED <<program, flag, pending, alarm, handler, sent, said, missed, woken, keys>>

parent_runs ==
    \/ fork(1, "fork 1", "fork 2") \/ fork(2, "fork 2", "begin")
    \/ sleep \/ SetAlarm \/ ParentPauses \/ Test
    \/ kill(1, "kill 1", "kill 2") \/ kill(2, "kill 2", "wait 1")
    \/ wait("wait 1", "wait 2") \/ wait("wait 2", "end")

-----------------------------------------------------------------------------
(* A child.                                                                 *)

ChildGoes(c, here, next) == child[c] = here /\ child' = [child EXCEPT ![c] = next]

\* signal(SIGUSR1 or SIGUSR2, child_signal_handler), 2-1-2.c only.
Install(c) ==
    /\ ChildGoes(c, "born", "to pause")
    /\ handler' = handler \cup {c}
    /\ UNCHANGED <<program, parent, flag, pending, alarm, sent, said, missed, woken, keys>>

ChildPauses(c) ==
    /\ ChildGoes(c, "to pause", "paused")
    /\ UNCHANGED <<program, parent, flag, pending, alarm, handler, sent, said, missed, woken, keys>>

ChildHandlesKey(c) ==
    /\ Taken("KEY", c) /\ Alive(c)
    /\ IF child[c] = "paused"
       THEN ChildGoes(c, "paused", "woken") /\ woken' = woken \cup {c}
       ELSE UNCHANGED <<child, woken>>
    /\ missed' = IF child[c] \in {"born", "to pause"} THEN missed \cup {c} ELSE missed
    /\ UNCHANGED <<program, parent, flag, alarm, handler, sent, said, keys>>

\* Mutant: the handler is there from the start, in both programs.
ChildGetsKillHandled(c) ==
    /\ Taken("USR", c) /\ Alive(c)
    /\ child' = [child EXCEPT ![c] = "zombie"]
    /\ said' = said \cup {c}
    /\ UNCHANGED <<program, parent, flag, alarm, handler, sent, missed, woken, keys>>

\* child_signal_handler prints and exits; without it the signal ends the child.
ChildGetsKill(c) ==
    /\ Taken("USR", c) /\ Alive(c)
    /\ child' = [child EXCEPT ![c] = "zombie"]
    /\ said' = IF c \in handler THEN said \cup {c} ELSE said
    /\ UNCHANGED <<program, parent, flag, alarm, handler, sent, missed, woken, keys>>

\* After the pause 2-1-1.c prints, 2-1-2.c returns at once.
ChildReturns(c) ==
    /\ ChildGoes(c, "woken", "zombie")
    /\ said' = IF program = "sleep" THEN said \cup {c} ELSE said
    /\ UNCHANGED <<program, parent, flag, pending, alarm, handler, sent, missed, woken, keys>>

child_runs(c) == Install(c) \/ ChildPauses(c) \/ ChildReturns(c)
delivered(c) == ChildHandlesKey(c) \/ ChildGetsKill(c)
handled == ParentHandles("KEY") \/ ParentHandles("ALRM")

Next ==
    \/ Key
    \/ parent_runs \/ AlarmRings \/ handled
    \/ \E c \in Children : child_runs(c) \/ delivered(c)

\* Every process runs as long as it can, a signal that is on its way is
\* delivered, the time passes.  Nobody has to press a key.
Spec == Init /\ [][Next]_vars
             /\ WF_vars(parent_runs) /\ WF_vars(AlarmRings) /\ WF_vars(handled)
             /\ \A c \in Children : WF_vars(child_runs(c)) /\ WF_vars(delivered(c))

-----------------------------------------------------------------------------
(* Properties.                                                              *)

\* The parent ends, unless a signal came too early: a key before a child had
\* reached its pause, or before the child was born, which 2-1-1.c does not make
\* up for (L32), or the alarm before the parent's own pause (2-1-2.c L43-L44).
Lost == IF program = "sleep" THEN missed \cap Children # {} ELSE Parent \in missed
EndsUnlessLost == <>(parent = "end" \/ Lost)

\* The parent prints that it ends after both children have, whatever wakes whom
\* in which order.
ParentLast == parent = "end" => \A c \in Children : child[c] = "reaped"

\* 2-1-2.c sends both signals before it waits, since no pause returns with flag
\* at 0; 2-1-1.c sends both or none.
SendsBoth ==
    parent \in {"wait 1", "wait 2", "end"} =>
        sent = Children \/ (sent = {} /\ program = "sleep")

Dead(c) == child[c] \in {"zombie", "reaped"}

\* Who says "killed by parent" (2-1-1.c L43, L49; 2-1-2.c L25, L27).  In 2-1-2.c
\* only a child the parent sent its signal to; one a key has woken ends without
\* a word.  In 2-1-1.c the words are false: a child says so only when a key has
\* ended its pause, whether or not the parent has sent it anything, and the
\* child its parent does kill never says so.
SaidWhy ==
    /\ said \subseteq (IF program = "alarm" THEN sent ELSE woken)
    /\ \A c \in Children : Dead(c) /\ c \notin said =>
          c \in sent \/ (program = "alarm" /\ c \in woken)
=============================================================================
