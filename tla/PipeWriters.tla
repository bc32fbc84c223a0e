---------------------------- MODULE PipeWriters ----------------------------
(***************************************************************************)
(* A parent and two children that write to one pipe: 2-2-1.c, where each   *)
(* child holds a record lock while it writes, and 2-2-2.c, where the calls *)
(* of lockf are commented out.  The parent reads after both have ended.    *)
(*                                                                         *)
(* pipe, lockf and wait are the system's.  lockf is taken to work on a     *)
(* pipe; where it does not, 2-2-1.c, which ignores its result, behaves as  *)
(* 2-2-2.c does.                                                           *)
(***************************************************************************)
EXTENDS Integers, Sequences, FiniteSets

CONSTANTS
    WRITES,   \* characters each child writes: 2000
    TO_READ,  \* characters the parent asks for: 4000
    PIPE_SIZE \* what the pipe holds: 65536, and 4096 for a user with many pipes

ASSUME PipeAssumption ==
    /\ {WRITES, TO_READ, PIPE_SIZE} \subseteq Nat
    /\ 2 * WRITES <= TO_READ /\ TO_READ <= PIPE_SIZE

Children == {1, 2}
Parent == 0
NOBODY == -1

VARIABLES
    locking,  \* 2-2-1.c or 2-2-2.c
    parent,   \* where the parent is
    child,    \* where each child is, "unborn" before its fork
    written,  \* the characters each child has written
    pipe,     \* the characters in the pipe, a character being its writer
    readers,  \* the processes that have fd[0] open
    writers,  \* those that have fd[1] open
    locked,   \* the owner of the lock on the pipe
    InPipe    \* what the parent has read

vars == <<locking, parent, child, written, pipe, readers, writers, locked, InPipe>>

Init ==
    /\ locking \in BOOLEAN
    /\ parent = "fork 1"
    /\ child = [c \in Children |-> "unborn"]
    /\ written = [c \in Children |-> 0]
    /\ pipe = <<>> /\ InPipe = <<>>
    /\ readers = {Parent} /\ writers = {Parent}
    /\ locked = NOBODY

-----------------------------------------------------------------------------
(* The parent.                                                              *)

\* A child gets both ends of the pipe and no lock.  A fork that fails is tried
\* again and changes nothing.
fork(c, here, next) ==
    /\ parent = here /\ parent' = next
    /\ child' = [child EXCEPT ![c] = "born"]
    /\ readers' = readers \cup {c} /\ writers' = writers \cup {c}
    /\ UNCHANGED <<locking, written, pipe, locked, InPipe>>

\* Mutant: the parent closes the end it reads from.
ParentClosesOther ==
    /\ parent = "close" /\ parent' = "wait 1"
    /\ readers' = readers \ {Parent}
    /\ UNCHANGED <<locking, child, written, pipe, writers, locked, InPipe>>

ParentCloses ==
    /\ parent = "close" /\ parent' = "wait 1"
    /\ writers' = writers \ {Parent}
    /\ UNCHANGED <<locking, child, written, pipe, readers, locked, InPipe>>

\* Mutant: the parent reads after the first child has ended.
waitOnce(here, next) ==
    /\ parent = here /\ parent' = "read"
    /\ \E c \in Children : child[c] = "zombie" /\ child' = [child EXCEPT ![c] = "reaped"]
    /\ UNCHANGED <<locking, written, pipe, readers, writers, locked, InPipe>>

wait(here, next) ==
    /\ parent = here /\ parent' = next
    /\ \E c \in Children : child[c] = "zombie" /\ child' = [child EXCEPT ![c] = "reaped"]
    /\ UNCHANGED <<locking, written, pipe, readers, writers, locked, InPipe>>

\* read blocks while the pipe is empty and somebody could still write.
read ==
    /\ parent = "read" /\ parent' = "print"
    /\ pipe # <<>> \/ writers = {}
    /\ LET n == IF Len(pipe) < TO_READ THEN Len(pipe) ELSE TO_READ
       IN  InPipe' = SubSeq(pipe, 1, n) /\ pipe' = SubSeq(pipe, n + 1, Len(pipe))
    /\ UNCHANGED <<locking, child, written, readers, writers, locked>>

\* The result is printed, the read end closed.
Printing ==
    /\ parent = "print" /\ parent' = "end"
    /\ readers' = readers \ {Parent}
    /\ UNCHANGED <<locking, child, written, pipe, writers, locked, InPipe>>

parent_runs ==
    \/ fork(1, "fork 1", "fork 2") \/ fork(2, "fork 2", "close")
    \/ ParentCloses
    \/ wait("wait 1", "wait 2") \/ wait("wait 2", "read")
    \/ read \/ Printing

-----------------------------------------------------------------------------
(* A child.                                                                 *)

Step(c, here, next) == child[c] = here /\ child' = [child EXCEPT ![c] = next]

ChildCloses(c) ==
    /\ Step(c, "born", IF locking THEN "lock" ELSE "write")
    /\ readers' = readers \ {c}
    /\ UNCHANGED <<locking, parent, written, pipe, writers, locked, InPipe>>

\* Mutant: the lock is tried, not waited for.
lockTried(c) ==
    /\ Step(c, "lock", "write")
    /\ locked' = IF locked = NOBODY THEN c ELSE locked
    /\ UNCHANGED <<locking, parent, written, pipe, readers, writers, InPipe>>

lock(c) ==
    /\ Step(c, "lock", "write")
    /\ locked = NOBODY /\ locked' = c
    /\ UNCHANGED <<locking, parent, written, pipe, readers, writers, InPipe>>

\* Mutant: the terminator of the string is written along with its character.
writeTwo(c) ==
    /\ child[c] = "write" /\ written[c] < WRITES
    /\ readers # {} /\ Len(pipe) < PIPE_SIZE
    /\ written' = [written EXCEPT ![c] = @ + 1]
    /\ pipe' = pipe \o <<c, c>>
    /\ UNCHANGED <<locking, parent, child, readers, writers, locked, InPipe>>

\* One character; write waits for room.  Without a reader SIGPIPE would end the
\* child: HasReader shows that this does not arise.
write(c) ==
    /\ child[c] = "write" /\ written[c] < WRITES
    /\ readers # {} /\ Len(pipe) < PIPE_SIZE
    /\ written' = [written EXCEPT ![c] = @ + 1]
    /\ pipe' = Append(pipe, c)
    /\ UNCHANGED <<locking, parent, child, readers, writers, locked, InPipe>>

unlock(c) ==
    /\ written[c] = WRITES /\ Step(c, "write", "close")
    /\ locked' = IF locked = c THEN NOBODY ELSE locked
    /\ UNCHANGED <<locking, parent, written, pipe, readers, writers, InPipe>>

\* The write end is closed; then the process ends.
ChildEnds(c) ==
    /\ Step(c, "close", "zombie")
    /\ writers' = writers \ {c}
    /\ UNCHANGED <<locking, parent, written, pipe, readers, locked, InPipe>>

child_runs(c) == ChildCloses(c) \/ lock(c) \/ write(c) \/ unlock(c) \/ ChildEnds(c)

Next == parent_runs \/ \E c \in Children : child_runs(c)

\* Every process runs as long as it can; a fork succeeds in the end.
Spec == Init /\ [][Next]_vars
             /\ WF_vars(parent_runs) /\ \A c \in Children : WF_vars(child_runs(c))

-----------------------------------------------------------------------------
(* Properties.                                                              *)

\* The places where one writer's characters end and the other's begin.
Changes(s) == {k \in 1..(Len(s) - 1) : s[k] # s[k + 1]}

\* With the lock (2-2-1.c L25, L35) the characters of the two children do not
\* interleave, whichever comes first, in the pipe or in what is read.
RunsApart == locking => Cardinality(Changes(pipe)) <= 1 /\ Cardinality(Changes(InPipe)) <= 1

\* The one read (L75) gets every character of both children, although it does
\* not look at its result: the wait before it (L71-L72) makes sure of that.
ReadsAll ==
    parent = "end" => \A c \in Children : Cardinality({k \in DOMAIN InPipe : InPipe[k] = c}) = WRITES

\* Whoever still has to write has a reader: no child closes the end of another,
\* and the parent keeps its own (L68) until both have ended.
HasReader ==
    \A c \in Children :
        child[c] \in {"born", "lock", "write"} /\ written[c] < WRITES => readers # {}

\* Everybody ends: what is written before anything is read (L71-L75) fits in the
\* pipe, and the lock is returned.
Terminates == <>(parent = "end" /\ \A c \in Children : child[c] = "reaped")
=============================================================================
