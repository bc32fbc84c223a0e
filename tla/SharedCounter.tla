--------------------------- MODULE SharedCounter ---------------------------
(***************************************************************************)
(* Two threads that change one variable in a loop, and the main thread     *)
(* that creates and joins them: 1-6-.c without a lock ("none"), 1-7-.c     *)
(* with a semaphore and spinlock.c with a test-and-set lock.               *)
(*                                                                         *)
(* The three share one module: they differ in what stands around the       *)
(* update.  An update reads and writes the variable in two steps; without  *)
(* a lock this race is undefined in C, and what an optimizing compiler     *)
(* makes of it (the loop added up in a register) ends in results that are  *)
(* among those of the two steps.  A failing pthread_create is not modelled.*)
(***************************************************************************)
EXTENDS Integers

CONSTANTS
    ROUNDS,   \* turns of the loop: 100000, and 5000 in spinlock.c
    STEP      \* what 1-6-.c and 1-7-.c add and subtract: 100

ASSUME CounterAssumption == ROUNDS \in Nat /\ STEP \in Nat

VARIABLES
    program,  \* which of the three programs runs
    created,  \* threads main has created
    joined,   \* threads main has joined
    pc,       \* where a thread is in its loop
    i,        \* the turns it completed
    register, \* what it read of the variable
    shared,   \* the variable, shared_value in spinlock.c
    sem,
    flag      \* of the spin lock

vars == <<program, created, joined, pc, i, register, shared, sem, flag>>

Programs == {"none", "semaphore", "spinlock"}
Threads == 1..2

\* What a turn of thread t adds.
Delta(t) == IF program = "spinlock" THEN 1 ELSE IF t = 1 THEN STEP ELSE -STEP

\* Mutant: the semaphore lets two in.
InitTwo ==
    /\ program \in Programs
    /\ created = 0 /\ joined = 0
    /\ pc = [t \in Threads |-> "new"]
    /\ i = [t \in Threads |-> 0]
    /\ register = [t \in Threads |-> 0]
    /\ shared = 0 /\ sem = 2 /\ flag = 0

Init ==
    /\ program \in Programs
    /\ created = 0 /\ joined = 0
    /\ pc = [t \in Threads |-> "new"]
    /\ i = [t \in Threads |-> 0]
    /\ register = [t \in Threads |-> 0]
    /\ shared = 0 /\ sem = 1 /\ flag = 0

-----------------------------------------------------------------------------
(* The main thread.                                                         *)

pthread_create(t) ==
    /\ t = created + 1
    /\ created' = t /\ pc' = [pc EXCEPT ![t] = "loop"]
    /\ UNCHANGED <<program, joined, i, register, shared, sem, flag>>

pthread_join(t) ==
    /\ created = 2 /\ t = joined + 1 /\ pc[t] = "ended"
    /\ joined' = t
    /\ UNCHANGED <<program, created, pc, i, register, shared, sem, flag>>

\* The result is printed and main returns.
Printed == joined = 2

-----------------------------------------------------------------------------
(* A thread.                                                                *)

\* Mutant: one turn too many.
InLoopLong(t) == pc[t] = "loop" /\ i[t] <= ROUNDS

InLoop(t) == pc[t] = "loop" /\ i[t] < ROUNDS

Goes(t, l) == pc' = [pc EXCEPT ![t] = l]

\* One turn is complete.
Turn(t) == i' = [i EXCEPT ![t] = @ + 1] /\ Goes(t, "loop")

sem_wait(t) ==
    /\ program = "semaphore" /\ InLoop(t) /\ sem > 0
    /\ sem' = sem - 1 /\ Goes(t, "load")
    /\ UNCHANGED <<program, created, joined, i, register, shared, flag>>

\* Mutant: the answer of the test-and-set is ignored.
spinlock_lockBlind(t) ==
    /\ program = "spinlock" /\ InLoop(t)
    /\ flag' = 1 /\ Goes(t, "load")
    /\ UNCHANGED <<program, created, joined, i, register, shared, sem>>

\* The test-and-set answers 0: the lock is taken.
spinlock_lock(t) ==
    /\ program = "spinlock" /\ InLoop(t) /\ flag = 0
    /\ flag' = 1 /\ Goes(t, "load")
    /\ UNCHANGED <<program, created, joined, i, register, shared, sem>>

\* It answers 1: once more.
Spin(t) ==
    /\ program = "spinlock" /\ InLoop(t) /\ flag = 1
    /\ UNCHANGED vars

Load(t) ==
    /\ pc[t] = "load" \/ (program = "none" /\ InLoop(t))
    /\ register' = [register EXCEPT ![t] = shared] /\ Goes(t, "store")
    /\ UNCHANGED <<program, created, joined, i, shared, sem, flag>>

Store(t) ==
    /\ pc[t] = "store"
    /\ shared' = register[t] + Delta(t)
    /\ IF program = "none" THEN Turn(t) ELSE Goes(t, "unlock") /\ UNCHANGED i
    /\ UNCHANGED <<program, created, joined, register, sem, flag>>

sem_post(t) ==
    /\ program = "semaphore" /\ pc[t] = "unlock"
    /\ sem' = sem + 1 /\ Turn(t)
    /\ UNCHANGED <<program, created, joined, register, shared, flag>>

\* Mutant: the flag is not cleared.
spinlock_unlockKept(t) ==
    /\ program = "spinlock" /\ pc[t] = "unlock"
    /\ Turn(t)
    /\ UNCHANGED <<program, created, joined, register, shared, sem, flag>>

spinlock_unlock(t) ==
    /\ program = "spinlock" /\ pc[t] = "unlock"
    /\ flag' = 0 /\ Turn(t)
    /\ UNCHANGED <<program, created, joined, register, shared, sem>>

Return(t) ==
    /\ pc[t] = "loop" /\ ~InLoop(t)
    /\ Goes(t, "ended")
    /\ UNCHANGED <<program, created, joined, i, register, shared, sem, flag>>

-----------------------------------------------------------------------------

main == \E t \in Threads : pthread_create(t) \/ pthread_join(t)

Thread(t) ==
    \/ sem_wait(t) \/ spinlock_lock(t) \/ Spin(t)
    \/ Load(t) \/ Store(t)
    \/ sem_post(t) \/ spinlock_unlock(t)
    \/ Return(t)

\* The process has ended.
Ended == Printed /\ UNCHANGED vars

Next == main \/ (\E t \in Threads : Thread(t)) \/ Ended

\* The scheduler runs every thread that can run; nothing says that the lock
\* goes to the one that waited longest.
Spec == Init /\ [][Next]_vars /\ WF_vars(main) /\ \A t \in Threads : WF_vars(Thread(t))

-----------------------------------------------------------------------------
(* Properties.                                                              *)

\* Between the call that takes the lock and the end of the one that returns it.
Inside(t) == pc[t] \in {"load", "store", "unlock"}

\* The semaphore (1-7-.c L11-L13, L21-L23) and the spin lock (spinlock.c
\* L32-L34) let one thread at a time at the variable.
MutualExclusion ==
    program # "none" => \A t, u \in Threads : Inside(t) /\ Inside(u) => t = u

\* The stores thread t has made.
Stores(t) == i[t] + (IF pc[t] = "unlock" THEN 1 ELSE 0)

\* With a lock no update is lost: at any moment the variable is the sum of
\* what has been stored, so 1-7-.c prints 0 and spinlock.c 2 * ROUNDS.
CountExact ==
    program # "none" => shared = Delta(1) * Stores(1) + Delta(2) * Stores(2)

\* Without a lock (1-6-.c) updates are lost, but the result is at worst what one
\* thread would have made alone.
LossBounded ==
    program = "none" => shared \in -(STEP * ROUNDS)..(STEP * ROUNDS)

\* All three programs end, although a thread may lose the race for the lock to
\* the other any number of times: the other one has finitely many turns.
Terminates == <>Printed
=============================================================================
