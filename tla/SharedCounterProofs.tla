------------------------- MODULE SharedCounterProofs -------------------------
(***************************************************************************)
(* Mutual exclusion and exact counting with a lock, and the bound on what  *)
(* is lost without one, for any number of rounds and any step.             *)
(***************************************************************************)
EXTENDS SharedCounter, TLAPS

Places == {"new", "loop", "load", "store", "unlock", "ended"}

TypeInv ==
    /\ program \in Programs /\ created \in 0..2
    /\ pc \in [Threads -> Places]
    /\ i \in [Threads -> 0..ROUNDS]
    /\ register \in [Threads -> Int]
    /\ shared \in Int /\ sem \in Int /\ flag \in {0, 1}

\* A thread runs once it is created, only a program with a lock has something to
\* unlock, and a turn that has begun is within the loop.
PlaceInv ==
    \A t \in Threads :
        /\ pc[t] = "new" <=> t > created
        /\ program = "none" => pc[t] \notin {"load", "unlock"}
        /\ pc[t] \in {"load", "store", "unlock"} => i[t] < ROUNDS

\* The lock is free, and nobody is inside, or it is taken by one thread.
Locked == IF program = "semaphore" THEN sem = 0 ELSE flag = 1
Unlocked == IF program = "semaphore" THEN sem = 1 ELSE flag = 0

LockInv ==
    program # "none" =>
        \/ Unlocked /\ \A t \in Threads : ~Inside(t)
        \/ Locked /\ \E t \in Threads : Inside(t) /\ \A u \in Threads : Inside(u) => u = t

\* Whoever is about to store has read the present value.
FreshInv == program # "none" => \A t \in Threads : pc[t] = "store" => register[t] = shared

Sound == TypeInv /\ PlaceInv /\ LockInv /\ FreshInv /\ CountExact

-----------------------------------------------------------------------------

\* LockInv is stated so that it is inductive; it excludes two threads inside.
LEMMA LockExcludes == LockInv => MutualExclusion
  BY DEF LockInv, MutualExclusion

LEMMA SoundInit == Init => Sound
  BY CounterAssumption, Z3T(30)
  DEF Init, Sound, TypeInv, PlaceInv, LockInv, FreshInv, CountExact, Programs, Threads, Places,
      Inside, Unlocked, Stores, Delta

\* No step disturbs the types or the places.
LEMMA TypeStep == TypeInv /\ PlaceInv /\ [Next]_vars => TypeInv' /\ PlaceInv'
<1> SUFFICES ASSUME TypeInv, PlaceInv, [Next]_vars PROVE TypeInv' /\ PlaceInv'
  OBVIOUS
<1> USE CounterAssumption DEF TypeInv, PlaceInv, Threads, Places, Programs
<1>1. CASE main
  BY <1>1 DEF main, pthread_create, pthread_join
<1>2. ASSUME NEW t \in Threads, sem_wait(t) \/ spinlock_lock(t) \/ Spin(t)
      PROVE  TypeInv' /\ PlaceInv'
  BY <1>2 DEF sem_wait, spinlock_lock, Spin, InLoop, Goes, vars
<1>3. ASSUME NEW t \in Threads, Load(t)
      PROVE  TypeInv' /\ PlaceInv'
  BY <1>3 DEF Load, InLoop, Goes
<1>4. ASSUME NEW t \in Threads, Store(t)
      PROVE  TypeInv' /\ PlaceInv'
  <2>1. Delta(t) \in Int
    BY DEF Delta
  <2>2. shared' \in Int
    BY <1>4, <2>1 DEF Store
  <2> QED
    BY <1>4, <2>2 DEF Store, Turn, Goes
<1>5. ASSUME NEW t \in Threads, sem_post(t) \/ spinlock_unlock(t) \/ Return(t)
      PROVE  TypeInv' /\ PlaceInv'
  BY <1>5 DEF sem_post, spinlock_unlock, Return, Turn, Goes
<1>6. CASE UNCHANGED vars
  BY <1>6 DEF vars
<1> QED
  BY <1>1, <1>2, <1>3, <1>4, <1>5, <1>6 DEF Next, Thread, Ended

\* The lock protects the variable, and so what is stored adds up.
LEMMA SoundStep == Sound /\ [Next]_vars => Sound'
<1> SUFFICES ASSUME Sound, [Next]_vars PROVE Sound'
  OBVIOUS
<1>0. TypeInv /\ PlaceInv /\ TypeInv' /\ PlaceInv'
  BY TypeStep DEF Sound
<1> DEFINE Rest == LockInv /\ FreshInv /\ CountExact
<1>q. SUFFICES Rest'
  BY <1>0 DEF Sound
<1>r. Rest
  BY DEF Sound
<1> USE <1>0, <1>r, CounterAssumption
    DEF LockInv, FreshInv, CountExact, Inside, Locked, Unlocked, Stores, Threads, TypeInv, PlaceInv, Delta
<1>1. CASE main
  BY <1>1 DEF main, pthread_create, pthread_join
<1>2. ASSUME NEW t \in Threads, sem_wait(t)
      PROVE  Rest'
  BY <1>2 DEF sem_wait, InLoop, Goes
<1>3. ASSUME NEW t \in Threads, spinlock_lock(t)
      PROVE  Rest'
  BY <1>3 DEF spinlock_lock, InLoop, Goes
<1>4. ASSUME NEW t \in Threads, Load(t)
      PROVE  Rest'
  BY <1>4 DEF Load, InLoop, Goes
<1>5. ASSUME NEW t \in Threads, Store(t)
      PROVE  Rest'
  BY <1>5 DEF Store, Turn, Goes
<1>6. ASSUME NEW t \in Threads, sem_post(t)
      PROVE  Rest'
  BY <1>6 DEF sem_post, Turn, Goes
<1>7. ASSUME NEW t \in Threads, spinlock_unlock(t)
      PROVE  Rest'
  BY <1>7 DEF spinlock_unlock, Turn, Goes
<1>8. ASSUME NEW t \in Threads, Return(t)
      PROVE  Rest'
  BY <1>8 DEF Return, InLoop, Goes
<1>9. CASE UNCHANGED vars
  BY <1>9 DEF vars
<1> QED
  BY <1>1, <1>2, <1>3, <1>4, <1>5, <1>6, <1>7, <1>8, <1>9 DEF Next, Thread, Ended, Spin

\* Sound is the inductive invariant.
LEMMA SoundAlways == Spec => []Sound
  BY SoundInit, SoundStep, PTL DEF Spec

-----------------------------------------------------------------------------
(* With a lock.                                                             *)

\* The semaphore of 1-7-.c and the test-and-set lock of spinlock.c keep the two
\* threads apart, whatever the number of rounds.
THEOREM Exclusion == Spec => []MutualExclusion
<1>1. Sound => MutualExclusion
  BY LockExcludes DEF Sound
<1> QED
  BY <1>1, SoundAlways, PTL

\* With either lock no update is lost.
THEOREM CountsExactly == Spec => []CountExact
<1>1. Sound => CountExact
  BY DEF Sound
<1> QED
  BY <1>1, SoundAlways, PTL

\* What the two programs print at the end: 0, and twice the rounds.
Result ==
    Printed => /\ program = "semaphore" => shared = 0
               /\ program = "spinlock" => shared = 2 * ROUNDS

\* A thread that has ended has done all its rounds, and a joined one has ended.
EndInv ==
    /\ joined \in 0..2
    /\ \A t \in Threads : /\ t <= joined => pc[t] = "ended"
                          /\ pc[t] = "ended" => i[t] = ROUNDS

\* Ended threads take no step.
LEMMA EndStep == Sound /\ EndInv /\ [Next]_vars => EndInv'
<1> SUFFICES ASSUME Sound, EndInv, [Next]_vars PROVE EndInv'
  OBVIOUS
<1> USE CounterAssumption DEF Sound, TypeInv, PlaceInv, EndInv, Threads, Places
<1>1. CASE main
  BY <1>1 DEF main, pthread_create, pthread_join
<1>2. ASSUME NEW t \in Threads, Thread(t)
      PROVE  EndInv'
  BY <1>2 DEF Thread, sem_wait, spinlock_lock, Spin, Load, Store, sem_post, spinlock_unlock,
              Return, Turn, InLoop, Goes, vars
<1>3. CASE UNCHANGED vars
  BY <1>3 DEF vars
<1> QED
  BY <1>1, <1>2, <1>3 DEF Next, Ended

\* 1-7-.c prints 0 and spinlock.c 2 * ROUNDS (10000 there), in every schedule.
THEOREM PrintsTheSum == Spec => []Result
<1>1. Init => EndInv
  BY DEF Init, EndInv, Threads
<1>2. Sound /\ EndInv => Result
  <2> SUFFICES ASSUME Sound, EndInv, Printed PROVE Result
    BY DEF Result
  <2>1. \A t \in Threads : Stores(t) = ROUNDS
    BY CounterAssumption DEF EndInv, Printed, Stores, Threads
  <2>2. CASE program = "semaphore"
    BY <2>1, <2>2, CounterAssumption DEF Sound, CountExact, Result, Delta, Threads
  <2>3. CASE program = "spinlock"
    BY <2>1, <2>3, CounterAssumption DEF Sound, CountExact, Result, Delta, Threads
  <2> QED
    BY <2>2, <2>3 DEF Result
<1> QED
  BY <1>1, <1>2, EndStep, SoundAlways, PTL DEF Spec

-----------------------------------------------------------------------------
(* Without a lock.                                                          *)

\* What has been read and what is stored lies between what thread 2 and what
\* thread 1 would have made alone so far.
Low == -(STEP * i[2])
High == STEP * i[1]

BetweenInv ==
    program = "none" =>
        /\ Low <= shared /\ shared <= High
        /\ \A t \in Threads : pc[t] = "store" => Low <= register[t] /\ register[t] <= High

\* One turn more moves the bound by one step, and the bounds are monotone.
LEMMA Product ==
    ASSUME NEW n \in Nat
    PROVE  /\ STEP * n \in Nat
           /\ STEP * (n + 1) = STEP * n + STEP
           /\ n <= ROUNDS => STEP * n <= STEP * ROUNDS
<1> USE CounterAssumption
<1>1. STEP * n \in Nat
  OBVIOUS
<1>2. STEP * (n + 1) = STEP * n + STEP
  OBVIOUS
<1>3. ASSUME n <= ROUNDS PROVE STEP * n <= STEP * ROUNDS
  BY <1>3, SMT
<1> QED
  BY <1>1, <1>2, <1>3

\* A turn that ends can only widen the bounds.
LEMMA BetweenStep == Sound /\ BetweenInv /\ [Next]_vars => BetweenInv'
<1> SUFFICES ASSUME Sound, BetweenInv, [Next]_vars, program' = "none"
             PROVE  BetweenInv'
  BY DEF BetweenInv
<1>0. TypeInv /\ PlaceInv /\ STEP \in Nat
  BY CounterAssumption DEF Sound
<1>t. i[1] \in Nat /\ i[2] \in Nat
  BY <1>0, CounterAssumption DEF TypeInv, Threads
<1>p. Low \in Int /\ High \in Int
  BY <1>t, Product DEF Low, High
<1>1. CASE main
  <2>1. UNCHANGED <<program, i, register, shared>> /\ Low' = Low /\ High' = High
    BY <1>1 DEF main, pthread_create, pthread_join, Low, High
  <2>2. \A t \in Threads : pc'[t] = "store" => pc[t] = "store"
    BY <1>0, <1>1 DEF main, pthread_create, pthread_join, TypeInv, Threads
  <2> QED
    BY <2>1, <2>2 DEF BetweenInv
<1>2. ASSUME NEW t \in Threads, Load(t)
      PROVE  BetweenInv'
  <2>1. UNCHANGED <<program, i, shared>> /\ Low' = Low /\ High' = High
    BY <1>2 DEF Load, Low, High
  <2>2. \A u \in Threads : u = t \/ (pc'[u] = pc[u] /\ register'[u] = register[u])
    BY <1>0, <1>2 DEF Load, Goes, TypeInv
  <2>3. register'[t] = shared
    BY <1>0, <1>2 DEF Load, TypeInv
  <2> QED
    BY <2>1, <2>2, <2>3 DEF BetweenInv
<1>3. ASSUME NEW t \in Threads, Store(t)
      PROVE  BetweenInv'
  <2>1. program = "none" /\ pc[t] = "store" /\ shared' = register[t] + Delta(t)
        /\ i' = [i EXCEPT ![t] = @ + 1] /\ pc' = [pc EXCEPT ![t] = "loop"]
        /\ register' = register
    BY <1>3 DEF Store, Turn, Goes
  <2>2. t = 1 => Low' = Low /\ High' = High + STEP /\ Delta(t) = STEP
    BY <1>0, <1>t, <2>1, Product DEF Low, High, Delta, TypeInv, Threads
  <2>3. t = 2 => Low' = Low - STEP /\ High' = High /\ Delta(t) = -STEP
    <3>1. ASSUME t = 2 PROVE i'[2] = i[2] + 1 /\ i'[1] = i[1]
      BY <1>0, <2>1, <3>1 DEF TypeInv, Threads
    <3>2. STEP * (i[2] + 1) = STEP * i[2] + STEP /\ STEP * i[2] \in Nat
      BY <1>t, Product
    <3> QED
      BY <1>0, <2>1, <3>1, <3>2 DEF Low, High, Delta
  <2>4. Low <= register[t] /\ register[t] <= High /\ Low <= shared /\ shared <= High
        /\ \A u \in Threads : register[u] \in Int
    BY <1>0, <2>1 DEF BetweenInv, TypeInv
  <2>5. Low' <= Low /\ High <= High' /\ Low' \in Int /\ High' \in Int
        /\ Low' <= shared' /\ shared' <= High'
    BY <1>0, <1>p, <2>1, <2>2, <2>3, <2>4 DEF Threads
  <2>6. \A u \in Threads : pc'[u] = "store" => Low <= register[u] /\ register[u] <= High
    BY <1>0, <2>1 DEF BetweenInv, TypeInv
  <2> QED
    BY <1>p, <2>1, <2>4, <2>5, <2>6 DEF BetweenInv
<1>4. ASSUME NEW t \in Threads, Return(t)
      PROVE  BetweenInv'
  <2>1. UNCHANGED <<program, i, register, shared>> /\ Low' = Low /\ High' = High
    BY <1>4 DEF Return, Low, High
  <2>2. \A u \in Threads : pc'[u] = "store" => pc[u] = "store"
    BY <1>0, <1>4 DEF Return, Goes, TypeInv
  <2> QED
    BY <2>1, <2>2 DEF BetweenInv
<1>5. CASE UNCHANGED vars
  BY <1>5 DEF vars, BetweenInv, Low, High
<1>6. ASSUME NEW t \in Threads,
             sem_wait(t) \/ spinlock_lock(t) \/ Spin(t) \/ sem_post(t) \/ spinlock_unlock(t)
      PROVE  FALSE
  BY <1>6 DEF sem_wait, spinlock_lock, Spin, sem_post, spinlock_unlock, vars
<1> QED
  BY <1>1, <1>2, <1>3, <1>4, <1>5, <1>6 DEF Next, Thread, Ended

\* What 1-6-.c prints, without a lock, is off by STEP * ROUNDS at most.
THEOREM LossIsBounded == Spec => []LossBounded
<1>1. Init => BetweenInv
  BY CounterAssumption DEF Init, BetweenInv, Low, High, Threads
<1>2. Sound /\ BetweenInv => LossBounded
  <2> SUFFICES ASSUME Sound, BetweenInv, program = "none" PROVE LossBounded
    BY DEF LossBounded
  <2>1. i[1] \in Nat /\ i[2] \in Nat /\ i[1] <= ROUNDS /\ i[2] <= ROUNDS /\ shared \in Int
    BY CounterAssumption DEF Sound, TypeInv, Threads
  <2>2. STEP * i[1] <= STEP * ROUNDS /\ STEP * i[2] <= STEP * ROUNDS
        /\ STEP * i[1] \in Nat /\ STEP * i[2] \in Nat /\ STEP * ROUNDS \in Nat
    BY <2>1, Product, CounterAssumption
  <2>3. -(STEP * i[2]) <= shared /\ shared <= STEP * i[1]
    BY DEF BetweenInv, Low, High
  <2> QED
    BY <2>1, <2>2, <2>3 DEF LossBounded
<1> QED
  BY <1>1, <1>2, BetweenStep, SoundAlways, PTL DEF Spec
=============================================================================
