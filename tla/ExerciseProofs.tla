---------------------------- MODULE ExerciseProofs ----------------------------
(***************************************************************************)
(* The two programs that stand alone.  deadlock.c and deadlock_timeout.c:  *)
(* who owns which mutex, told by where the two threads are.  The Hamming   *)
(* codes: parities are linear, so that what a read finds depends only on   *)
(* the bits that are wrong, and no two positions have the same parities.   *)
(***************************************************************************)
EXTENDS Deadlock, Ecc, FiniteSetTheorems, TLAPS

DeadlockPCs == {"none", "one", "two", "unlock", "unlock one", "done"}
TimeoutPCs == {"none", "one", "two", "both", "release one", "done"}

TypeInv ==
    /\ program \in {"deadlock", "timeout", "simple"}
    /\ pc \in [Threads -> DeadlockPCs \cup TimeoutPCs]
    /\ program = "deadlock" => pc \in [Threads -> DeadlockPCs]
    /\ program = "timeout" => pc \in [Threads -> TimeoutPCs]
    /\ owner \in [Resources -> {Nobody, 1, 2, Main}]
    /\ program # "simple" => owner \in [Resources -> {Nobody, 1, 2}]
    /\ rsrcCnts \in [Resources -> Int]
    /\ passed # {} => program = "timeout"
    /\ safe => program # "simple"

\* What a thread has where it is.
Held(t) ==
    CASE pc[t] \in {"two", "unlock one", "release one"} -> {One(t)}
      [] pc[t] \in {"unlock", "both"} -> {One(t), Two(t)}
      [] OTHER -> {}

\* As long as nobody went on without its first mutex, a mutex is owned by the thread that
\* thinks so.
OwnInv ==
    program # "simple" /\ passed = {} =>
        \A t \in Threads : \A r \in Resources : owner[r] = t <=> r \in Held(t)

\* The flags stay set after a thread gave its mutex back, but the second is set only by the
\* lock that ends the loop.
FlagInv ==
    program = "timeout" /\ passed = {} =>
        \A t \in Threads : /\ pc[t] = "two" => t \in got_one
                           /\ pc[t] \in {"none", "one", "two"} => t \notin got_two

CountInv ==
    program = "timeout" /\ passed = {} =>
        \A r \in Resources : rsrcCnts[r] = (IF owner[r] = Nobody THEN 0 ELSE 1)

\* main creates each thread once; with "safe" thread 2 begins when thread 1 is done.
Apart ==
    /\ mpc = "create 1" => pc[1] = "none"
    /\ mpc \in {"create 1", "create 2"} => pc[2] = "none"
    /\ safe => /\ passed = {}
               /\ mpc = "join 1" => pc[2] = "none"
               /\ mpc \notin {"create 1", "join 1"} => pc[1] = "done"

IInv == TypeInv /\ OwnInv /\ FlagInv /\ CountInv /\ Apart

-----------------------------------------------------------------------------
LEMMA OneTwo ==
    ASSUME NEW t \in Threads
    PROVE  /\ One(t) \in Resources /\ Two(t) \in Resources /\ One(t) # Two(t)
           /\ Resources = {One(t), Two(t)}
           /\ \A u \in Threads : u # t => One(u) = Two(t) /\ Two(u) = One(t)
BY DEF Threads, One, Two, Resources

LEMMA InitIInv == Init => IInv
<1>. SUFFICES ASSUME Init PROVE IInv
  OBVIOUS
<1>1. TypeInv
  <2>1. /\ program \in {"deadlock", "timeout", "simple"}
        /\ passed = {}
        /\ safe => program # "simple"
    BY DEF Init, safe
  <2>2. pc \in [Threads -> {"none"}] BY DEF Init
  <2>3. owner \in [Resources -> {Nobody, Main}] BY DEF Init
  <2>4. program # "simple" => owner \in [Resources -> {Nobody}] BY DEF Init
  <2>5. rsrcCnts = [r \in Resources |-> 0] BY DEF Init
  <2>6. rsrcCnts \in [Resources -> Int] BY <2>5
  <2>7. /\ pc \in [Threads -> DeadlockPCs] /\ pc \in [Threads -> TimeoutPCs]
        /\ pc \in [Threads -> DeadlockPCs \cup TimeoutPCs]
    BY <2>2 DEF DeadlockPCs, TimeoutPCs
  <2>8. /\ owner \in [Resources -> {Nobody, 1, 2, Main}]
        /\ program # "simple" => owner \in [Resources -> {Nobody, 1, 2}]
    BY <2>3, <2>4
  <2>9. passed # {} => program = "timeout" BY <2>1
  <2>. QED BY <2>1, <2>6, <2>7, <2>8, <2>9 DEF TypeInv
<1>2. \A t \in Threads : Held(t) = {}
  BY DEF Init, Held
<1>3. OwnInv
  <2>1. program # "simple" => \A r \in Resources : owner[r] = 0 BY DEF Init, Nobody
  <2>. QED BY <1>2, <2>1 DEF OwnInv, Threads
<1>4. FlagInv /\ CountInv /\ Apart
  BY DEF Init, FlagInv, CountInv, Apart, Threads, safe
<1>. QED BY <1>1, <1>3, <1>4 DEF IInv

\* main only starts threads: nobody owns anything that did not before.
LEMMA MainIInv == ASSUME IInv, MainStep \/ SimpleMain PROVE IInv'
<1>. USE DEF IInv
<1>1. UNCHANGED <<program, mode, owner, got_one, got_two, passed, rsrcCnts>>
  BY DEF MainStep, SimpleMain, config, flags
<1>2. \/ pc' = pc
      \/ mpc = "create 1" /\ pc' = [pc EXCEPT ![1] = "one"]
      \/ mpc = "create 2" /\ pc' = [pc EXCEPT ![2] = "one"]
  BY DEF MainStep, SimpleMain, Goto
<1>3. TypeInv'
  BY <1>1, <1>2 DEF TypeInv, safe, DeadlockPCs, TimeoutPCs, Threads
<1>4. pc \in [Threads -> DeadlockPCs \cup TimeoutPCs] /\ 1 \in Threads /\ 2 \in Threads
  BY DEF TypeInv, Threads
<1>5. \A t \in Threads : pc'[t] = pc[t] \/ (pc[t] = "none" /\ pc'[t] = "one")
  <2>1. CASE mpc = "create 1" /\ pc' = [pc EXCEPT ![1] = "one"]
    BY <1>4, <2>1 DEF Apart
  <2>2. CASE mpc = "create 2" /\ pc' = [pc EXCEPT ![2] = "one"]
    BY <1>4, <2>2 DEF Apart
  <2>. QED BY <1>2, <2>1, <2>2
<1>6. OwnInv' /\ CountInv' /\ FlagInv'
  <2>1. \A t \in Threads : Held(t)' = Held(t)
    BY <1>5 DEF Held
  <2>. QED BY <1>1, <1>5, <2>1 DEF OwnInv, CountInv, FlagInv
<1>7. mpc = "create 1" => pc'[2] = "none"
  <2>1. [pc EXCEPT ![1] = "one"][2] = pc[2] BY <1>4
  <2>. QED BY <2>1, <1>2 DEF Apart
<1>8. Apart'
  <2>0. safe => program # "simple" BY DEF TypeInv
  <2>. USE <2>0, <1>4 DEF Apart, MainStep, SimpleMain, Goto, safe
  <2>1. CASE mpc = "create 1"
    <3>1. pc' = [pc EXCEPT ![1] = "one"] /\ mpc' = IF safe THEN "join 1" ELSE "create 2"
      BY <2>1
    <3>. QED BY <2>1, <3>1, <1>7, <1>1
  <2>2. CASE mpc = "create 2" BY <2>2, <1>1
  <2>3. CASE mpc \notin {"create 1", "create 2"} BY <2>3, <1>1
  <2>. QED BY <2>1, <2>2, <2>3
<1>. QED BY <1>3, <1>6, <1>8

\* What a thread that moves leaves to main and to the other thread.
LEMMA Moves ==
    ASSUME IInv, NEW t \in Threads, NEW at, Goto(t, at), pc[t] \notin {"none", "done"},
           UNCHANGED <<program, mode, mpc>>, safe => passed' = {}, program # "simple"
    PROVE  /\ Apart'
           /\ pc'[t] = at /\ \A u \in Threads : u # t => pc'[u] = pc[u] /\ Held(u)' = Held(u)
<1>1. pc \in [Threads -> DeadlockPCs \cup TimeoutPCs] BY DEF IInv, TypeInv
<1>2. pc'[t] = at /\ \A u \in Threads : u # t => pc'[u] = pc[u] BY <1>1 DEF Goto
<1>3. \A u \in Threads : u # t => Held(u)' = Held(u) BY <1>2 DEF Held
<1>4. Apart' BY <1>1, <1>2 DEF IInv, Apart, safe, Threads
<1>. QED BY <1>2, <1>3, <1>4

LEMMA TypeMoves ==
    ASSUME IInv, NEW t \in Threads, NEW at, Goto(t, at), UNCHANGED <<program, mode>>,
           NEW r \in Resources, NEW o \in {Nobody, t}, owner' = [owner EXCEPT ![r] = o],
           rsrcCnts' \in [Resources -> Int],
           \/ program = "deadlock" /\ at \in DeadlockPCs
           \/ program = "timeout" /\ at \in TimeoutPCs,
           passed' # {} => program = "timeout"
    PROVE  TypeInv'
<1>1. /\ pc' \in [Threads -> DeadlockPCs \cup TimeoutPCs]
      /\ program = "deadlock" => pc' \in [Threads -> DeadlockPCs]
      /\ program = "timeout" => pc' \in [Threads -> TimeoutPCs]
  BY DEF IInv, TypeInv, Goto
<1>2. owner' \in [Resources -> {Nobody, 1, 2}]
  BY DEF IInv, TypeInv, Threads
<1>3. owner' \in [Resources -> {Nobody, 1, 2, Main}] BY <1>2
<1>. QED BY <1>1, <1>2, <1>3 DEF IInv, TypeInv, safe

\* Taking a free mutex, and giving back one that the thread has, keep the books.
LEMMA OwnTake ==
    ASSUME IInv, NEW t \in Threads, NEW r \in Resources, owner[r] = Nobody,
           owner' = [owner EXCEPT ![r] = t], UNCHANGED program, program # "simple",
           passed' = {} => passed = {} /\ Held(t)' = Held(t) \cup {r},
           \A u \in Threads : u # t => Held(u)' = Held(u)
    PROVE  OwnInv'
<1>1. CASE passed' = {}
  <2>. SUFFICES ASSUME NEW u \in Threads, NEW q \in Resources PROVE owner'[q] = u <=> q \in Held(u)'
    BY <1>1 DEF OwnInv
  <2>1. owner[q] = u <=> q \in Held(u) BY <1>1 DEF IInv, OwnInv
  <2>2. Nobody # t /\ Nobody # u BY DEF Nobody, Threads
  <2>3. owner'[q] = IF q = r THEN t ELSE owner[q] BY DEF IInv, TypeInv
  <2>. QED BY <1>1, <2>1, <2>2, <2>3
<1>. QED BY <1>1 DEF OwnInv

LEMMA OwnFree ==
    ASSUME IInv, NEW t \in Threads, NEW r \in Resources,
           owner' = [owner EXCEPT ![r] = Nobody], UNCHANGED program, program # "simple",
           passed' = {} => passed = {} /\ r \in Held(t) /\ Held(t)' = Held(t) \ {r},
           \A u \in Threads : u # t => Held(u)' = Held(u)
    PROVE  OwnInv'
<1>1. CASE passed' = {}
  <2>. SUFFICES ASSUME NEW u \in Threads, NEW q \in Resources PROVE owner'[q] = u <=> q \in Held(u)'
    BY <1>1 DEF OwnInv
  <2>1. owner[q] = u <=> q \in Held(u) BY <1>1 DEF IInv, OwnInv
  <2>2. Nobody # t /\ Nobody # u BY DEF Nobody, Threads
  <2>3. owner'[q] = IF q = r THEN Nobody ELSE owner[q] BY DEF IInv, TypeInv
  <2>4. owner[r] = t BY <1>1 DEF IInv, OwnInv
  <2>. QED BY <1>1, <2>1, <2>2, <2>3, <2>4
<1>. QED BY <1>1 DEF OwnInv

-----------------------------------------------------------------------------
LEMMA LockIInv == ASSUME IInv, NEW t \in Threads, Lock(t) PROVE IInv'
<1>. DEFINE r == IF pc[t] = "one" THEN One(t) ELSE Two(t)
            at == IF pc[t] = "one" THEN "two" ELSE "unlock"
<1>1. /\ program = "deadlock" /\ pc[t] \in {"one", "two"} /\ Take(t, r) /\ Goto(t, at)
      /\ UNCHANGED <<program, mode, mpc, got_one, got_two, passed>>
  BY DEF Lock, config, flags
<1>2. r \in Resources /\ One(t) # Two(t) BY OneTwo
<1>3. passed = {} BY <1>1 DEF IInv, TypeInv
<1>4. /\ Apart'
      /\ pc'[t] = at /\ \A u \in Threads : u # t => pc'[u] = pc[u] /\ Held(u)' = Held(u)
  BY <1>1, <1>3, Moves
<1>5. TypeInv'
  <2>1. rsrcCnts' \in [Resources -> Int] BY <1>1, <1>2 DEF IInv, TypeInv, Take, Count
  <2>. QED BY <1>1, <1>2, <1>3, <2>1, TypeMoves DEF Take, DeadlockPCs
<1>6. Held(t)' = Held(t) \cup {r} BY <1>1, <1>4 DEF Held
<1>7. OwnInv' BY <1>1, <1>2, <1>3, <1>4, <1>6, OwnTake DEF Take
<1>8. FlagInv' /\ CountInv' BY <1>1 DEF FlagInv, CountInv
<1>. QED BY <1>4, <1>5, <1>7, <1>8 DEF IInv

LEMMA UnlockIInv == ASSUME IInv, NEW t \in Threads, Unlock(t) PROVE IInv'
<1>. DEFINE r == IF pc[t] = "unlock" THEN Two(t) ELSE One(t)
            at == IF pc[t] = "unlock" THEN "unlock one" ELSE "done"
<1>1. /\ program = "deadlock" /\ pc[t] \in {"unlock", "unlock one"} /\ Free(r) /\ Goto(t, at)
      /\ UNCHANGED <<program, mode, mpc, got_one, got_two, passed, rsrcCnts>>
  BY DEF Unlock, config, flags
<1>2. r \in Resources /\ One(t) # Two(t) BY OneTwo
<1>3. passed = {} BY <1>1 DEF IInv, TypeInv
<1>4. /\ Apart'
      /\ pc'[t] = at /\ \A u \in Threads : u # t => pc'[u] = pc[u] /\ Held(u)' = Held(u)
  BY <1>1, <1>3, Moves
<1>5. TypeInv'
  <2>1. rsrcCnts' \in [Resources -> Int] BY <1>1 DEF IInv, TypeInv
  <2>. QED BY <1>1, <1>2, <1>3, <2>1, TypeMoves DEF Free, DeadlockPCs
<1>6. r \in Held(t) /\ Held(t)' = Held(t) \ {r} BY <1>1, <1>2, <1>4 DEF Held
<1>7. OwnInv' BY <1>1, <1>2, <1>3, <1>4, <1>6, OwnFree DEF Free
<1>8. FlagInv' /\ CountInv' BY <1>1 DEF FlagInv, CountInv
<1>. QED BY <1>4, <1>5, <1>7, <1>8 DEF IInv

-----------------------------------------------------------------------------
LEMMA TimedOneIInv == ASSUME IInv, NEW t \in Threads, TimedLockOne(t) PROVE IInv'
<1>1. PICK at \in {"two", "both", "done"} :
         /\ program = "timeout" /\ pc[t] = "one" /\ Goto(t, at)
         /\ UNCHANGED <<program, mode, mpc, got_two>>
         /\ owner[One(t)] = Nobody => at = IF t \in got_two THEN "both" ELSE "two"
         /\ owner[One(t)] # Nobody =>
               /\ UNCHANGED <<owner, rsrcCnts, got_one>>
               /\ passed' # {} \/ (at = "done" /\ passed' = passed)
  BY DEF TimedLockOne, config
<1>2. One(t) \in Resources BY OneTwo
<1>3. owner[One(t)] \in {Nobody, 1, 2} BY <1>1, <1>2 DEF IInv, TypeInv
<1>4. ~safe \/ owner[One(t)] = Nobody
  <2>1. SUFFICES ASSUME safe PROVE owner[One(t)] = Nobody
    OBVIOUS
  <2>2. passed = {} /\ \A u \in Threads : u # t => pc[u] \in {"none", "done"}
    BY <1>1, <2>1 DEF IInv, Apart, Threads
  <2>3. \A u \in Threads : owner[One(t)] # u
    BY <1>1, <1>2, <2>2 DEF IInv, OwnInv, Held
  <2>. QED BY <1>3, <2>3 DEF Threads
<1>5. CASE owner[One(t)] = Nobody
  <2>1. /\ Take(t, One(t)) /\ got_one' = got_one \cup {t} /\ passed' = passed
    BY <1>5 DEF TimedLockOne
  <2>2. /\ Apart'
        /\ pc'[t] = at /\ \A u \in Threads : u # t => pc'[u] = pc[u] /\ Held(u)' = Held(u)
    <3>1. safe => passed' = {} BY <2>1 DEF IInv, Apart
    <3>. QED BY <1>1, <3>1, Moves
  <2>3. TypeInv'
    <3>1. rsrcCnts' \in [Resources -> Int] BY <1>2, <2>1 DEF IInv, TypeInv, Take, Count
    <3>. QED BY <1>1, <1>2, <2>1, <3>1, TypeMoves DEF Take, TimeoutPCs
  <2>4. CASE passed = {}
    <3>1. t \notin got_two BY <1>1, <2>4 DEF IInv, FlagInv
    <3>2. at = "two" BY <1>1, <1>5, <3>1
    <3>3. Held(t)' = Held(t) \cup {One(t)} BY <1>1, <2>2, <3>2 DEF Held
    <3>4. OwnInv' BY <1>1, <1>2, <2>1, <2>2, <2>4, <3>3, OwnTake DEF Take
    <3>5. FlagInv' BY <1>1, <2>1, <2>2, <2>4, <3>1 DEF IInv, FlagInv
    <3>6. CountInv'
      <4>1. SUFFICES ASSUME NEW r \in Resources
                     PROVE  rsrcCnts'[r] = IF owner'[r] = Nobody THEN 0 ELSE 1
        BY DEF CountInv
      <4>2. rsrcCnts[r] = IF owner[r] = Nobody THEN 0 ELSE 1 BY <1>1, <2>4 DEF IInv, CountInv
      <4>. QED BY <1>2, <1>5, <2>1, <4>2 DEF Take, Count, IInv, TypeInv, Nobody, Threads
    <3>. QED BY <2>2, <2>3, <3>4, <3>5, <3>6 DEF IInv
  <2>5. CASE passed # {}
    BY <2>1, <2>2, <2>3, <2>5 DEF IInv, OwnInv, FlagInv, CountInv
  <2>. QED BY <2>4, <2>5
<1>6. CASE owner[One(t)] # Nobody
  <2>1. Apart' /\ pc'[t] = at /\ \A u \in Threads : u # t => pc'[u] = pc[u] /\ Held(u)' = Held(u)
    BY <1>1, <1>4, <1>6, Moves
  <2>2. TypeInv'
    <3>1. owner \in [Resources -> {Nobody, 1, 2}] BY <1>1 DEF IInv, TypeInv
    <3>2. pc' \in [Threads -> TimeoutPCs] BY <1>1 DEF IInv, TypeInv, Goto, TimeoutPCs
    <3>3. pc' \in [Threads -> DeadlockPCs \cup TimeoutPCs] BY <3>2
    <3>. QED BY <1>1, <1>6, <3>2, <3>3 DEF IInv, TypeInv, safe
  <2>3. CASE passed' # {} BY <2>1, <2>2, <2>3 DEF IInv, OwnInv, FlagInv, CountInv
  <2>4. CASE passed' = {}
    <3>1. at = "done" /\ passed = {} BY <1>1, <1>6, <2>4
    <3>2. Held(t)' = Held(t) BY <1>1, <2>1, <3>1 DEF Held
    <3>3. \A u \in Threads : Held(u)' = Held(u) BY <2>1, <3>2
    <3>4. OwnInv' BY <1>1, <1>6, <3>1, <3>3 DEF IInv, OwnInv
    <3>5. FlagInv' BY <1>1, <1>6, <2>1, <3>1 DEF IInv, FlagInv
    <3>6. CountInv' BY <1>1, <1>6, <3>1 DEF IInv, CountInv
    <3>. QED BY <2>1, <2>2, <3>4, <3>5, <3>6 DEF IInv
  <2>. QED BY <2>3, <2>4
<1>. QED BY <1>5, <1>6

\* Giving back a mutex that is owned keeps its count right.
LEMMA CountFree ==
    ASSUME IInv, NEW t \in Threads, NEW r \in Resources, program = "timeout",
           Free(r), rsrcCnts' = Count(r, -1), passed' = {} => passed = {} /\ r \in Held(t)
    PROVE  CountInv'
<1>. SUFFICES ASSUME passed' = {}, NEW q \in Resources
              PROVE  rsrcCnts'[q] = IF owner'[q] = Nobody THEN 0 ELSE 1
  BY DEF CountInv
<1>1. rsrcCnts[q] = IF owner[q] = Nobody THEN 0 ELSE 1 BY DEF IInv, CountInv
<1>2. owner[r] = t BY DEF IInv, OwnInv
<1>3. rsrcCnts'[q] = IF q = r THEN rsrcCnts[q] - 1 ELSE rsrcCnts[q] BY DEF Count, IInv, TypeInv
<1>4. owner'[q] = IF q = r THEN Nobody ELSE owner[q] BY DEF Free, IInv, TypeInv
<1>5. t # Nobody BY DEF Threads, Nobody
<1>. QED BY <1>1, <1>2, <1>3, <1>4, <1>5

LEMMA TimedTwoIInv == ASSUME IInv, NEW t \in Threads, TimedLockTwo(t) PROVE IInv'
<1>1. PICK at \in {"one", "both", "done"} :
         /\ program = "timeout" /\ pc[t] = "two" /\ Goto(t, at)
         /\ UNCHANGED <<program, mode, mpc, got_one, passed>>
         /\ owner[Two(t)] = Nobody => at = IF t \in got_one THEN "both" ELSE "one"
         /\ owner[Two(t)] # Nobody => at \in {"one", "done"}
  BY DEF TimedLockTwo, config
<1>2. One(t) \in Resources /\ Two(t) \in Resources /\ One(t) # Two(t) BY OneTwo
<1>3. /\ Apart'
      /\ pc'[t] = at /\ \A u \in Threads : u # t => pc'[u] = pc[u] /\ Held(u)' = Held(u)
  <2>1. safe => passed' = {} BY <1>1 DEF IInv, Apart
  <2>. QED BY <1>1, <2>1, Moves
<1>4. CASE owner[Two(t)] = Nobody
  <2>1. Take(t, Two(t)) /\ got_two' = got_two \cup {t} BY <1>4 DEF TimedLockTwo
  <2>2. TypeInv'
    <3>1. rsrcCnts' \in [Resources -> Int] BY <1>2, <2>1 DEF IInv, TypeInv, Take, Count
    <3>. QED BY <1>1, <1>2, <2>1, <3>1, TypeMoves DEF Take, TimeoutPCs
  <2>3. CASE passed = {}
    <3>1. t \in got_one BY <1>1, <2>3 DEF IInv, FlagInv
    <3>2. at = "both" BY <1>1, <1>4, <3>1
    <3>3. Held(t)' = Held(t) \cup {Two(t)} BY <1>1, <1>3, <3>2 DEF Held
    <3>4. OwnInv' BY <1>1, <1>2, <1>3, <2>1, <2>3, <3>3, OwnTake DEF Take
    <3>5. FlagInv' BY <1>1, <1>3, <2>1, <2>3, <3>2 DEF IInv, FlagInv
    <3>6. CountInv'
      <4>1. SUFFICES ASSUME NEW r \in Resources
                     PROVE  rsrcCnts'[r] = IF owner'[r] = Nobody THEN 0 ELSE 1
        BY DEF CountInv
      <4>2. rsrcCnts[r] = IF owner[r] = Nobody THEN 0 ELSE 1 BY <1>1, <2>3 DEF IInv, CountInv
      <4>. QED BY <1>2, <1>4, <2>1, <4>2 DEF Take, Count, IInv, TypeInv, Nobody, Threads
    <3>. QED BY <1>3, <2>2, <3>4, <3>5, <3>6 DEF IInv
  <2>4. CASE passed # {}
    BY <1>1, <1>3, <2>2, <2>4 DEF IInv, OwnInv, FlagInv, CountInv
  <2>. QED BY <2>3, <2>4
<1>5. CASE owner[Two(t)] # Nobody
  <2>1. /\ rsrcCnts' = Count(One(t), -1) /\ Free(One(t)) /\ got_two' = got_two
        /\ at \in {"one", "done"}
    BY <1>1, <1>5 DEF TimedLockTwo
  <2>2. TypeInv'
    <3>1. rsrcCnts' \in [Resources -> Int] BY <1>2, <2>1 DEF IInv, TypeInv, Count
    <3>. QED BY <1>1, <1>2, <2>1, <3>1, TypeMoves DEF Free, TimeoutPCs, IInv, TypeInv
  <2>3. One(t) \in Held(t) /\ Held(t)' = Held(t) \ {One(t)} BY <1>1, <1>3, <2>1 DEF Held
  <2>4. OwnInv' BY <1>1, <1>2, <1>3, <2>1, <2>3, OwnFree DEF Free
  <2>5. FlagInv' BY <1>1, <1>3, <2>1 DEF IInv, FlagInv
  <2>6. CountInv' BY <1>1, <1>2, <2>1, <2>3, CountFree
  <2>. QED BY <1>3, <2>2, <2>4, <2>5, <2>6 DEF IInv
<1>. QED BY <1>4, <1>5

LEMMA ReleaseIInv == ASSUME IInv, NEW t \in Threads, ReleaseBoth(t) PROVE IInv'
<1>. DEFINE r == IF pc[t] = "both" THEN Two(t) ELSE One(t)
            at == IF pc[t] = "both" THEN "release one" ELSE "done"
<1>1. /\ program = "timeout" /\ pc[t] \in {"both", "release one"} /\ Goto(t, at)
      /\ Free(r) /\ rsrcCnts' = Count(r, -1)
      /\ UNCHANGED <<program, mode, mpc, got_one, got_two, passed>>
  BY DEF ReleaseBoth, config, flags
<1>2. r \in Resources /\ One(t) # Two(t) BY OneTwo
<1>3. /\ Apart'
      /\ pc'[t] = at /\ \A u \in Threads : u # t => pc'[u] = pc[u] /\ Held(u)' = Held(u)
  <2>1. safe => passed' = {} BY <1>1 DEF IInv, Apart
  <2>. QED BY <1>1, <2>1, Moves
<1>4. TypeInv'
  <2>1. ASSUME NEW q \in Resources PROVE Count(q, -1) \in [Resources -> Int]
    BY DEF IInv, TypeInv, Count
  <2>2. rsrcCnts' \in [Resources -> Int] BY <1>1, <1>2, <2>1
  <2>. QED BY <1>1, <1>2, <2>2, TypeMoves DEF Free, TimeoutPCs
<1>5. r \in Held(t) /\ Held(t)' = Held(t) \ {r} BY <1>1, <1>2, <1>3 DEF Held
<1>6. OwnInv' BY <1>1, <1>2, <1>3, <1>5, OwnFree DEF Free
<1>7. FlagInv' BY <1>1, <1>3 DEF IInv, FlagInv
<1>8. CountInv' BY <1>1, <1>2, <1>5, CountFree
<1>. QED BY <1>3, <1>4, <1>6, <1>7, <1>8 DEF IInv

\* deadlock_simple_timeout.c: the other invariants say nothing of it.
LEMMA SimpleIInv == ASSUME IInv, NEW t \in Threads, SimpleTry(t) PROVE IInv'
<1>1. /\ program = "simple" /\ UNCHANGED <<program, mode, mpc, pc, passed, rsrcCnts>>
      /\ owner' = [owner EXCEPT !["A"] = IF @ = Nobody THEN t ELSE @]
  BY DEF SimpleTry, config, flags
<1>2. owner' \in [Resources -> {Nobody, 1, 2, Main}] BY <1>1 DEF IInv, TypeInv, Threads
<1>3. TypeInv' BY <1>1, <1>2 DEF IInv, TypeInv, safe
<1>. QED BY <1>1, <1>3 DEF IInv, OwnInv, FlagInv, CountInv, Apart, safe

LEMMA NextIInv == ASSUME IInv, [Next]_vars PROVE IInv'
<1>1. CASE MainStep \/ SimpleMain BY <1>1, MainIInv
<1>2. ASSUME NEW t \in Threads, Thread(t) PROVE IInv'
  BY <1>2, SimpleIInv, LockIInv, UnlockIInv, TimedOneIInv, TimedTwoIInv, ReleaseIInv DEF Thread
<1>3. CASE UNCHANGED vars
  BY <1>3 DEF vars, config, flags, IInv, TypeInv, OwnInv, FlagInv, CountInv, Apart, Held, safe
<1>. QED BY <1>1, <1>2, <1>3 DEF Next

-----------------------------------------------------------------------------
LEMMA Invariant == Spec => []IInv
BY InitIInv, NextIInv, PTL DEF Spec

\* A thread of deadlock_timeout.c that leaves its loop owns both mutexes and the counts are
\* right, unless one has gone on to its second mutex after a time-out of the first.
THEOREM BothUnlessPassedTheorem == Spec => []BothUnlessPassed
<1>1. ASSUME IInv PROVE BothUnlessPassed
  <2>1. SUFFICES ASSUME program = "timeout", passed = {} PROVE BothUnlessPassed
    BY DEF BothUnlessPassed
  <2>2. ASSUME NEW t \in Threads
        PROVE  /\ pc[t] = "both" => owner[One(t)] = t /\ owner[Two(t)] = t
               /\ pc[t] = "release one" => owner[One(t)] = t
    <3>1. \A r \in Resources : owner[r] = t <=> r \in Held(t) BY <1>1, <2>1 DEF IInv, OwnInv
    <3>. QED BY <3>1, OneTwo DEF Held
  <2>3. \A r \in Resources : rsrcCnts[r] = (IF owner[r] = Nobody THEN 0 ELSE 1)
    BY <1>1, <2>1 DEF IInv, CountInv
  <2>. QED BY <2>2, <2>3 DEF BothUnlessPassed
<1>. QED BY <1>1, Invariant, PTL

\* With "safe" neither program times out or waits for a mutex.
THEOREM SafeNeverWaitsTheorem == Spec => []SafeNeverWaits
<1>1. ASSUME IInv PROVE SafeNeverWaits
  <2>1. SUFFICES ASSUME safe PROVE SafeNeverWaits
    BY DEF SafeNeverWaits
  <2>2. passed = {} /\ program # "simple" BY <1>1, <2>1 DEF IInv, Apart, TypeInv
  <2>3. ASSUME NEW t \in Threads, NEW r \in Resources, pc[t] \in {"one", "two"}, owner[r] # Nobody
        PROVE  owner[r] = t
    <3>1. \A u \in Threads : u # t => pc[u] \in {"none", "done"}
      <4>1. CASE t = 1 BY <1>1, <2>1, <2>3, <4>1 DEF IInv, Apart, Threads
      <4>2. CASE t = 2 BY <1>1, <2>1, <2>3, <4>2 DEF IInv, Apart, Threads
      <4>. QED BY <4>1, <4>2 DEF Threads
    <3>2. \A u \in Threads : u # t => owner[r] # u
      BY <1>1, <2>2, <3>1 DEF IInv, OwnInv, Held
    <3>3. owner[r] \in Threads BY <1>1, <2>2, <2>3 DEF IInv, TypeInv, Threads
    <3>. QED BY <3>2, <3>3
  <2>4. ASSUME NEW t \in Threads
        PROVE  /\ pc[t] = "one" => owner[One(t)] = Nobody
               /\ pc[t] = "two" => owner[Two(t)] = Nobody
    <3>1. \A r \in Resources : owner[r] = t <=> r \in Held(t) BY <1>1, <2>2 DEF IInv, OwnInv
    <3>. QED BY <2>3, <3>1, OneTwo DEF Held
  <2>. QED BY <2>2, <2>4 DEF SafeNeverWaits
<1>. QED BY <1>1, Invariant, PTL

-----------------------------------------------------------------------------
(***************************************************************************)
(* The Hamming codes                                                       *)
(***************************************************************************)

LEMMA EvenDifference ==
    ASSUME NEW a \in Nat, NEW b \in Nat, NEW c \in Nat
    PROVE  (a + b - 2 * c) % 2 = 1 <=> ((a % 2 = 1) # (b % 2 = 1))
<1>1. (a + b - 2 * c) % 2 = (a + b) % 2
  BY SMT
<1>2. (a % 2 = 0 \/ a % 2 = 1) /\ (b % 2 = 0 \/ b % 2 = 1)
  BY SMT
<1>3. (a + b) % 2 = 1 <=> ((a % 2 = 1) # (b % 2 = 1))
  BY <1>2, SMT
<1> QED
  BY <1>1, <1>3

LEMMA WordsFinite ==
    ASSUME NEW word \in SUBSET Positions
    PROVE  IsFiniteSet(word) /\ Cardinality(word) \in Nat
<1>1. IsFiniteSet(Positions)
  <2>1. 0 \in Int /\ 15 \in Int
    OBVIOUS
  <2>2. IsFiniteSet(0 .. 15)
    BY <2>1, FS_Interval, Zenon
  <2> QED
    BY <2>2 DEF Positions
<1> QED
  BY <1>1, FS_Subset, FS_CardinalityType

LEMMA OddToggle ==
    ASSUME NEW a \in SUBSET Positions, NEW b \in SUBSET Positions
    PROVE  Odd(Toggle(a, b)) <=> (Odd(a) # Odd(b))
<1> DEFINE c == a \cap b
<1>1. IsFiniteSet(a) /\ IsFiniteSet(b) /\ IsFiniteSet(c)
  BY WordsFinite
<1>2. Cardinality(a) \in Nat /\ Cardinality(b) \in Nat /\ Cardinality(c) \in Nat
  BY WordsFinite
<1>3. Cardinality(a \ b) = Cardinality(a) - Cardinality(c) /\ IsFiniteSet(a \ b)
  BY <1>1, FS_Difference
<1>4. Cardinality(b \ a) = Cardinality(b) - Cardinality(c) /\ IsFiniteSet(b \ a)
  <2>1. b \cap a = c
    OBVIOUS
  <2> QED
    BY <1>1, <2>1, FS_Difference
<1>5. (a \ b) \cap (b \ a) = {}
  OBVIOUS
<1>6. Cardinality(Toggle(a, b)) = Cardinality(a \ b) + Cardinality(b \ a)
  <2>1. Cardinality((a \ b) \cup (b \ a)) =
            Cardinality(a \ b) + Cardinality(b \ a) - Cardinality((a \ b) \cap (b \ a))
    BY <1>3, <1>4, FS_Union
  <2>2. Cardinality((a \ b) \cap (b \ a)) = 0
    BY <1>5, FS_EmptySet
  <2>3. Cardinality(a \ b) \in Int /\ Cardinality(b \ a) \in Int
    BY <1>2, <1>3, <1>4
  <2> QED
    BY <2>1, <2>2, <2>3 DEF Toggle
<1>7. Cardinality(Toggle(a, b)) = Cardinality(a) + Cardinality(b) - 2 * Cardinality(c)
  <2> HIDE DEF c
  <2> QED
    BY <1>2, <1>3, <1>4, <1>6
<1> HIDE DEF c
<1> QED
  BY <1>2, <1>7, EvenDifference DEF Odd

LEMMA Covered ==
    ASSUME NEW p \in CheckBits
    PROVE  /\ Covers[p] = {i \in 1 .. 15 : (i \div p) % 2 = 1}
           /\ \A i \in Positions : i \in Covers[p] <=> (i \div p) % 2 = 1
<1>1. Covers[p] = {i \in 1 .. 15 : (i \div p) % 2 = 1}
  BY DEF Covers
<1>2. p \in {1, 2, 4, 8}
  BY DEF CheckBits
<1>3. (0 \div p) % 2 = 0
  BY <1>2
<1>4. \A i \in 0 .. 15 : i = 0 \/ i \in 1 .. 15
  OBVIOUS
<1> QED
  BY <1>1, <1>3, <1>4 DEF Positions

LEMMA ParitiesToggle ==
    ASSUME NEW a \in SUBSET Positions, NEW b \in SUBSET Positions
    PROVE  Parities(Toggle(a, b)) = Toggle(Parities(a), Parities(b))
<1>1. ASSUME NEW p \in CheckBits
      PROVE  Odd(Toggle(a, b) \cap Covers[p]) <=> (Odd(a \cap Covers[p]) # Odd(b \cap Covers[p]))
  <2>1. Toggle(a, b) \cap Covers[p] = Toggle(a \cap Covers[p], b \cap Covers[p])
    BY DEF Toggle
  <2>2. a \cap Covers[p] \in SUBSET Positions /\ b \cap Covers[p] \in SUBSET Positions
    OBVIOUS
  <2>3. Odd(Toggle(a \cap Covers[p], b \cap Covers[p]))
            <=> (Odd(a \cap Covers[p]) # Odd(b \cap Covers[p]))
    BY <2>2, OddToggle
  <2> QED
    BY <2>1, <2>3, Zenon
<1>2. ASSUME NEW p \in CheckBits
      PROVE  p \in Parities(Toggle(a, b)) <=> p \in Toggle(Parities(a), Parities(b))
  <2>1. p \in Parities(Toggle(a, b)) <=> Odd(Toggle(a, b) \cap Covers[p])
    BY DEF Parities
  <2>2. p \in Parities(a) <=> Odd(a \cap Covers[p])
    BY DEF Parities
  <2>3. p \in Parities(b) <=> Odd(b \cap Covers[p])
    BY DEF Parities
  <2>4. p \in Toggle(Parities(a), Parities(b))
            <=> \/ p \in Parities(a) /\ p \notin Parities(b)
                \/ p \notin Parities(a) /\ p \in Parities(b)
    BY DEF Toggle
  <2>5. Odd(Toggle(a, b) \cap Covers[p])
            <=> \/ Odd(a \cap Covers[p]) /\ ~Odd(b \cap Covers[p])
                \/ ~Odd(a \cap Covers[p]) /\ Odd(b \cap Covers[p])
    BY <1>1 DEF Odd
  <2> QED
    BY <2>1, <2>2, <2>3, <2>4, <2>5, Zenon
<1>3. Parities(Toggle(a, b)) \subseteq CheckBits /\ Toggle(Parities(a), Parities(b)) \subseteq CheckBits
  BY DEF Parities, Toggle
<1> QED
  BY <1>2, <1>3

LEMMA OddSmall ==
    /\ ~Odd({})
    /\ \A i : Odd({i})
    /\ Parities({}) = {}
<1>1. ~Odd({})
  BY FS_EmptySet DEF Odd
<1>2. ASSUME NEW i
      PROVE  Odd({i})
  <2>1. Cardinality({i}) = 1
    BY FS_Singleton, Zenon
  <2> QED
    BY <2>1 DEF Odd
<1>3. \A p \in CheckBits : {} \cap Covers[p] = {}
  OBVIOUS
<1> QED
  BY <1>1, <1>2, <1>3 DEF Parities

LEMMA ParitiesOfOne ==
    ASSUME NEW i \in Positions
    PROVE  Parities({i}) = {p \in CheckBits : (i \div p) % 2 = 1}
<1>1. ASSUME NEW p \in CheckBits
      PROVE  Odd({i} \cap Covers[p]) <=> (i \div p) % 2 = 1
  <2>1. CASE i \in Covers[p]
    <3>1. {i} \cap Covers[p] = {i}
      BY <2>1
    <3> QED
      BY <2>1, <3>1, OddSmall, Covered
  <2>2. CASE i \notin Covers[p]
    <3>1. {i} \cap Covers[p] = {}
      BY <2>2
    <3> QED
      BY <2>2, <3>1, OddSmall, Covered
  <2> QED
    BY <2>1, <2>2
<1> QED
  BY <1>1 DEF Parities

LEMMA FourBits ==
    ASSUME NEW i \in 0 .. 15, NEW j \in 0 .. 15,
           i % 2 = 1 <=> j % 2 = 1,
           (i \div 2) % 2 = 1 <=> (j \div 2) % 2 = 1,
           (i \div 4) % 2 = 1 <=> (j \div 4) % 2 = 1,
           (i \div 8) % 2 = 1 <=> (j \div 8) % 2 = 1
    PROVE  i = j
  BY SMTT(60)

LEMMA SamePosition ==
    ASSUME NEW i \in Positions, NEW j \in Positions, 
           \A p \in CheckBits : (i \div p) % 2 = 1 <=> (j \div p) % 2 = 1
    PROVE  i = j
<1>1. i \in 0 .. 15 /\ j \in 0 .. 15
  BY DEF Positions
<1>2. 1 \in CheckBits /\ 2 \in CheckBits /\ 4 \in CheckBits /\ 8 \in CheckBits
  BY DEF CheckBits
<1>3. i \div 1 = i /\ j \div 1 = j
  BY <1>1
<1>4. i % 2 = 1 <=> j % 2 = 1
  BY <1>2, <1>3
<1>5. (i \div 2) % 2 = 1 <=> (j \div 2) % 2 = 1
  BY <1>2
<1>6. (i \div 4) % 2 = 1 <=> (j \div 4) % 2 = 1
  BY <1>2
<1>7. (i \div 8) % 2 = 1 <=> (j \div 8) % 2 = 1
  BY <1>2
<1> QED
  BY <1>1, <1>4, <1>5, <1>6, <1>7, FourBits

LEMMA PositionOfOne ==
    ASSUME NEW i \in Positions
    PROVE  Position(Parities({i})) = i
<1> DEFINE Is(j) == \A p \in CheckBits : (j \div p) % 2 = 1 <=> p \in Parities({i})
<1>1. Is(i)
  BY ParitiesOfOne
<1>2. ASSUME NEW j \in Positions, Is(j)
      PROVE  j = i
  <2>1. \A p \in CheckBits : (j \div p) % 2 = 1 <=> (i \div p) % 2 = 1
    BY <1>1, <1>2
  <2> QED
    BY <2>1, SamePosition
<1> HIDE DEF Is
<1>3. (CHOOSE j \in Positions : Is(j)) = i
  BY <1>1, <1>2
<1>4. Position(Parities({i})) = CHOOSE j \in Positions : Is(j)
  BY DEF Position, Is
<1> QED
  BY <1>3, <1>4

LEMMA OnesDiffer ==
    ASSUME NEW i \in Positions, NEW j \in Positions, Parities({i}) = Parities({j})
    PROVE  i = j
  BY PositionOfOne

LEMMA Layout ==
    /\ CheckBits \subseteq Positions /\ DataBits \subseteq Positions /\ PW \in Positions
    /\ CheckBits \cap DataBits = {} /\ PW \notin CheckBits /\ PW \notin DataBits
    /\ \A p \in CheckBits : Covers[p] \cap CheckBits = {p} /\ PW \notin Covers[p]
<1>1. CheckBits \subseteq Positions /\ DataBits \subseteq Positions /\ PW \in Positions
  BY DEF CheckBits, DataBits, PW, Positions
<1>2. CheckBits \cap DataBits = {} /\ PW \notin CheckBits /\ PW \notin DataBits
  BY DEF CheckBits, DataBits, PW
<1>3. ASSUME NEW p \in CheckBits
      PROVE  Covers[p] \cap CheckBits = {p} /\ PW \notin Covers[p]
  <2>1. ASSUME NEW q \in CheckBits
        PROVE  (q \div p) % 2 = 1 <=> q = p
    BY <1>3 DEF CheckBits
  <2>2. \A q \in CheckBits : q \in Covers[p] <=> (q \div p) % 2 = 1
    BY <1>1, Covered
  <2>3. PW \notin Covers[p]
    BY Covered DEF PW
  <2> QED
    BY <2>1, <2>2, <2>3
<1> QED
  BY <1>1, <1>2, <1>3

\* The check bits of a word stand for themselves.
LEMMA ParitiesOfCode ==
    ASSUME NEW code \in SUBSET (CheckBits \cup {PW})
    PROVE  Parities(code) = code \ {PW}
<1>1. ASSUME NEW p \in CheckBits
      PROVE  Odd(code \cap Covers[p]) <=> p \in code
  <2>1. code \cap Covers[p] = code \cap {p}
    BY Layout
  <2>2. CASE p \in code
    <3>1. code \cap {p} = {p}
      BY <2>2
    <3> QED
      BY <2>1, <2>2, <3>1, OddSmall
  <2>3. CASE p \notin code
    <3>1. code \cap {p} = {}
      BY <2>3
    <3> QED
      BY <2>1, <2>3, <3>1, OddSmall
  <2> QED
    BY <2>2, <2>3
<1>2. code \ {PW} \subseteq CheckBits
  OBVIOUS
<1>3. \A p \in CheckBits : p \in Parities(code) <=> p \in code \ {PW}
  BY <1>1, Layout DEF Parities
<1>4. Parities(code) \subseteq CheckBits
  BY DEF Parities
<1> QED
  BY <1>2, <1>3, <1>4

LEMMA ToggleFacts ==
    ASSUME NEW a, NEW b
    PROVE  /\ Toggle(a, {}) = a /\ Toggle({}, a) = a
           /\ Toggle(a, a) = {}
           /\ a \cap b = {} => Toggle(a, b) = a \cup b
           /\ Toggle(a, Toggle(a, b)) = b
           /\ Toggle(Toggle(a, b), b) = a
  BY DEF Toggle

\* A byte with its parities; the parity of the whole word is still missing.
LEMMA Halfword ==
    ASSUME NEW byte \in SUBSET DataBits
    PROVE  /\ Parities(byte) \in SUBSET CheckBits
           /\ byte \cup Parities(byte) = Toggle(byte, Parities(byte))
           /\ byte \cup Parities(byte) \in SUBSET Positions
           /\ Parities(byte \cup Parities(byte)) = {}
           /\ PW \notin byte \cup Parities(byte)
<1>1. Parities(byte) \in SUBSET CheckBits
  BY DEF Parities
<1>2. byte \cup Parities(byte) = Toggle(byte, Parities(byte))
  <2>1. byte \cap Parities(byte) = {}
    BY <1>1, Layout
  <2> QED
    BY <2>1, ToggleFacts
<1>3. byte \in SUBSET Positions /\ Parities(byte) \in SUBSET Positions
  BY <1>1, Layout
<1>4. Parities(Parities(byte)) = Parities(byte)
  <2>1. Parities(byte) \in SUBSET (CheckBits \cup {PW}) /\ PW \notin Parities(byte)
    BY <1>1, Layout
  <2>2. Parities(Parities(byte)) = Parities(byte) \ {PW}
    BY <2>1, ParitiesOfCode
  <2> QED
    BY <2>1, <2>2
<1>5. Parities(Toggle(byte, Parities(byte))) = Toggle(Parities(byte), Parities(byte))
  BY <1>3, <1>4, ParitiesToggle
<1>6. Parities(byte \cup Parities(byte)) = {}
  BY <1>2, <1>5, ToggleFacts
<1>7. PW \notin byte \cup Parities(byte)
  BY <1>1, Layout
<1> QED
  BY <1>1, <1>2, <1>3, <1>6, <1>7

\* The word of a byte: its data and check bits, and the parity that makes it even.
WordOf(byte) ==
    IF Odd(byte \cup Parities(byte)) THEN byte \cup Parities(byte) \cup {PW} ELSE byte \cup Parities(byte)

LEMMA WordFacts ==
    ASSUME NEW byte \in SUBSET DataBits
    PROVE  /\ WordOf(byte) \in SUBSET Positions
           /\ WordOf(byte) \cap DataBits = byte
           /\ Parities(WordOf(byte)) = {}
           /\ ~Odd(WordOf(byte))
           /\ WordOf(byte) = byte \cup get_codeword(byte)
           /\ get_codeword(byte) \in SUBSET (CheckBits \cup {PW})
<1> DEFINE w == byte \cup Parities(byte)
<1>1. /\ w \in SUBSET Positions /\ PW \notin w /\ Parities(w) = {}
      /\ Parities(byte) \in SUBSET CheckBits
  BY Halfword
<1>2. w \cap DataBits = byte /\ (w \cup {PW}) \cap DataBits = byte
  BY <1>1, Layout
<1>3. w \cup {PW} = Toggle(w, {PW})
  <2>1. w \cap {PW} = {}
    BY <1>1
  <2> HIDE DEF w
  <2> QED
    BY <2>1, ToggleFacts
<1>4. {PW} \in SUBSET Positions
  BY Layout
<1>5. Parities(w \cup {PW}) = {}
  <2>1. Parities({PW}) = {}
    <3>1. {PW} \in SUBSET (CheckBits \cup {PW})
      OBVIOUS
    <3> QED
      BY <3>1, ParitiesOfCode
  <2>2. Parities(Toggle(w, {PW})) = Toggle(Parities(w), Parities({PW}))
    BY <1>1, <1>4, ParitiesToggle
  <2> QED
    BY <1>1, <1>3, <2>1, <2>2, ToggleFacts
<1>6. Odd(w) => ~Odd(w \cup {PW})
  <2>1. Odd(Toggle(w, {PW})) <=> (Odd(w) # Odd({PW}))
    BY <1>1, <1>4, OddToggle
  <2> QED
    BY <1>3, <2>1, OddSmall DEF Odd
<1>7. WordOf(byte) = IF Odd(w) THEN w \cup {PW} ELSE w
  BY DEF WordOf
<1>8. get_codeword(byte) = IF Odd(w) THEN Parities(byte) \cup {PW} ELSE Parities(byte)
  BY DEF get_codeword
<1>9. WordOf(byte) = byte \cup get_codeword(byte)
  BY <1>7, <1>8
<1>10. get_codeword(byte) \in SUBSET (CheckBits \cup {PW})
  BY <1>1, <1>8
<1> HIDE DEF w
<1> QED
  BY <1>1, <1>2, <1>4, <1>5, <1>6, <1>7, <1>9, <1>10

\* Or'ing a byte into memory that has only bits of its word gives the word.
LEMMA WriteClean ==
    ASSUME NEW byte \in SUBSET DataBits, NEW word \in SUBSET WordOf(byte)
    PROVE  write_w_hamming(byte, word) = WordOf(byte)
<1> DEFINE x == word \cup byte
           k == x \cap CheckBits
           P == Parities(byte)
           w == byte \cup P
<1>1. w \in SUBSET Positions /\ PW \notin w /\ P \in SUBSET CheckBits
  BY Halfword
<1>2. WordOf(byte) = IF Odd(w) THEN w \cup {PW} ELSE w
  BY DEF WordOf
<1>3. x \subseteq w \cup {PW} /\ byte \subseteq x
  BY <1>2
<1>4. k \subseteq P
  BY <1>1, <1>3, Layout
<1>5. x = byte \cup (k \cup (x \cap {PW})) /\ byte \cap (k \cup (x \cap {PW})) = {}
  BY <1>1, <1>3, Layout
<1>6. k \cup (x \cap {PW}) \in SUBSET (CheckBits \cup {PW})
  OBVIOUS
<1>7. Parities(k \cup (x \cap {PW})) = k
  <2>1. Parities(k \cup (x \cap {PW})) = (k \cup (x \cap {PW})) \ {PW}
    BY <1>6, ParitiesOfCode
  <2>2. PW \notin k
    BY Layout
  <2> QED
    BY <2>1, <2>2
<1>8. Parities(x) = P \ k
  <2>1. x = Toggle(byte, k \cup (x \cap {PW}))
    BY <1>5, ToggleFacts
  <2>2. byte \in SUBSET Positions /\ k \cup (x \cap {PW}) \in SUBSET Positions
    BY <1>6, Layout
  <2>3. Parities(Toggle(byte, k \cup (x \cap {PW}))) = Toggle(P, Parities(k \cup (x \cap {PW})))
    BY <2>2, ParitiesToggle
  <2>4. Parities(Toggle(byte, k \cup (x \cap {PW}))) = Toggle(P, k)
    BY <1>7, <2>3
  <2>5. Toggle(P, k) = P \ k
    BY <1>4 DEF Toggle
  <2>6. Parities(x) = Parities(Toggle(byte, k \cup (x \cap {PW})))
    BY <2>1
  <2> QED
    BY <2>4, <2>5, <2>6
<1>9. x \cup Parities(x) = w \cup (x \cap {PW})
  BY <1>4, <1>5, <1>8
<1>10. (x \cup Parities(x)) \ {PW} = w
  BY <1>1, <1>9
<1>11. ApplyParity(x) = IF Odd(w) THEN w \cup (x \cap {PW}) \cup {PW} ELSE w \cup (x \cap {PW})
  BY <1>9, <1>10 DEF ApplyParity
<1>12. write_w_hamming(byte, word) = ApplyParity(x)
  BY DEF write_w_hamming, hamming_data
<1>13. ~Odd(w) => x \cap {PW} = {}
  BY <1>1, <1>2, Layout
<1> HIDE DEF x, w
<1> QED
  BY <1>2, <1>11, <1>12, <1>13

LEMMA EncodeIsWord ==
    ASSUME NEW byte \in SUBSET DataBits
    PROVE  Encode(byte) = WordOf(byte)
  BY WriteClean DEF Encode

\* Parities see only what is wrong in a word.
LEMMA WrongBits ==
    ASSUME NEW byte \in SUBSET DataBits, NEW word \in SUBSET Positions
    PROVE  /\ Toggle(word, WordOf(byte)) \in SUBSET Positions
           /\ Parities(word) = Parities(Toggle(word, WordOf(byte)))
           /\ Odd(word) <=> Odd(Toggle(word, WordOf(byte)))
           /\ Toggle(word, WordOf(byte)) = {} <=> word = WordOf(byte)
           /\ Toggle(word, Toggle(word, WordOf(byte))) = WordOf(byte)
<1> DEFINE e == WordOf(byte)
<1>1. e \in SUBSET Positions /\ Parities(e) = {} /\ ~Odd(e)
  BY WordFacts
<1> HIDE DEF e
<1>2. Toggle(word, e) \in SUBSET Positions
  BY <1>1 DEF Toggle
<1>3. Parities(Toggle(word, e)) = Parities(word)
  <2>1. Parities(Toggle(word, e)) = Toggle(Parities(word), Parities(e))
    BY <1>1, ParitiesToggle
  <2> QED
    BY <1>1, <2>1, ToggleFacts
<1>4. Odd(word) <=> Odd(Toggle(word, e))
  <2>1. Odd(Toggle(word, e)) <=> (Odd(word) # Odd(e))
    BY <1>1, OddToggle
  <2> QED
    BY <1>1, <2>1 DEF Odd
<1>5. Toggle(word, e) = {} <=> word = e
  BY DEF Toggle
<1>6. Toggle(word, Toggle(word, e)) = e
  BY ToggleFacts
<1> QED
  BY <1>2, <1>3, <1>4, <1>5, <1>6 DEF e

LEMMA OneWrong ==
    ASSUME NEW i \in Positions
    PROVE  /\ Odd({i})
           /\ Position(Parities({i})) = i
           /\ Parities({i}) = {} <=> i = PW
           /\ Cardinality({i}) = 1
<1>1. Parities({PW}) = {}
  <2>1. {PW} \in SUBSET (CheckBits \cup {PW})
    OBVIOUS
  <2> QED
    BY <2>1, ParitiesOfCode
<1>2. Parities({i}) = {} => i = PW
  BY <1>1, OnesDiffer, Layout
<1>3. Cardinality({i}) = 1
  BY FS_Singleton, Zenon
<1> QED
  BY <1>1, <1>2, <1>3, OddSmall, PositionOfOne

LEMMA TwoWrong ==
    ASSUME NEW i \in Positions, NEW j \in Positions, i # j
    PROVE  /\ ~Odd({i, j})
           /\ Parities({i, j}) # {}
           /\ Cardinality({i, j}) = 2
<1>1. {i, j} = Toggle({i}, {j})
  BY DEF Toggle
<1>2. {i} \in SUBSET Positions /\ {j} \in SUBSET Positions
  OBVIOUS
<1>3. ~Odd({i, j})
  <2>1. Odd(Toggle({i}, {j})) <=> (Odd({i}) # Odd({j}))
    BY <1>2, OddToggle
  <2> QED
    BY <1>1, <2>1, OddSmall DEF Odd
<1>4. Parities({i, j}) # {}
  <2>1. Parities(Toggle({i}, {j})) = Toggle(Parities({i}), Parities({j}))
    BY <1>2, ParitiesToggle
  <2>2. Parities({i}) # Parities({j})
    BY OnesDiffer
  <2>3. Toggle(Parities({i}), Parities({j})) # {}
    BY <2>2 DEF Toggle
  <2> QED
    BY <1>1, <2>1, <2>3
<1>5. Cardinality({i, j}) = 2
  <2>1. IsFiniteSet({i}) /\ Cardinality({i}) = 1
    BY FS_Singleton, Zenon
  <2>2. Cardinality({i} \cup {j}) = IF j \in {i} THEN Cardinality({i}) ELSE Cardinality({i}) + 1
    BY <2>1, FS_AddElement
  <2>3. {i} \cup {j} = {i, j} /\ j \notin {i}
    OBVIOUS
  <2> QED
    BY <2>1, <2>2, <2>3
<1> QED
  BY <1>3, <1>4, <1>5

LEMMA UpToTwo ==
    ASSUME NEW wrong \in SUBSET Positions, Cardinality(wrong) <= 2
    PROVE  \/ wrong = {}
           \/ \E i \in Positions : wrong = {i}
           \/ \E i, j \in Positions : i # j /\ wrong = {i, j}
<1>1. IsFiniteSet(wrong) /\ Cardinality(wrong) \in Nat
  BY WordsFinite
<1>2. CASE wrong = {}
  BY <1>2
<1>3. CASE wrong # {}
  <2>1. PICK i \in wrong : TRUE
    BY <1>3
  <2>2. IsFiniteSet(wrong \ {i}) /\ Cardinality(wrong \ {i}) = Cardinality(wrong) - 1
    BY <1>1, <2>1, FS_RemoveElement
  <2>3. CASE wrong \ {i} = {}
    <3>1. wrong = {i} /\ i \in Positions
      BY <2>1, <2>3
    <3> QED
      BY <3>1
  <2>4. CASE wrong \ {i} # {}
    <3>1. PICK j \in wrong \ {i} : TRUE
      BY <2>4
    <3>2. IsFiniteSet((wrong \ {i}) \ {j}) /\ Cardinality((wrong \ {i}) \ {j}) = Cardinality(wrong \ {i}) - 1
      BY <2>2, <3>1, FS_RemoveElement
    <3>3. Cardinality((wrong \ {i}) \ {j}) \in Nat
      BY <3>2, FS_CardinalityType
    <3>4. Cardinality((wrong \ {i}) \ {j}) = 0
      BY <1>1, <2>2, <3>2, <3>3
    <3>5. (wrong \ {i}) \ {j} = {}
      BY <3>2, <3>4, FS_EmptySet
    <3>6. wrong = {i, j} /\ i # j /\ i \in Positions /\ j \in Positions
      BY <2>1, <3>1, <3>5
    <3> QED
      BY <3>6
  <2> QED
    BY <2>3, <2>4
<1> QED
  BY <1>2, <1>3

LEMMA UpToOne ==
    ASSUME NEW wrong \in SUBSET Positions, Cardinality(wrong) <= 1
    PROVE  wrong = {} \/ \E i \in Positions : wrong = {i}
<1>1. Cardinality(wrong) <= 2
  BY WordsFinite
<1>2. ASSUME NEW i \in Positions, NEW j \in Positions, i # j, wrong = {i, j}
      PROVE  FALSE
  BY <1>2, TwoWrong
<1> QED
  BY <1>1, <1>2, UpToTwo

LEMMA WithoutPW ==
    ASSUME NEW word \in SUBSET Positions
    PROVE  /\ PW \in word => (Odd(word) <=> ~Odd(word \ {PW}))
           /\ PW \notin word => (Odd(word) <=> Odd(word \ {PW}))
<1>1. CASE PW \in word
  <2>1. word = Toggle(word \ {PW}, {PW})
    BY <1>1 DEF Toggle
  <2>2. Odd(Toggle(word \ {PW}, {PW})) <=> (Odd(word \ {PW}) # Odd({PW}))
    <3>1. word \ {PW} \in SUBSET Positions /\ {PW} \in SUBSET Positions
      BY Layout
    <3> QED
      BY <3>1, OddToggle
  <2> QED
    BY <1>1, <2>1, <2>2, OddSmall DEF Odd
<1>2. CASE PW \notin word
  <2>1. word \ {PW} = word
    BY <1>2
  <2> QED
    BY <1>2, <2>1
<1> QED
  BY <1>1, <1>2

-----------------------------------------------------------------------------
\* ecclib.c: what read_byte computes, said of the data and the code together

LEMMA Reading ==
    ASSUME NEW data \in SUBSET DataBits, NEW code \in SUBSET (CheckBits \cup {PW})
    PROVE  /\ data \cup code \in SUBSET Positions
           /\ SyndromeOf(data, code) = Parities(data \cup code)
           /\ PW \in pW2(data, code) <=> Odd((data \cup code) \ {PW})
           /\ pW2(data, code) \subseteq {PW}
           /\ (PW \in code) = (PW \in pW2(data, code)) <=> ~Odd(data \cup code)
<1> DEFINE w == data \cup code
<1>1. w \in SUBSET Positions /\ data \in SUBSET Positions /\ code \in SUBSET Positions
  BY Layout
<1>2. w \ {PW} = data \cup (code \ {PW}) /\ (PW \in w <=> PW \in code)
  BY Layout
<1>3. SyndromeOf(data, code) = Parities(w)
  <2>1. data \cap code = {}
    BY Layout
  <2>2. w = Toggle(data, code)
    BY <2>1, ToggleFacts
  <2>3. Parities(w) = Toggle(Parities(data), code \ {PW})
    <3>1. Parities(code) = code \ {PW}
      BY ParitiesOfCode
    <3>2. Parities(Toggle(data, code)) = Toggle(Parities(data), Parities(code))
      BY <1>1, ParitiesToggle
    <3> QED
      BY <2>2, <3>1, <3>2
  <2>4. PW \notin Parities(data)
    BY Layout DEF Parities
  <2>5. get_codeword(data) = Parities(data) \/ get_codeword(data) = Parities(data) \cup {PW}
    BY DEF get_codeword
  <2>6. Toggle(get_codeword(data), code) \ {PW} = Toggle(Parities(data), code \ {PW})
    BY <2>4, <2>5 DEF Toggle
  <2> QED
    BY <2>3, <2>6 DEF SyndromeOf
<1>4. PW \in pW2(data, code) <=> Odd(w \ {PW})
  BY <1>2 DEF pW2
<1>5. pW2(data, code) \subseteq {PW}
  BY DEF pW2
<1>6. (PW \in code) = (PW \in pW2(data, code)) <=> ~Odd(w)
  <2>1. PW \in w => (Odd(w) <=> ~Odd(w \ {PW}))
    BY <1>1, WithoutPW
  <2>2. PW \notin w => (Odd(w) <=> Odd(w \ {PW}))
    BY <1>1, WithoutPW
  <2> HIDE DEF w
  <2> QED
    BY <1>2, <1>4, <2>1, <2>2
<1> QED
  BY <1>1, <1>3, <1>4, <1>5, <1>6

LEMMA Verdicts ==
    ASSUME NEW byte \in SUBSET DataBits,
           NEW data \in SUBSET DataBits, NEW code \in SUBSET (CheckBits \cup {PW}),
           NEW wrong, wrong = Toggle(data \cup code, WordOf(byte))
    PROVE  /\ wrong = {} => Verdict(data, code) = NO_ERROR
           /\ wrong = {PW} => Verdict(data, code) = PW_ERROR
           /\ \A i \in Positions : i # PW /\ wrong = {i} => Verdict(data, code) = i
           /\ \A i, j \in Positions : i # j /\ wrong = {i, j} => Verdict(data, code) = DOUBLE_BIT_ERROR
<1> DEFINE s == SyndromeOf(data, code)
           same == (PW \in code) = (PW \in pW2(data, code))
<1>1. s = Parities(wrong) /\ (same <=> ~Odd(wrong))
  <2>1. /\ data \cup code \in SUBSET Positions
        /\ s = Parities(data \cup code)
        /\ same <=> ~Odd(data \cup code)
    BY Reading
  <2>2. /\ Parities(data \cup code) = Parities(wrong)
        /\ Odd(data \cup code) <=> Odd(wrong)
    BY <2>1, WrongBits
  <2> HIDE DEF s, same
  <2> QED
    BY <2>1, <2>2
<1>2. Verdict(data, code) =
          CASE s = {} /\ same -> NO_ERROR
            [] s = {} /\ ~same -> PW_ERROR
            [] s # {} /\ same -> DOUBLE_BIT_ERROR
            [] OTHER -> Position(s)
  BY DEF Verdict
<1> HIDE DEF s, same
<1>3. wrong = {} => Verdict(data, code) = NO_ERROR
  BY <1>1, <1>2, OddSmall
<1>4. wrong = {PW} => Verdict(data, code) = PW_ERROR
  BY <1>1, <1>2, OneWrong, Layout
<1>5. ASSUME NEW i \in Positions, i # PW, wrong = {i}
      PROVE  Verdict(data, code) = i
  <2>1. Odd(wrong) /\ Parities(wrong) # {} /\ Position(Parities(wrong)) = i
    BY <1>5, OneWrong
  <2> QED
    BY <1>1, <1>2, <2>1
<1>6. ASSUME NEW i \in Positions, NEW j \in Positions, i # j, wrong = {i, j}
      PROVE  Verdict(data, code) = DOUBLE_BIT_ERROR
  <2>1. ~Odd(wrong) /\ Parities(wrong) # {}
    BY <1>6, TwoWrong
  <2> QED
    BY <1>1, <1>2, <2>1
<1> QED
  BY <1>3, <1>4, <1>5, <1>6

\* What a read of ecclib.c leaves wrong.
LEMMA Repaired ==
    ASSUME NEW byte \in SUBSET DataBits,
           NEW data \in SUBSET DataBits, NEW code \in SUBSET (CheckBits \cup {PW}),
           NEW wrong, wrong = Toggle(data \cup code, WordOf(byte)), Cardinality(wrong) <= 2
    PROVE  Toggle(data \cup RepairPw(data, code), WordOf(byte)) =
               IF wrong = {PW} /\ PW \notin code THEN {} ELSE wrong
<1> DEFINE w == data \cup code
           e == WordOf(byte)
<1>1. w \in SUBSET Positions
  BY Reading
<1>2. wrong \in SUBSET Positions /\ Toggle(w, wrong) = e /\ (Odd(w) <=> Odd(wrong))
  BY <1>1, WrongBits
<1>3. CASE wrong = {PW}
  <2>1. RepairPw(data, code) = code \cup pW2(data, code)
    BY <1>3, Verdicts DEF RepairPw
  <2>2. Odd(w)
    BY <1>2, <1>3, OneWrong, Layout
  <2>3. CASE PW \in code
    <3>1. PW \notin pW2(data, code)
      <4>1. (PW \in code) = (PW \in pW2(data, code)) <=> ~Odd(w)
        BY Reading
      <4> QED
        BY <2>2, <2>3, <4>1
    <3>2. pW2(data, code) = {}
      BY <3>1, Reading
    <3> QED
      BY <2>1, <2>3, <3>2
  <2>4. CASE PW \notin code
    <3>1. PW \in pW2(data, code)
      <4>1. (PW \in code) = (PW \in pW2(data, code)) <=> ~Odd(w)
        BY Reading
      <4> QED
        BY <2>2, <2>4, <4>1
    <3>2. data \cup RepairPw(data, code) = w \cup {PW}
      BY <2>1, <3>1, Reading
    <3>3. PW \notin w
      BY <2>4, Layout
    <3>4. w \cup {PW} = Toggle(w, wrong)
      BY <1>3, <3>3 DEF Toggle
    <3>5. data \cup RepairPw(data, code) = e
      BY <1>2, <3>2, <3>4
    <3>6. Toggle(e, e) = {}
      BY ToggleFacts
    <3> QED
      BY <1>3, <2>4, <3>5, <3>6
  <2> QED
    BY <2>3, <2>4
<1>4. CASE wrong # {PW}
  <2>1. Verdict(data, code) # PW_ERROR
    <3>1. CASE wrong = {}
      BY <3>1, Verdicts DEF NO_ERROR, PW_ERROR
    <3>2. CASE \E i \in Positions : wrong = {i}
      <4>1. PICK i \in Positions : wrong = {i}
        BY <3>2
      <4>2. Verdict(data, code) = i
        BY <1>4, <4>1, Verdicts
      <4> QED
        BY <4>2 DEF PW_ERROR, Positions
    <3>3. CASE \E i, j \in Positions : i # j /\ wrong = {i, j}
      BY <3>3, Verdicts DEF DOUBLE_BIT_ERROR, PW_ERROR
    <3> QED
      BY <1>2, <3>1, <3>2, <3>3, UpToTwo
  <2>2. RepairPw(data, code) = code
    BY <2>1 DEF RepairPw
  <2> QED
    BY <1>4, <2>2
<1> QED
  BY <1>3, <1>4

-----------------------------------------------------------------------------
\* hamming2.c: what read_w_hamming leaves and answers

LEMMA Decoding ==
    ASSUME NEW byte \in SUBSET DataBits, NEW word \in SUBSET Positions,
           NEW wrong, wrong = Toggle(word, WordOf(byte))
    PROVE  /\ DoubleBitError(word) <=> Parities(wrong) # {} /\ ~Odd(wrong)
           /\ Parities(wrong) = {} =>
                  Corrected(word) = IF Odd(word \ {PW}) THEN word \cup {PW} ELSE word
           /\ Parities(wrong) # {} /\ Odd(wrong) =>
                  Corrected(word) = Toggle(word, {Position(Parities(wrong))})
<1>1. Parities(word) = Parities(wrong) /\ (Odd(word) <=> Odd(wrong))
  BY WrongBits
<1>2. word_parity(word) <=> Odd(word \ {PW})
  BY DEF word_parity
<1>3. get_parity(word) <=> PW \in word
  BY DEF get_parity
<1>4. word_parity(word) = get_parity(word) <=> ~Odd(word)
  <2>1. PW \in word => (Odd(word) <=> ~Odd(word \ {PW}))
    BY WithoutPW
  <2>2. PW \notin word => (Odd(word) <=> Odd(word \ {PW}))
    BY WithoutPW
  <2>3. word_parity(word) \in BOOLEAN /\ get_parity(word) \in BOOLEAN
    BY DEF word_parity, get_parity, Odd
  <2> QED
    BY <1>2, <1>3, <2>1, <2>2, <2>3
<1>5. DoubleBitError(word) <=> Parities(word) # {} /\ word_parity(word) = get_parity(word)
  BY DEF DoubleBitError
<1>6. Corrected(word) =
          IF Parities(word) = {} THEN (IF word_parity(word) THEN word \cup {PW} ELSE word)
          ELSE IF word_parity(word) = get_parity(word) THEN word
          ELSE Toggle(word, {Position(Parities(word))})
  BY DEF Corrected
<1> QED
  BY <1>1, <1>2, <1>4, <1>5, <1>6

LEMMA DecodesUpToOne ==
    ASSUME NEW byte \in SUBSET DataBits, NEW word \in SUBSET Positions,
           NEW wrong, wrong = Toggle(word, WordOf(byte)), Cardinality(wrong) <= 1
    PROVE  /\ ~DoubleBitError(word)
           /\ Toggle(Corrected(word), WordOf(byte)) = IF wrong = {PW} /\ PW \in word THEN {PW} ELSE {}
<1> DEFINE e == WordOf(byte)
<1>1. e \in SUBSET Positions /\ ~Odd(e) /\ Toggle(word, wrong) = e /\ wrong \in SUBSET Positions
  BY WordFacts, WrongBits
<1>2. Toggle(e, e) = {}
  BY ToggleFacts
<1>3. /\ DoubleBitError(word) <=> Parities(wrong) # {} /\ ~Odd(wrong)
      /\ Parities(wrong) = {} => Corrected(word) = IF Odd(word \ {PW}) THEN word \cup {PW} ELSE word
      /\ Parities(wrong) # {} /\ Odd(wrong) => Corrected(word) = Toggle(word, {Position(Parities(wrong))})
  BY Decoding
<1>4. PW \in word => (Odd(word) <=> ~Odd(word \ {PW}))
  BY WithoutPW
<1>5. PW \notin word => (Odd(word) <=> Odd(word \ {PW}))
  BY WithoutPW
<1>6. CASE wrong = {}
  <2>1. Parities(wrong) = {}
    BY <1>6, OddSmall
  <2>2. word = e
    BY <1>6, WrongBits
  <2>3. Corrected(word) = e
    <3>1. CASE PW \in word
      <4>1. word \cup {PW} = word
        BY <3>1
      <4> HIDE DEF e
      <4> QED
        BY <1>3, <2>1, <2>2, <4>1
    <3>2. CASE PW \notin word
      <4>1. ~Odd(word \ {PW})
        BY <1>1, <1>5, <2>2, <3>2
      <4> HIDE DEF e
      <4> QED
        BY <1>3, <2>1, <2>2, <4>1
    <3> QED
      BY <3>1, <3>2
  <2> QED
    BY <1>2, <1>3, <1>6, <2>1, <2>3
<1>7. CASE wrong = {PW}
  <2>1. Parities(wrong) = {} /\ Odd(wrong)
    BY <1>7, OneWrong, Layout
  <2>2. Odd(word)
    <3>1. Odd(word) <=> Odd(wrong)
      BY WrongBits
    <3> QED
      BY <2>1, <3>1
  <2>3. CASE PW \in word
    <3>1. Corrected(word) = word
      BY <1>3, <1>4, <2>1, <2>2, <2>3
    <3> QED
      BY <1>3, <1>7, <2>1, <2>3, <3>1
  <2>4. CASE PW \notin word
    <3>1. Corrected(word) = word \cup {PW}
      BY <1>3, <1>5, <2>1, <2>2, <2>4
    <3>2. word \cup {PW} = Toggle(word, wrong)
      BY <1>7, <2>4 DEF Toggle
    <3>3. Corrected(word) = e
      BY <1>1, <3>1, <3>2
    <3> QED
      BY <1>2, <1>3, <2>1, <2>4, <3>3
  <2> QED
    BY <2>3, <2>4
<1>8. CASE \E i \in Positions : i # PW /\ wrong = {i}
  <2>1. PICK i \in Positions : i # PW /\ wrong = {i}
    BY <1>8
  <2>2. Odd(wrong) /\ Parities(wrong) # {} /\ Position(Parities(wrong)) = i
    BY <2>1, OneWrong
  <2>3. Corrected(word) = e
    BY <1>1, <1>3, <2>1, <2>2
  <2>4. wrong # {PW}
    BY <2>1
  <2> QED
    BY <1>2, <1>3, <2>2, <2>3, <2>4
<1> QED
  BY <1>1, <1>6, <1>7, <1>8, UpToOne

LEMMA ReportsTwo ==
    ASSUME NEW byte \in SUBSET DataBits, NEW word \in SUBSET Positions,
           NEW wrong, wrong = Toggle(word, WordOf(byte)), Cardinality(wrong) = 2
    PROVE  DoubleBitError(word)
<1>1. wrong \in SUBSET Positions
  BY WrongBits
<1>2. wrong # {} /\ ~\E i \in Positions : wrong = {i}
  <2>1. wrong # {}
    BY FS_EmptySet
  <2>2. \A i \in Positions : Cardinality({i}) = 1
    BY OneWrong
  <2> QED
    BY <2>1, <2>2
<1>3. PICK i \in Positions, j \in Positions : i # j /\ wrong = {i, j}
  BY <1>1, <1>2, UpToTwo
<1>4. ~Odd(wrong) /\ Parities(wrong) # {}
  BY <1>3, TwoWrong
<1> QED
  BY <1>4, Decoding

LEMMA ReadsUpToOne ==
    ASSUME NEW byte \in SUBSET DataBits, NEW word \in SUBSET Positions,
           Cardinality(Toggle(word, WordOf(byte))) <= 1
    PROVE  ReadBack(word) = byte
<1> DEFINE e == WordOf(byte)
           left == Toggle(Corrected(word), e)
<1>1. left \subseteq {PW}
  BY DecodesUpToOne
<1>2. Corrected(word) \cap DataBits = e \cap DataBits
  BY <1>1, Layout DEF Toggle
<1>3. e \cap DataBits = byte
  BY WordFacts
<1> QED
  BY <1>2, <1>3 DEF ReadBack

-----------------------------------------------------------------------------
EccTypeInv ==
    /\ value \in SUBSET DataBits
    /\ data_memory \in SUBSET DataBits
    /\ code_memory \in SUBSET (CheckBits \cup {PW})
    /\ memory \in SUBSET Positions
    /\ clean \in BOOLEAN
    /\ flips \in Nat

\* Until a bit is flipped the word is that of the byte, if the last write found no other bit.
WordInv == clean /\ flips = 0 => memory = Encode(value)

EccIInv == EccTypeInv /\ WordInv

LEMMA TypeOfWrite ==
    ASSUME NEW byte \in SUBSET DataBits, NEW word \in SUBSET Positions
    PROVE  /\ get_codeword(byte) \in SUBSET (CheckBits \cup {PW})
           /\ write_w_hamming(byte, word) \in SUBSET Positions
<1>1. ASSUME NEW x \in SUBSET Positions
      PROVE  ApplyParity(x) \in SUBSET Positions
  BY Layout DEF ApplyParity, Parities
<1>2. hamming_data(byte, word) \in SUBSET Positions
  BY Layout DEF hamming_data
<1> QED
  BY <1>1, <1>2, WordFacts DEF write_w_hamming

LEMMA SumOfBits ==
    ASSUME NEW a \in {0, 1}, NEW b \in {0, 2}, NEW c \in {0, 4}, NEW d \in {0, 8}
    PROVE  /\ a + b + c + d \in 0 .. 15
           /\ ((a + b + c + d) \div 1) % 2 = 1 <=> a = 1
           /\ ((a + b + c + d) \div 2) % 2 = 1 <=> b = 2
           /\ ((a + b + c + d) \div 4) % 2 = 1 <=> c = 4
           /\ ((a + b + c + d) \div 8) % 2 = 1 <=> d = 8
  BY SMTT(60)

\* Every syndrome is that of a position of the word, 13 to 15 included, which hold nothing.
LEMMA PositionExists ==
    ASSUME NEW syndrome \in SUBSET CheckBits
    PROVE  Position(syndrome) \in Positions
<1> DEFINE Is(i) == \A p \in CheckBits : (i \div p) % 2 = 1 <=> p \in syndrome
           a == IF 1 \in syndrome THEN 1 ELSE 0
           b == IF 2 \in syndrome THEN 2 ELSE 0
           c == IF 4 \in syndrome THEN 4 ELSE 0
           d == IF 8 \in syndrome THEN 8 ELSE 0
           i == a + b + c + d
<1>1. a \in {0, 1} /\ b \in {0, 2} /\ c \in {0, 4} /\ d \in {0, 8}
  OBVIOUS
<1>2. (a = 1 <=> 1 \in syndrome) /\ (b = 2 <=> 2 \in syndrome)
      /\ (c = 4 <=> 4 \in syndrome) /\ (d = 8 <=> 8 \in syndrome)
  OBVIOUS
<1> HIDE DEF a, b, c, d
<1>3. /\ i \in 0 .. 15
      /\ (i \div 1) % 2 = 1 <=> a = 1
      /\ (i \div 2) % 2 = 1 <=> b = 2
      /\ (i \div 4) % 2 = 1 <=> c = 4
      /\ (i \div 8) % 2 = 1 <=> d = 8
  BY <1>1, SumOfBits
<1> HIDE DEF i
<1>4. i \in Positions /\ Is(i)
  BY <1>2, <1>3 DEF Positions, CheckBits
<1> HIDE DEF Is
<1>5. (CHOOSE k \in Positions : Is(k)) \in Positions
  BY <1>4
<1>6. Position(syndrome) = CHOOSE k \in Positions : Is(k)
  BY DEF Position, Is
<1> QED
  BY <1>5, <1>6

LEMMA CorrectedType ==
    ASSUME NEW word \in SUBSET Positions
    PROVE  Corrected(word) \in SUBSET Positions
<1>1. Parities(word) \in SUBSET CheckBits
  BY DEF Parities
<1>2. Position(Parities(word)) \in Positions
  BY <1>1, PositionExists
<1> QED
  BY <1>2, Layout DEF Corrected, Toggle

LEMMA EccInitHolds ==
    ASSUME EccInit
    PROVE  EccIInv
<1>1. value \in SUBSET DataBits /\ \A fresh \in Fresh : fresh \in SUBSET Positions
  BY EccAssumption DEF EccInit
<1>2. PICK fresh \in Fresh : memory = write_w_hamming(value, fresh) /\ clean = (fresh \subseteq Encode(value))
  BY DEF EccInit
<1>3. memory \in SUBSET Positions /\ code_memory \in SUBSET (CheckBits \cup {PW})
  BY <1>1, <1>2, TypeOfWrite DEF EccInit
<1>4. clean => memory = Encode(value)
  BY <1>1, <1>2, WriteClean, EncodeIsWord
<1>5. clean \in BOOLEAN
  BY <1>2
<1> QED
  BY <1>1, <1>3, <1>4, <1>5 DEF EccInit, EccIInv, EccTypeInv, WordInv

LEMMA EccNextKeeps ==
    ASSUME EccIInv, [EccNext]_eccVars
    PROVE  EccIInv'
<1> USE DEF EccTypeInv
<1>1. CASE Write
  <2>1. PICK byte \in Bytes :
            /\ value' = byte /\ data_memory' = byte /\ code_memory' = get_codeword(byte)
            /\ memory' = write_w_hamming(byte, memory)
            /\ clean' = (memory \subseteq Encode(byte)) /\ flips' = flips
    BY <1>1 DEF Write
  <2>2. byte \in SUBSET DataBits
    BY EccAssumption
  <2>3. EccTypeInv'
    BY <2>1, <2>2, TypeOfWrite DEF EccIInv
  <2>4. memory \subseteq WordOf(byte) => memory' = WordOf(byte)
    BY <2>1, <2>2, WriteClean
  <2>5. Encode(value') = WordOf(byte) /\ Encode(byte) = WordOf(byte)
    BY <2>1, <2>2, EncodeIsWord
  <2>6. WordInv'
    BY <2>1, <2>4, <2>5 DEF WordInv
  <2> QED
    BY <2>3, <2>6 DEF EccIInv
<1>2. CASE Flip
  <2>1. PICK i \in DataBits \cup CheckBits \cup {PW} :
            /\ flips' = flips + 1
            /\ data_memory' = Toggle(data_memory, {i} \cap DataBits)
            /\ code_memory' = Toggle(code_memory, {i} \ DataBits)
            /\ memory' = Toggle(memory, {i})
            /\ value' = value /\ clean' = clean
    BY <1>2 DEF Flip
  <2>2. i \in Positions
    BY Layout
  <2>3. EccTypeInv'
    BY <2>1, <2>2 DEF EccIInv, Toggle
  <2>4. flips' # 0
    BY <2>1 DEF EccIInv
  <2> QED
    BY <2>3, <2>4 DEF EccIInv, WordInv
<1>3. CASE Read
  <2>1. /\ code_memory' = RepairPw(data_memory, code_memory) /\ memory' = Corrected(memory)
        /\ value' = value /\ data_memory' = data_memory /\ clean' = clean /\ flips' = flips
    BY <1>3 DEF Read
  <2>2. code_memory' \in SUBSET (CheckBits \cup {PW})
    <3>1. pW2(data_memory, code_memory) \subseteq {PW}
      BY DEF pW2
    <3> QED
      BY <2>1, <3>1 DEF EccIInv, RepairPw
  <2>3. memory' \in SUBSET Positions
    BY <2>1, CorrectedType DEF EccIInv
  <2>4. memory = WordOf(value) => memory' = WordOf(value)
    <3>1. value \in SUBSET DataBits /\ memory \in SUBSET Positions
      BY DEF EccIInv
    <3>2. HAVE memory = WordOf(value)
    <3>3. Toggle(memory, WordOf(value)) = {} /\ {} # {PW}
      BY <3>2, ToggleFacts
    <3>4. Cardinality(Toggle(memory, WordOf(value))) <= 1
      BY <3>3, FS_EmptySet
    <3>5. Toggle(Corrected(memory), WordOf(value)) = {}
      BY <3>1, <3>3, <3>4, DecodesUpToOne
    <3> QED
      BY <2>1, <3>5 DEF Toggle
  <2>5. Encode(value) = WordOf(value) /\ Encode(value') = WordOf(value)
    BY <2>1, EncodeIsWord DEF EccIInv
  <2>6. WordInv'
    BY <2>1, <2>4, <2>5 DEF EccIInv, WordInv
  <2> QED
    BY <2>1, <2>2, <2>3, <2>6 DEF EccIInv
<1>4. CASE UNCHANGED eccVars
  <2>1. Encode(value)' = Encode(value)
    BY <1>4 DEF eccVars, Encode, write_w_hamming, hamming_data, ApplyParity, Parities
  <2> QED
    BY <1>4, <2>1 DEF eccVars, EccIInv, WordInv
<1> QED
  BY <1>1, <1>2, <1>3, <1>4 DEF EccNext

THEOREM EccInvariant == EccSpec => []EccIInv
  BY EccInitHolds, EccNextKeeps, PTL DEF EccSpec

\* However often the byte is written, read and damaged, read_byte of ecclib.c tells none, one
\* and two wrong bits apart, and where the one is.
THEOREM ErrorsToldTheorem == EccSpec => []ErrorsTold
<1>1. EccIInv => ErrorsTold
  <2> SUFFICES ASSUME EccIInv, Cardinality(Wrong) <= 2
               PROVE  Verdict(data_memory, code_memory) =
                          CASE Wrong = {} -> NO_ERROR
                            [] Wrong = {PW} -> PW_ERROR
                            [] Cardinality(Wrong) = 2 -> DOUBLE_BIT_ERROR
                            [] OTHER -> CHOOSE i \in Wrong : TRUE
    BY DEF ErrorsTold
  <2>1. /\ value \in SUBSET DataBits /\ data_memory \in SUBSET DataBits
        /\ code_memory \in SUBSET (CheckBits \cup {PW})
    BY DEF EccIInv, EccTypeInv
  <2>2. Wrong = Toggle(data_memory \cup code_memory, WordOf(value))
    BY <2>1, EncodeIsWord DEF Wrong
  <2>3. Wrong \in SUBSET Positions
    <3>1. data_memory \cup code_memory \in SUBSET Positions
      BY <2>1, Reading
    <3> QED
      BY <2>1, <2>2, <3>1, WrongBits
  <2>4. /\ Wrong = {} => Verdict(data_memory, code_memory) = NO_ERROR
        /\ Wrong = {PW} => Verdict(data_memory, code_memory) = PW_ERROR
        /\ \A i \in Positions : i # PW /\ Wrong = {i} => Verdict(data_memory, code_memory) = i
        /\ \A i, j \in Positions : i # j /\ Wrong = {i, j} =>
               Verdict(data_memory, code_memory) = DOUBLE_BIT_ERROR
    BY <2>1, <2>2, Verdicts
  <2>5. CASE Wrong = {}
    <3>1. Wrong # {PW} /\ Cardinality(Wrong) # 2
      BY <2>5, FS_EmptySet
    <3> QED
      BY <2>5, <2>4, <3>1
  <2>6. CASE \E i \in Positions : Wrong = {i}
    <3>1. PICK i \in Positions : Wrong = {i}
      BY <2>6
    <3>2. Cardinality(Wrong) # 2 /\ Wrong # {}
      BY <3>1, OneWrong
    <3>3. CASE i = PW
      BY <2>4, <3>1, <3>2, <3>3
    <3>4. CASE i # PW
      <4>1. Wrong # {PW} /\ (CHOOSE k \in Wrong : TRUE) = i
        BY <3>1, <3>4
      <4>2. Verdict(data_memory, code_memory) = i
        BY <2>4, <3>1, <3>4
      <4> QED
        BY <3>2, <4>1, <4>2
    <3> QED
      BY <3>3, <3>4
  <2>7. CASE \E i, j \in Positions : i # j /\ Wrong = {i, j}
    <3>1. PICK i \in Positions, j \in Positions : i # j /\ Wrong = {i, j}
      BY <2>7
    <3>2. Wrong # {} /\ Wrong # {PW} /\ Cardinality(Wrong) = 2
      BY <3>1, TwoWrong
    <3>3. Verdict(data_memory, code_memory) = DOUBLE_BIT_ERROR
      BY <2>4, <3>1
    <3> QED
      BY <3>2, <3>3
  <2> QED
    BY <2>3, <2>5, <2>6, <2>7, UpToTwo
<1> QED
  BY <1>1, EccInvariant, PTL

\* read_w_hamming of hamming2.c gives the byte back when at most one bit of the word is wrong
\* and reports two; nothing is wrong before a bit is flipped if the write found memory that
\* holds no other bits.
THEOREM ReadsBackTheorem == EccSpec => []ReadsBack
<1>1. EccIInv => ReadsBack
  <2> SUFFICES ASSUME EccIInv
               PROVE  ReadsBack
    OBVIOUS
  <2>1. value \in SUBSET DataBits /\ memory \in SUBSET Positions
    BY DEF EccIInv, EccTypeInv
  <2>2. WrongInWord = Toggle(memory, WordOf(value))
    BY <2>1, EncodeIsWord DEF WrongInWord
  <2>3. Cardinality(WrongInWord) <= 1 => ReadBack(memory) = value /\ ~DoubleBitError(memory)
    BY <2>1, <2>2, ReadsUpToOne, DecodesUpToOne
  <2>4. Cardinality(WrongInWord) = 2 => DoubleBitError(memory)
    BY <2>1, <2>2, ReportsTwo
  <2>5. clean /\ flips = 0 => WrongInWord = {}
    BY ToggleFacts DEF EccIInv, WordInv, WrongInWord
  <2> QED
    BY <2>3, <2>4, <2>5 DEF ReadsBack
<1> QED
  BY <1>1, EccInvariant, PTL

\* A read makes no bit wrong while at most two are, and repairs a single one in the word of
\* hamming2.c but for the parity of the whole word.
THEOREM ReadRepairsTheorem == EccSpec => ReadRepairs
<1>1. ASSUME EccIInv, Read
      PROVE  /\ Cardinality(Wrong) <= 2 => Wrong' \subseteq Wrong
             /\ Cardinality(WrongInWord) <= 2 => WrongInWord' \subseteq WrongInWord
             /\ Cardinality(WrongInWord) = 1 => WrongInWord' \subseteq {PW}
  <2>1. /\ value \in SUBSET DataBits /\ data_memory \in SUBSET DataBits
        /\ code_memory \in SUBSET (CheckBits \cup {PW}) /\ memory \in SUBSET Positions
    BY <1>1 DEF EccIInv, EccTypeInv
  <2>2. /\ code_memory' = RepairPw(data_memory, code_memory) /\ memory' = Corrected(memory)
        /\ value' = value /\ data_memory' = data_memory
    BY <1>1 DEF Read
  <2>3. Encode(value) = WordOf(value) /\ Encode(value') = WordOf(value)
    BY <2>1, <2>2, EncodeIsWord
  <2>4. Wrong = Toggle(data_memory \cup code_memory, WordOf(value))
    BY <2>3 DEF Wrong
  <2>5. Wrong' = Toggle(data_memory \cup RepairPw(data_memory, code_memory), WordOf(value))
    BY <2>2, <2>3 DEF Wrong
  <2>6. WrongInWord = Toggle(memory, WordOf(value))
    BY <2>3 DEF WrongInWord
  <2>7. WrongInWord' = Toggle(Corrected(memory), WordOf(value))
    BY <2>2, <2>3 DEF WrongInWord
  <2>8. Cardinality(Wrong) <= 2 => Wrong' \subseteq Wrong
    <3>1. Cardinality(Wrong) <= 2 =>
              Wrong' = IF Wrong = {PW} /\ PW \notin code_memory THEN {} ELSE Wrong
      BY <2>1, <2>4, <2>5, Repaired
    <3> QED
      BY <3>1
  <2>9. Cardinality(WrongInWord) <= 1 =>
            WrongInWord' = IF WrongInWord = {PW} /\ PW \in memory THEN {PW} ELSE {}
    BY <2>1, <2>6, <2>7, DecodesUpToOne
  <2>10. Cardinality(WrongInWord) = 2 => WrongInWord' = WrongInWord
    <3>1. Cardinality(WrongInWord) = 2 => DoubleBitError(memory)
      BY <2>1, <2>6, ReportsTwo
    <3>2. DoubleBitError(memory) => Corrected(memory) = memory
      BY DEF DoubleBitError, Corrected
    <3> QED
      BY <2>6, <2>7, <3>1, <3>2
  <2>11. Cardinality(WrongInWord) \in Nat
    <3>1. WrongInWord \subseteq Positions
      BY <2>1, <2>6, WordFacts DEF Toggle
    <3> QED
      BY <3>1, WordsFinite
  <2>12. Cardinality(WrongInWord) <= 2 => Cardinality(WrongInWord) <= 1 \/ Cardinality(WrongInWord) = 2
    BY <2>11
  <2> QED
    BY <2>8, <2>9, <2>10, <2>11, <2>12
<1>2. EccIInv /\ [EccNext]_eccVars =>
          [ Read =>
              /\ Cardinality(Wrong) <= 2 => Wrong' \subseteq Wrong
              /\ Cardinality(WrongInWord) <= 2 => WrongInWord' \subseteq WrongInWord
              /\ Cardinality(WrongInWord) = 1 => WrongInWord' \subseteq {PW} ]_eccVars
  BY <1>1
<1> QED
  BY <1>2, EccInvariant, PTL DEF EccSpec, ReadRepairs
=============================================================================
