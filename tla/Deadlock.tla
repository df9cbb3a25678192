------------------------------- MODULE Deadlock -------------------------------
(***************************************************************************)
(* The three lock exercises of example-sync-updated-2.  deadlock.c: thread *)
(* 1 locks A then B, thread 2 B then A.  deadlock_timeout.c: the same with *)
(* pthread_mutex_timedlock, giving the first one back when the second does *)
(* not come in time, round and round.  deadlock_simple_timeout.c: main     *)
(* holds A and never lets go.  Time is left out: a timed lock may give up  *)
(* whenever its mutex is taken.  The mutexes are the default kind, which   *)
(* a thread may also unlock when it is not the one that holds it.          *)
(***************************************************************************)
EXTENDS Integers

VARIABLES
    program, mode,    \* which program, and its argument: "safe", or nothing or "race"
    mpc, pc,          \* where main and the two threads are
    owner,            \* who locked each mutex last and has it
    got_one, got_two, \* the threads that have set these flags of deadlock_timeout.c
    rsrcCnts,         \* the count kept of each resource
    passed            \* history: threads that went on to their second mutex without the first

config == <<program, mode>>
safe == mode = "safe"
flags == <<got_one, got_two, passed>>
vars == <<config, mpc, pc, owner, flags, rsrcCnts>>

Threads == {1, 2}
Resources == {"A", "B"}
Nobody == 0
Main == 3

One(t) == IF t = 1 THEN "A" ELSE "B"
Two(t) == IF t = 1 THEN "B" ELSE "A"

\* "race" only leaves the sleeps out, which are no state of the program.
Init ==
    /\ program \in {"deadlock", "timeout", "simple"}
    /\ mode \in IF program = "simple" THEN {"unsafe"} ELSE {"safe", "unsafe"}
    /\ mpc = "create 1"
    /\ pc = [t \in Threads |-> "none"]
    /\ owner = [r \in Resources |-> IF program = "simple" /\ r = "A" THEN Main ELSE Nobody]
    /\ got_one = {} /\ got_two = {}
    /\ rsrcCnts = [r \in Resources |-> 0]
    /\ passed = {}

Goto(t, at) == pc' = [pc EXCEPT ![t] = at]

Count(r, n) == [rsrcCnts EXCEPT ![r] = @ + n]

\* Mutant: "safe" does not wait.
MainStepHasty ==
    /\ program # "simple"
    /\ \/ mpc = "create 1" /\ Goto(1, "one") /\ mpc' = "create 2"
       \/ mpc = "create 2" /\ Goto(2, "one") /\ mpc' = "join 1"
       \/ mpc = "join 1" /\ pc[1] = "done" /\ UNCHANGED pc /\ mpc' = "join 2"
       \/ mpc = "join 2" /\ pc[2] = "done" /\ mpc' = "done" /\ UNCHANGED pc
    /\ UNCHANGED <<config, owner, flags, rsrcCnts>>

\* main of the first two programs: "safe" joins thread 1 before it creates thread 2
MainStep ==
    /\ program # "simple"
    /\ \/ mpc = "create 1" /\ Goto(1, "one") /\ mpc' = IF safe THEN "join 1" ELSE "create 2"
       \/ mpc = "create 2" /\ Goto(2, "one") /\ mpc' = IF safe THEN "join 2" ELSE "join 1"
       \/ /\ mpc = "join 1" /\ pc[1] = "done" /\ UNCHANGED pc
          /\ mpc' = IF safe THEN "create 2" ELSE "join 2"
       \/ mpc = "join 2" /\ pc[2] = "done" /\ mpc' = "done" /\ UNCHANGED pc
    /\ UNCHANGED <<config, owner, flags, rsrcCnts>>

\* main of deadlock_simple_timeout.c, and its threads, which try again for ever
SimpleMain ==
    /\ program = "simple"
    /\ \/ mpc = "create 1" /\ Goto(1, "one") /\ mpc' = "create 2"
       \/ mpc = "create 2" /\ Goto(2, "one") /\ mpc' = "join 1"
    /\ UNCHANGED <<config, owner, flags, rsrcCnts>>

\* A thread that is through with its lock asks for it again, and would then wait for itself.
SimpleTry(t) ==
    /\ program = "simple" /\ pc[t] = "one"
    /\ owner' = [owner EXCEPT !["A"] = IF @ = Nobody THEN t ELSE @]
    /\ UNCHANGED <<config, mpc, pc, flags, rsrcCnts>>

-----------------------------------------------------------------------------
\* deadlock.c

Take(t, r) ==
    /\ owner[r] = Nobody
    /\ owner' = [owner EXCEPT ![r] = t]
    /\ rsrcCnts' = Count(r, 1)

\* pthread_mutex_lock of one, then of two
Lock(t) ==
    /\ program = "deadlock"
    /\ \/ pc[t] = "one" /\ Take(t, One(t)) /\ Goto(t, "two")
       \/ pc[t] = "two" /\ Take(t, Two(t)) /\ Goto(t, "unlock")
    /\ UNCHANGED <<config, mpc, flags>>

Free(r) == owner' = [owner EXCEPT ![r] = Nobody]

\* Mutant: the second mutex stays locked.
UnlockOne(t) ==
    /\ program = "deadlock"
    /\ pc[t] = "unlock" /\ Free(One(t)) /\ Goto(t, "done")
    /\ UNCHANGED <<config, mpc, flags, rsrcCnts>>

\* in the reverse order; the counts only ever go up
Unlock(t) ==
    /\ program = "deadlock"
    /\ \/ pc[t] = "unlock" /\ Free(Two(t)) /\ Goto(t, "unlock one")
       \/ pc[t] = "unlock one" /\ Free(One(t)) /\ Goto(t, "done")
    /\ UNCHANGED <<config, mpc, flags, rsrcCnts>>

-----------------------------------------------------------------------------
\* deadlock_timeout.c

\* The first timed lock of a round.  When it times out the thread goes on all the same; it
\* ends when a call that has to wait fails otherwise, which EXPONENTIAL_BACKOFF, in the place
\* of RANDOM_BACKOFF, brings about: it adds to tv_nsec without a carry.
TimedLockOne(t) ==
    /\ program = "timeout" /\ pc[t] = "one"
    /\ IF owner[One(t)] = Nobody
       THEN /\ Take(t, One(t))
            /\ got_one' = got_one \cup {t}
            /\ Goto(t, IF t \in got_two THEN "both" ELSE "two")
            /\ UNCHANGED passed
       ELSE /\ \/ Goto(t, "done") /\ UNCHANGED passed
               \/ /\ Goto(t, IF t \in got_one /\ t \in got_two THEN "both" ELSE "two")
                  /\ passed' = passed \cup {t}
            /\ UNCHANGED <<owner, rsrcCnts, got_one>>
    /\ UNCHANGED <<config, mpc, got_two>>

\* Mutant: the loop ends with the first mutex alone.
TimedLockTwoLeaves(t) ==
    /\ program = "timeout" /\ pc[t] = "two"
    /\ IF owner[Two(t)] = Nobody
       THEN /\ Take(t, Two(t))
            /\ got_two' = got_two \cup {t}
       ELSE /\ rsrcCnts' = Count(One(t), -1)
            /\ Free(One(t))
            /\ UNCHANGED got_two
    /\ Goto(t, IF t \in got_one THEN "both" ELSE "one")
    /\ UNCHANGED <<config, mpc, got_one, passed>>

\* The second: when it times out or fails the first mutex is unlocked, whoever has it, and
\* the flags stay as they are; after a failure the thread ends.
TimedLockTwo(t) ==
    /\ program = "timeout" /\ pc[t] = "two"
    /\ IF owner[Two(t)] = Nobody
       THEN /\ Take(t, Two(t))
            /\ got_two' = got_two \cup {t}
            /\ Goto(t, IF t \in got_one THEN "both" ELSE "one")
       ELSE /\ rsrcCnts' = Count(One(t), -1)
            /\ Free(One(t))
            /\ Goto(t, "one") \/ Goto(t, "done")
            /\ UNCHANGED got_two
    /\ UNCHANGED <<config, mpc, got_one, passed>>

\* "got both": both are unlocked, whoever has them.
ReleaseBoth(t) ==
    /\ program = "timeout"
    /\ \/ pc[t] = "both" /\ Free(Two(t)) /\ rsrcCnts' = Count(Two(t), -1) /\ Goto(t, "release one")
       \/ pc[t] = "release one" /\ Free(One(t)) /\ rsrcCnts' = Count(One(t), -1) /\ Goto(t, "done")
    /\ UNCHANGED <<config, mpc, flags>>

-----------------------------------------------------------------------------
Thread(t) == SimpleTry(t) \/ Lock(t) \/ Unlock(t) \/ TimedLockOne(t) \/ TimedLockTwo(t) \/ ReleaseBoth(t)

Next == MainStep \/ SimpleMain \/ \E t \in Threads : Thread(t)

Fairness == WF_vars(MainStep \/ SimpleMain) /\ \A t \in Threads : WF_vars(Thread(t))

Spec == Init /\ [][Next]_vars /\ Fairness

-----------------------------------------------------------------------------
\* A thread of deadlock_timeout.c that leaves its loop has both resources, unlocks nothing
\* of the other's, and the counts tell who holds what: unless some thread has gone on to its
\* second mutex after a time-out of the first.  The loop allows that; when the second lock
\* times out too, the thread unlocks the first mutex under the other thread's feet.
BothUnlessPassed ==
    program = "timeout" /\ passed = {} =>
        /\ \A t \in Threads :
              /\ pc[t] = "both" => owner[One(t)] = t /\ owner[Two(t)] = t
              /\ pc[t] = "release one" => owner[One(t)] = t
        /\ \A r \in Resources : rsrcCnts[r] = (IF owner[r] = Nobody THEN 0 ELSE 1)

\* "safe" keeps the threads apart: neither program then times out or waits for a mutex.
SafeNeverWaits ==
    safe => /\ passed = {}
            /\ \A t \in Threads : /\ pc[t] = "one" => owner[One(t)] = Nobody
                                  /\ pc[t] = "two" => owner[Two(t)] = Nobody

Crossed == \A t \in Threads : pc[t] = "two" /\ owner[One(t)] = t

\* deadlock.c ends, or stops for good with each thread holding what the other one wants;
\* that happens only without "safe".
EndsOrDeadlocks ==
    program = "deadlock" => <>(mpc = "done" \/ (Crossed /\ ~safe))
=============================================================================
