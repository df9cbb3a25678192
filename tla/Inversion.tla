------------------------------ MODULE Inversion ------------------------------
(***************************************************************************)
(* The four priority inversion demonstrations of example-sync-updated-2.   *)
(* A service thread creates L, spins until L is in the critical section,   *)
(* creates H, which needs the same mutex, and M, which only computes; then *)
(* it joins the three.  The programs differ in the policy, the priority    *)
(* and the processor they give to each thread, and in nothing else.        *)
(***************************************************************************)
EXTENDS Naturals

CONSTANTS
    CSLength,    \* CS_LENGTH (10): rounds of fibCycleBurner in the critical section
    Interference \* the largest argument intfTime tried: rounds of M

ASSUME InversionAssumption == CSLength \in Nat \ {0} /\ Interference \in Nat

VARIABLES
    program,
    runInterference,
    pc,          \* where each thread is, the service included
    owner,       \* who holds sharedMemSem
    CScnt,       \* how many critical sections were entered
    idleCount    \* idleCount[t]: rounds t has made

vars == <<program, runInterference, pc, owner, CScnt, idleCount>>

Tasks == {"H", "M", "L"}
Threads == Tasks \cup {"service"}
Nobody == "nobody"

\* Ranks stand for rt_min_prio (1) up to rt_max_prio (9); rank 0 is SCHED_OTHER, which may
\* run on any processor while the others share processor 0.
Max == 9
Min == 1
BestEffort == 0

\* For each program: what main gives to the service, and what startService gives to the
\* three threads it creates one after the other.
\* pthread3.c: FIFO is overwritten by RR for the service and, through the attributes that
\* were meant to be changed, for H and M; L inherits the scheduling of the service.
Pthread3Service == Min + 1
Pthread3Tasks == [L |-> Pthread3Service, H |-> Max, M |-> Max - 1]

\* Mutant: M is created with default attributes, and stays best effort.
OkTasksDefault == [L |-> Max - 3, H |-> Max - 1, M |-> BestEffort]

\* pthread3ok.c: the service is best effort
OkService == BestEffort
OkTasks == [L |-> Max - 3, H |-> Max - 1, M |-> Max - 2]

\* pthread3ok_spins.c: the service is a FIFO thread above the three
SpinsService == Max
SpinsTasks == [L |-> Max - 3, H |-> Max - 1, M |-> Max - 2]

\* pthread3amp.c: SCHED_OTHER refuses the priority.  The protocol PTHREAD_PRIO_INHERIT is
\* set on an attribute object after the mutex was initialised without one: it has no effect.
AmpService == BestEffort
AmpTasks == [L |-> Min, H |-> Max, M |-> Max - 1]

Programs == {"pthread3", "pthread3ok", "pthread3ok_spins", "pthread3amp"}
ServiceRank(p) ==
    CASE p = "pthread3" -> Pthread3Service [] p = "pthread3ok" -> OkService
      [] p = "pthread3ok_spins" -> SpinsService [] p = "pthread3amp" -> AmpService
TaskRanks(p) ==
    CASE p = "pthread3" -> Pthread3Tasks [] p = "pthread3ok" -> OkTasks
      [] p = "pthread3ok_spins" -> SpinsTasks [] p = "pthread3amp" -> AmpTasks
Rank(t) == IF t = "service" THEN ServiceRank(program) ELSE TaskRanks(program)[t]

Init ==
    /\ program \in Programs
    /\ runInterference \in 0 .. Interference
    /\ pc = [t \in Threads |-> IF t = "service" THEN "create L" ELSE "none"]
    /\ owner = Nobody
    /\ CScnt = 0
    /\ idleCount = [t \in Tasks |-> 0]

CreateOf == [H |-> "create H", M |-> "create M", L |-> "create L"]
JoinOf == [H |-> "join H", M |-> "join M", L |-> "join L"]
Sleeps(t) ==
    \/ pc[t] = "lock" /\ owner # Nobody
    \/ t = "service" /\ \E u \in Tasks : pc[t] = JoinOf[u] /\ pc[u] # "done"
Ready(t) == pc[t] \notin {"none", "done"} /\ ~Sleeps(t)

\* One processor for the real-time threads: the highest ready rank runs; a best-effort
\* thread has the other processors.  The only real-time threads of equal rank are the service
\* and L of pthread3.c, which are SCHED_RR and take turns.
Runs(t, at) ==
    /\ pc[t] = at /\ Ready(t)
    /\ Rank(t) # BestEffort => \A u \in Threads : Ready(u) => Rank(u) <= Rank(t)

\* Mutant: H is created without waiting for L.
CreateHasty(u) ==
    /\ Runs("service", CreateOf[u])
    /\ pc' = [pc EXCEPT !["service"] = CASE u = "L" -> "create H"
                                         [] u = "H" -> "create M"
                                         [] u = "M" -> "join H",
                        ![u] = IF u = "M" /\ runInterference = 0 THEN "done"
                               ELSE IF u = "M" THEN "compute" ELSE "lock"]
    /\ UNCHANGED <<program, runInterference, owner, CScnt, idleCount>>

\* startService: pthread_create of L, H and, if there is to be interference, M
Create(u) ==
    /\ Runs("service", CreateOf[u])
    /\ pc' = [pc EXCEPT !["service"] = CASE u = "L" -> "spin"
                                         [] u = "H" -> "create M"
                                         [] u = "M" -> "join H",
                        ![u] = IF u = "M" /\ runInterference = 0 THEN "done"
                               ELSE IF u = "M" THEN "compute" ELSE "lock"]
    /\ UNCHANGED <<program, runInterference, owner, CScnt, idleCount>>

\* while(CScnt < 1)
Spin ==
    /\ Runs("service", "spin")
    /\ pc' = IF CScnt < 1 THEN pc ELSE [pc EXCEPT !["service"] = "create H"]
    /\ UNCHANGED <<program, runInterference, owner, CScnt, idleCount>>

\* pthread_join of H, M and L
Join ==
    /\ \/ Runs("service", "join H") /\ pc' = [pc EXCEPT !["service"] = "join M"]
       \/ Runs("service", "join M") /\ pc' = [pc EXCEPT !["service"] = "join L"]
       \/ Runs("service", "join L") /\ pc' = [pc EXCEPT !["service"] = "done"]
    /\ UNCHANGED <<program, runInterference, owner, CScnt, idleCount>>

\* simpleTask: at least one round
Compute ==
    /\ Runs("M", "compute")
    /\ idleCount' = [idleCount EXCEPT !["M"] = @ + 1]
    /\ pc' = [pc EXCEPT !["M"] = IF idleCount'["M"] < runInterference THEN "compute" ELSE "done"]
    /\ UNCHANGED <<program, runInterference, owner, CScnt>>

\* criticalSectionTask: the lock,
Enter(t) ==
    /\ Runs(t, "lock")
    /\ owner' = t
    /\ CScnt' = CScnt + 1
    /\ idleCount' = [idleCount EXCEPT ![t] = 0]
    /\ pc' = [pc EXCEPT ![t] = "critical"]
    /\ UNCHANGED <<program, runInterference>>

\* CS_LENGTH rounds,
Burn(t) ==
    /\ Runs(t, "critical")
    /\ idleCount' = [idleCount EXCEPT ![t] = @ + 1]
    /\ pc' = [pc EXCEPT ![t] = IF idleCount'[t] < CSLength THEN "critical" ELSE "unlock"]
    /\ UNCHANGED <<program, runInterference, owner, CScnt>>

\* Mutant: the mutex is left locked.
LeaveLocked(t) ==
    /\ Runs(t, "unlock")
    /\ pc' = [pc EXCEPT ![t] = "done"]
    /\ UNCHANGED <<program, runInterference, owner, CScnt, idleCount>>

\* and the unlock
Leave(t) ==
    /\ Runs(t, "unlock")
    /\ owner' = Nobody
    /\ pc' = [pc EXCEPT ![t] = "done"]
    /\ UNCHANGED <<program, runInterference, CScnt, idleCount>>

Service == Spin \/ Join \/ \E u \in Tasks : Create(u)
Critical(t) == Enter(t) \/ Burn(t) \/ Leave(t)

\* main has joined the service.
Ended == pc["service"] = "done" /\ UNCHANGED vars

Next == Service \/ Compute \/ Critical("H") \/ Critical("L") \/ Ended

\* A thread that may run does: RR shares the processor between equal ranks.
Fairness == WF_vars(Service) /\ WF_vars(Compute) /\ WF_vars(Critical("H")) /\ WF_vars(Critical("L"))

Spec == Init /\ [][Next]_vars /\ Fairness

-----------------------------------------------------------------------------
\* The spin loop does its work without a lock: H enters the critical section only when L has
\* left it, so H always pays for what is left of L's.
HAfterL == pc["H"] \in {"critical", "unlock", "done"} => pc["L"] = "done" /\ CScnt = 2

\* Whatever the ranks, H is kept waiting for all of M's computation or for none of it: M is
\* never half done when H gets the mutex, also where the mutex was to inherit priorities.
AllOrNothing ==
    pc["H"] \in {"critical", "unlock"} => idleCount["M"] \in {0, runInterference}

\* The demonstration ends, unless the service spins above the thread it waits for; then L
\* never runs.
EndsUnlessSpinning ==
    <>(pc["service"] = "done" \/ [](program = "pthread3ok_spins" /\ CScnt = 0))
=============================================================================
