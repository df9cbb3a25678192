------------------------------- MODULE Schedule -------------------------------
(***************************************************************************)
(* The simulator schedule/schedule.c: one processor, one step per tick,    *)
(* under rate monotonic, earliest deadline first or least laxity first.    *)
(* A set is one of tests.c, one of feasibility_tests.c or, with -c, any    *)
(* other.  The printed tables and the statistics are left out.             *)
(***************************************************************************)
EXTENDS Feasibility, Integers, FiniteSets

CONSTANTS
    TICKS,       \* LCM * 2 (20): the simulated time, whatever the services' periods
    MaxServices, \* bounds of the sets given with -c
    MaxPeriod

ASSUME ScheduleAssumption == TICKS \in Nat /\ MaxServices \in Nat /\ MaxPeriod \in Nat

VARIABLES
    set, protocol,
    t,
    Deadline,    \* of each service: ticks to its deadline
    Runtime,     \* ticks it has had since its release
    events,      \* the service of each tick so far, None (-1) where no one ran
    misses

scheduleVars == <<set, protocol, t, Deadline, Runtime, events, misses>>

None == 0
Protocols == {"RM", "EDF", "LLF"}

\* -c takes the periods and run times in any order; zeroes, and run times longer than their
\* periods, are left out.
Custom ==
    UNION {[T : [1 .. n -> 1 .. MaxPeriod], C : [1 .. n -> 1 .. MaxPeriod]] : n \in 1 .. MaxServices}
Cases == TestCases \cup Examples \cup {s \in Custom : \A i \in Services(s) : s.C[i] <= s.T[i]}

ScheduleInit ==
    /\ set \in Cases
    /\ protocol \in Protocols
    /\ t = 0
    /\ Deadline = set.T
    /\ Runtime = [s \in Services(set) |-> 0]
    /\ events = <<>>
    /\ misses = 0

\* Mutant: a period ends a tick early.
ExpiredEarly == {s \in Services(set) : Deadline[s] <= 1}

Expired == {s \in Services(set) : Deadline[s] = 0}

Missed == {s \in Expired : Runtime[s] # set.C[s]}

\* What is left of each service's period and run after the expired ones are released again.
ToDeadline == [s \in Services(set) |-> IF s \in Expired THEN set.T[s] ELSE Deadline[s]]
HasRun == [s \in Services(set) |-> IF s \in Expired THEN 0 ELSE Runtime[s]]

Waiting == {s \in Services(set) : HasRun[s] < set.C[s]}

\* The first of those with the least value runs.
Least(value) ==
    {s \in Waiting : \A u \in Waiting : value[s] < value[u] \/ (value[s] = value[u] /\ s <= u)}

\* Mutant: the last service with work runs.
RateMonotonicLast == {s \in Waiting : \A u \in Waiting : u <= s}

RateMonotonic == {s \in Waiting : \A u \in Waiting : s <= u}

\* Mutant: the deadlines are not counted down.
EarliestDeadlineFirstStatic == Least(set.T)

EarliestDeadlineFirst == Least(ToDeadline)

\* The laxity is negative for a service that will miss.
LeastLaxityFirst == Least([s \in Services(set) |-> ToDeadline[s] - (set.C[s] - HasRun[s])])

ServiceToRun ==
    CASE protocol = "RM" -> RateMonotonic
      [] protocol = "EDF" -> EarliestDeadlineFirst
      [] protocol = "LLF" -> LeastLaxityFirst

\* One pass of the scheduling engine.
Tick ==
    /\ t < TICKS
    /\ t' = t + 1
    /\ misses' = misses + Cardinality(Missed)
    /\ Runtime' = [s \in Services(set) |-> IF s \in ServiceToRun THEN HasRun[s] + 1 ELSE HasRun[s]]
    /\ events' = Append(events, IF ServiceToRun = {} THEN None ELSE CHOOSE s \in ServiceToRun : TRUE)
    /\ Deadline' = [s \in Services(set) |-> ToDeadline[s] - 1]
    /\ UNCHANGED <<set, protocol>>

ScheduleNext == Tick

ScheduleSpec == ScheduleInit /\ [][ScheduleNext]_scheduleVars

-----------------------------------------------------------------------------
\* Both tests give the same verdict on every set for which the first one comes to an end.
TestsAgree ==
    t = 0 /\ Settles(set) =>
        (CompletionFeasible(set) <=> SchedulingPointFeasible(set))

\* The simulation of rate monotonic scheduling misses a deadline exactly on the sets the test
\* calls infeasible, if the simulated time holds every period.
RmMissesAsTested ==
    t = TICKS /\ protocol = "RM" /\ Settles(set)
      /\ (\A s \in Services(set) : set.T[s] < TICKS)
      => (misses = 0 <=> CompletionFeasible(set))

\* And the time the test computes is the tick in which the service's first run ends.
FirstRunEndsAsTested ==
    protocol = "RM" /\ Settles(set) /\ CompletionFeasible(set) =>
        \A s \in Services(set) :
            t = CompletionTime(set, s) =>
                /\ Cardinality({k \in 1 .. t : events[k] = s}) = set.C[s]
                /\ events[t] = s

\* Deadlines and laxities never miss on a set that asks for no more than all of the time.
DynamicNeverMisses ==
    protocol # "RM" /\ Within(set, Len(set.T)) => misses = 0
=============================================================================
