------------------------------ MODULE Feasibility ------------------------------
(***************************************************************************)
(* The two feasibility tests of feasibility/ for rate monotonic services   *)
(* whose deadlines are their periods: the completion time test and the     *)
(* scheduling point test, and the service sets they are run on.  A service *)
(* set has periods T and run times C, the shortest period first.  Sums are *)
(* small: the 32 bits of the code's unsigned numbers do not matter.        *)
(***************************************************************************)
EXTENDS Naturals, Sequences

Services(set) == 1 .. Len(set.T)

CeilDiv(a, b) == (a + b - 1) \div b

\* f[1] + ... + f[n]
SumTo(f, n) ==
    LET sum[j \in 0 .. n] == IF j = 0 THEN 0 ELSE sum[j - 1] + f[j]
    IN  sum[n]

\* What the services up to i ask for in the first a ticks when all start at 0.
Load(set, i, a) ==
    SumTo([j \in Services(set) |-> CeilDiv(a, set.T[j]) * set.C[j]], i)

\* Mutant: the services before i are counted by the periods that are over.
DemandFloor(set, i, a) ==
    set.C[i] + SumTo([j \in Services(set) |-> (a \div set.T[j]) * set.C[j]], i - 1)

Demand(set, i, a) == set.C[i] + Load(set, i - 1, a)

\* Mutant: the loop stops when it has seen one round.
CompletionTimeOnce(set, i) == Demand(set, i, Load(set, i, 1))

\* an: from one run of each service on, until the demand in an is an
CompletionTime(set, i) ==
    LET settle[an \in Nat] ==
          IF Demand(set, i, an) = an THEN an ELSE settle[Demand(set, i, an)]
    IN  settle[Load(set, i, 1)]

CompletionFeasible(set) == \A i \in Services(set) : CompletionTime(set, i) <= set.T[i]

\* Mutant: the last multiple of a period is left out.
SchedulingPointFeasibleShort(set) ==
    \A S2 \in Services(set) : \E S \in 1 .. S2 :
        \E n \in 1 .. (set.T[S2] \div set.T[S]) - 1 :
            Load(set, S2, n * set.T[S]) <= n * set.T[S]

\* Some multiple of some period up to T[S2] holds all that is asked for until then.  Left out:
\* a quotient by period[i] with i not set yet, which nothing uses.
SchedulingPointFeasible(set) ==
    \A S2 \in Services(set) : \E S \in 1 .. S2 :
        \E n \in 1 .. set.T[S2] \div set.T[S] :
            Load(set, S2, n * set.T[S]) <= n * set.T[S]

Hyperperiod(set) ==
    LET product[j \in 0 .. Len(set.T)] == IF j = 0 THEN 1 ELSE product[j - 1] * set.T[j]
    IN  product[Len(set.T)]

\* Utilisation of the first i services, against one.
Within(set, i) == Load(set, i, Hyperperiod(set)) <= Hyperperiod(set)
Below(set, i) == Load(set, i, Hyperperiod(set)) < Hyperperiod(set)

\* The loop of the completion time test ends when the services before leave some time.
Settles(set) == \A i \in Services(set) : Below(set, i - 1)

\* tests.c
TestCases == {
    [T |-> <<2, 10, 15>>,     C |-> <<1, 1, 2>>],
    [T |-> <<2, 5, 7>>,       C |-> <<1, 1, 2>>],
    [T |-> <<2, 5, 7, 13>>,   C |-> <<1, 1, 1, 2>>],   \* 2, 6 and 8
    [T |-> <<3, 5, 15>>,      C |-> <<1, 2, 3>>],
    [T |-> <<2, 4, 16>>,      C |-> <<1, 1, 4>>],
    [T |-> <<2, 5, 10>>,      C |-> <<1, 2, 1>>],
    [T |-> <<3, 5, 15>>,      C |-> <<1, 2, 4>>],
    [T |-> <<6, 8, 12, 24>>,  C |-> <<1, 2, 4, 6>>],   \* 9 and 12
    [T |-> <<2, 5, 7, 14>>,   C |-> <<1, 1, 1, 2>>],
    [T |-> <<3, 6, 9>>,       C |-> <<1, 2, 3>>],
    [T |-> <<4, 8, 12, 16>>,  C |-> <<1, 2, 3, 4>>],
    [T |-> <<2, 5, 10>>,      C |-> <<1, 1, 3>>],
    [T |-> <<2, 5, 10>>,      C |-> <<1, 2, 3>>],
    [T |-> <<10, 40, 100>>,   C |-> <<1, 33, 72>>],    \* 16 and 17
    [T |-> <<10, 40>>,        C |-> <<1, 33>>],
    [T |-> <<10, 40, 100>>,   C |-> <<1, 33, 6>>]}

\* The examples of feasibility_tests.c are the first five.
Examples == {
    [T |-> <<2, 10, 15>>,     C |-> <<1, 1, 2>>],
    [T |-> <<2, 5, 7>>,       C |-> <<1, 1, 2>>],
    [T |-> <<2, 5, 7, 13>>,   C |-> <<1, 1, 1, 2>>],
    [T |-> <<3, 5, 15>>,      C |-> <<1, 2, 3>>],
    [T |-> <<2, 4, 16>>,      C |-> <<1, 1, 4>>]}
=============================================================================
