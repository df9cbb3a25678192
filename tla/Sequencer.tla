------------------------------ MODULE Sequencer ------------------------------
(***************************************************************************)
(* The release handler of the synchronome: the 10 ms POSIX timer of        *)
(* simple-capture/sequencer.c and the signal handler `sequencer' it drives. *)
(* The handler runs on whichever thread the kernel picks, one statement at *)
(* a time, between the statements of every other thread; it posts the      *)
(* semaphores that release the frame grabber (every FramePeriod ticks),    *)
(* the processing thread (every ProcPeriod ticks) and, once `running' is   *)
(* zero, everybody including main.                                         *)
(*                                                                         *)
(* The rest of the program appears here only through the three things it   *)
(* does to this state: it arms the timer, takes semaphores and clears      *)
(* `running'.  Module Synchronome replaces those three by the threads.     *)
(***************************************************************************)
EXTENDS Integers, FiniteSets

CONSTANTS
    Hosts,        \* threads on which the kernel may run the handler
    FramePeriod,  \* ticks between two releases of the frame grabber (4)
    ProcPeriod,   \* ticks between two releases of the processing thread (10)
    Wrap,         \* value at which `sequence' restarts from zero (300)
    SemMax        \* SEM_VALUE_MAX: a post beyond it fails and is ignored

ASSUME PeriodAssumption ==
    /\ FramePeriod \in Nat \ {0}
    /\ ProcPeriod \in Nat \ {0}
    /\ Wrap \in Nat \ {0}
    /\ Wrap % FramePeriod = 0
    /\ Wrap % ProcPeriod = 0

ASSUME BoundAssumption == SemMax \in Nat \ {0}

VARIABLES
    running,      \* the global `running'
    timer,        \* what the kernel's timer will do: "idle", "oneshot", "periodic"
    timer1_it,    \* the program's itimerspec, in ticks
    pending,      \* RT_SIGSEQUENCER is queued (a timer queues at most one)
    hpc,          \* hpc[h]: where h is inside the handler, "out" if it is not
    sequence,     \* the static `sequence'
    seqReg,       \* seqReg[h]: the value `sequence++' has loaded on h
    sem,          \* values of the four semaphores
    gap           \* history: ticks counted since each service's last release, or Unknown

seqVars == <<running, timer, timer1_it, pending, hpc, sequence, seqReg, sem, gap>>

Semaphores == {"framegrab", "processing", "writeout", "teardown"}
Services == {"framegrab", "processing"}
Period == [s \in Services |-> IF s = "framegrab" THEN FramePeriod ELSE ProcPeriod]
Unblocking == [framegrab |-> "unblock_framegrab", processing |-> "unblock_processing",
               writeout |-> "unblock_writeout", teardown |-> "unblock_teardown"]
HandlerPC == {"out", "test", "framegrab", "processing", "load", "store", "wrap", "disarm",
              "unblock_framegrab", "unblock_processing", "unblock_writeout",
              "unblock_teardown"}
Tick == 1

\* The gap of a service once two ticks were in progress at the same time.
Unknown == -1

\* Mutant: a post that nothing bounds.
PostUnchecked(S) == [s \in Semaphores |-> IF s \in S THEN sem[s] + 1 ELSE sem[s]]

\* sem_post: fails with EOVERFLOW at SEM_VALUE_MAX, and nobody looks at the result.
Post(S) == [s \in Semaphores |-> IF s \in S /\ sem[s] < SemMax
                                 THEN sem[s] + 1 ELSE sem[s]]

\* timer_settime: a zero it_value disarms, otherwise it_interval tells which kind.
Settime(it) == CASE it.value = 0 -> "idle"
                 [] it.value # 0 /\ it.interval = 0 -> "oneshot"
                 [] OTHER -> "periodic"

Goto(h, there) == hpc' = [hpc EXCEPT ![h] = there]
Alone(h) == \A g \in Hosts \ {h} : hpc[g] = "out"

\* `sequence' restarts only from exactly Wrap.  Once it has got past it, which of the
\* values beyond it is only told by its remainders, so the model folds them.
Past(n) == IF n = 2 * Wrap + 1 THEN Wrap + 1 ELSE n

Init ==
    /\ running = TRUE
    /\ timer = "idle"
    /\ timer1_it = [value |-> Tick, interval |-> Tick]
    /\ pending = FALSE
    /\ hpc = [h \in Hosts |-> "out"]
    /\ sequence = 0
    /\ seqReg = [h \in Hosts |-> 0]
    /\ sem = [s \in Semaphores |-> 0]
    /\ gap = Period

-----------------------------------------------------------------------------
(* The timer and the delivery of its signal.                               *)

\* Another expiry while the signal is still queued is only an overrun.
TimerExpire ==
    /\ timer # "idle"
    /\ pending' = TRUE
    /\ timer' = IF timer = "oneshot" THEN "idle" ELSE timer
    /\ UNCHANGED <<running, timer1_it, hpc, sequence, seqReg, sem, gap>>

\* The handler starts on h and posts sem_writeout before it looks at anything.  The
\* signal is masked on h alone: another thread may still be handling an earlier tick.
Deliver(h) ==
    /\ pending
    /\ hpc[h] = "out"
    /\ pending' = FALSE
    /\ sem' = Post({"writeout"})
    /\ gap' = IF Alone(h) THEN gap ELSE [s \in Services |-> Unknown]
    /\ Goto(h, "test")
    /\ UNCHANGED <<running, timer, timer1_it, sequence, seqReg>>

-----------------------------------------------------------------------------
(* The body of the handler.                                                *)

TestRunning(h) ==
    /\ hpc[h] = "test"
    /\ Goto(h, IF running THEN "framegrab" ELSE "disarm")
    /\ UNCHANGED <<running, timer, timer1_it, pending, sequence, seqReg, sem, gap>>

\* if (sequence % period == 0) sem_post(service)
Release(h, s, next) ==
    /\ hpc[h] = s
    /\ Goto(h, next)
    /\ IF sequence % Period[s] = 0
       THEN /\ sem' = Post({s})
            /\ gap' = [gap EXCEPT ![s] = IF Alone(h) THEN 0 ELSE Unknown]
       ELSE UNCHANGED <<sem, gap>>
    /\ UNCHANGED <<running, timer, timer1_it, pending, sequence, seqReg>>

ReleaseFrame(h) == Release(h, "framegrab", "processing")
ReleaseProcessing(h) == Release(h, "processing", "load")

\* sequence++ is a load and a store, and neither is atomic with the other.
LoadSequence(h) ==
    /\ hpc[h] = "load"
    /\ seqReg' = [seqReg EXCEPT ![h] = sequence]
    /\ Goto(h, "store")
    /\ UNCHANGED <<running, timer, timer1_it, pending, sequence, sem, gap>>

StoreSequence(h) ==
    /\ hpc[h] = "store"
    /\ sequence' = Past(seqReg[h] + 1)
    /\ seqReg' = [seqReg EXCEPT ![h] = 0]
    /\ gap' = [s \in Services |-> IF gap[s] \in 0 .. Period[s] THEN gap[s] + 1
                                                            ELSE gap[s]]
    /\ Goto(h, "wrap")
    /\ UNCHANGED <<running, timer, timer1_it, pending, sem>>

\* Mutant: the counter restarts one tick late.
WrapSequenceLate(h) ==
    /\ hpc[h] = "wrap"
    /\ sequence' = IF sequence > Wrap THEN 0 ELSE sequence
    /\ Goto(h, "out")
    /\ UNCHANGED <<running, timer, timer1_it, pending, seqReg, sem, gap>>

WrapSequence(h) ==
    /\ hpc[h] = "wrap"
    /\ sequence' = IF sequence = Wrap THEN 0 ELSE sequence
    /\ Goto(h, "out")
    /\ UNCHANGED <<running, timer, timer1_it, pending, seqReg, sem, gap>>

\* Only it_interval is cleared: it_value keeps the 10 ms main stored there.  The call
\* fails only for a timer or a time that is not valid, so its exit(-1) is not taken.
DisarmTimer(h) ==
    /\ hpc[h] = "disarm"
    /\ timer1_it' = [timer1_it EXCEPT !.interval = 0]
    /\ timer' = Settime(timer1_it')
    /\ Goto(h, "unblock_framegrab")
    /\ UNCHANGED <<running, pending, sequence, seqReg, sem, gap>>

\* One of the four posts.
Unblock(h, s, next) ==
    /\ hpc[h] = Unblocking[s]
    /\ sem' = Post({s})
    /\ Goto(h, next)
    /\ UNCHANGED <<running, timer, timer1_it, pending, sequence, seqReg, gap>>

\* Mutant: main's semaphore is forgotten.
UnblockWorkersOnly(h) ==
    \/ Unblock(h, "framegrab", "unblock_processing")
    \/ Unblock(h, "processing", "unblock_writeout")
    \/ Unblock(h, "writeout", "out")

UnblockEveryone(h) ==
    \/ Unblock(h, "framegrab", "unblock_processing")
    \/ Unblock(h, "processing", "unblock_writeout")
    \/ Unblock(h, "writeout", "unblock_teardown")
    \/ Unblock(h, "teardown", "out")

Handler(h) ==
    \/ TestRunning(h)
    \/ ReleaseFrame(h)
    \/ ReleaseProcessing(h)
    \/ LoadSequence(h)
    \/ StoreSequence(h)
    \/ WrapSequence(h)
    \/ DisarmTimer(h)
    \/ UnblockEveryone(h)

-----------------------------------------------------------------------------
(* What the rest of the program does to this state.                        *)

\* main, once every thread is past the barrier
ArmTimer ==
    /\ timer = "idle"
    /\ timer1_it.interval # 0
    /\ timer' = Settime(timer1_it)
    /\ UNCHANGED <<running, timer1_it, pending, hpc, sequence, seqReg, sem, gap>>

\* some sem_wait returns
Take(s) ==
    /\ sem[s] > 0
    /\ sem' = [sem EXCEPT ![s] = @ - 1]
    /\ UNCHANGED <<running, timer, timer1_it, pending, hpc, sequence, seqReg, gap>>

\* ctrl_c, dump_logs, the end of profiling, or a thread's error_exit
Stop ==
    /\ running' = FALSE
    /\ UNCHANGED <<timer, timer1_it, pending, hpc, sequence, seqReg, sem, gap>>

Next ==
    \/ TimerExpire
    \/ \E h \in Hosts : Deliver(h) \/ Handler(h)
    \/ ArmTimer
    \/ \E s \in Semaphores : Take(s)
    \/ Stop

Spec == Init /\ [][Next]_seqVars

-----------------------------------------------------------------------------
(* Properties                                                              *)

\* Every variable keeps the range the code's declarations and SEM_VALUE_MAX give it.
TypeOK ==
    /\ running \in BOOLEAN
    /\ timer \in {"idle", "oneshot", "periodic"}
    /\ timer1_it \in [value : {Tick}, interval : {0, Tick}]
    /\ pending \in BOOLEAN
    /\ hpc \in [Hosts -> HandlerPC]
    /\ sequence \in 0 .. 2 * Wrap
    /\ seqReg \in [Hosts -> 0 .. 2 * Wrap]
    /\ sem \in [Semaphores -> 0 .. SemMax]
    /\ gap \in [Services -> Int]
    /\ \A s \in Services : gap[s] \in Unknown .. Period[s] + 1

\* The handler releases a service exactly when as many ticks have been counted
\* since its last release as the service's period asks for (the handler's "4 * 10 = 40ms,
\* 25Hz" and "10 * 10 = 100ms, 10Hz"): no release is early, none is skipped, and restarting
\* `sequence' from zero does not shift the phase.  Two ticks that are handled at the same
\* time may spoil the release under way and the one after; the damage ends with the first
\* release of the service by a handler that is alone, even where `sequence' has got past
\* the value it restarts from.
ReleaseOnSchedule ==
    \A h \in Hosts, s \in Services :
        hpc[h] = s /\ gap[s] # Unknown => (sequence % Period[s] = 0 <=> gap[s] = Period[s])
=============================================================================
