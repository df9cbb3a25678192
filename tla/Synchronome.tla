----------------------------- MODULE Synchronome -----------------------------
(***************************************************************************)
(* The life of the synchronome, simple-capture/sequencer.c with the three  *)
(* threads it creates: main and the workers of capture.c, processing.c and *)
(* writeout.c, from the creation of the threads to the end of main.  The   *)
(* release handler and its timer are module Sequencer, whose state and     *)
(* steps are used as they are; the handler runs on a thread of this module *)
(* and suspends it meanwhile.                                              *)
(*                                                                         *)
(* What a frame contains is left out: the scan of processing.c finds a     *)
(* tick or does not (module ScanRing says when), a message is counted      *)
(* (module PQueue has the queue itself), a buffer is allocated or freed.   *)
(***************************************************************************)
EXTENDS Integers, FiniteSets

CONSTANTS
    FramePeriod, ProcPeriod, Wrap, SemMax, \* see Sequencer
    ProfileIters, \* PROFILE_ITERS: frame intervals after which framegrab stops all (500)
    Mishaps,      \* bound: how many of the events MayHappen allows there are in all
    Patient,      \* TRUE: five seconds suffice for a thread that will ever stop
    Fifo,         \* TRUE: strict priorities on one processor; FALSE: any interleaving
    MayHappen     \* stop: ctrl-c or stop.sh; overlap: a tick comes while a thread still
                  \* handles another; create, init, camera: such a call fails

ASSUME EnvironmentAssumption ==
    /\ ProfileIters \in Nat \ {0}
    /\ Mishaps \in Nat
    /\ Patient \in BOOLEAN
    /\ Fifo \in BOOLEAN
    /\ MayHappen \subseteq {"stop", "overlap", "create", "init", "camera"}

VARIABLES
    running, timer, timer1_it, pending, hpc, sequence, seqReg, sem, gap, \* see Sequencer
    pc,             \* pc[t]: where thread t is
    masked,         \* main has masked RT_SIGSEQUENCER
    arrived,        \* threads that have called pthread_barrier_wait
    saRestart,      \* the SA_RESTART bit of the tick handler's uninitialised sa_flags
    intr,           \* intr[t]: the call t is blocked in will return EINTR
    mishaps,        \* how many of those events are still to come
    frames,         \* frames grabbed
    did_frame_tick, \* processing's flag
    writeoutQ,      \* messages in the writeout queue
    joined,         \* outcome of main's timed join of each worker
    heap,           \* what became of the shared buffers and of the camera
    initFailed,     \* history: workers whose initialisation failed
    faults          \* history: memory that was freed twice or used when not allocated

seqVars == <<running, timer, timer1_it, pending, hpc, sequence, seqReg, sem, gap>>
mainVars == <<masked, arrived, joined>>
sigVars == <<saRestart, intr, mishaps>>
workVars == <<frames, did_frame_tick, writeoutQ>>
memVars == <<heap, initFailed, faults>>
vars == <<seqVars, pc, mainVars, sigVars, workVars, memVars>>

Workers == {"framegrab", "processing", "writeout"}
Threads == Workers \cup {"main"}
Memory == {"scan_buffer", "wo_buffer", "wo_buffers", "camera"}
Fault == {"double_free", "bad_access"} \X Memory

\* HIGHEST_PRI, HIGH_PRI, MID_PRI, LOW_PRI
Priority == [main |-> 4, framegrab |-> 3, processing |-> 2, writeout |-> 1]
Higher == [t \in Threads |-> {u \in Threads : Priority[u] > Priority[t]}]

JoinOf == [framegrab |-> "join_framegrab", processing |-> "join_processing",
           writeout |-> "join_writeout"]

\* what main frees for each worker: video_error_cleanup(ERROR_FULL_INIT),
\* deallocate_processing, deallocate_writeout
Owned == [framegrab |-> {"wo_buffer", "camera"}, processing |-> {"scan_buffer"},
          writeout |-> {"wo_buffers"}]

Timing == INSTANCE Sequencer WITH Hosts <- Threads

ASSUME SequencerAssumption == Timing!PeriodAssumption /\ Timing!BoundAssumption

Alive == pc["main"] # "exited"

\* t sleeps in the kernel, in a call that fails with EINTR unless it is restarted.
Blocked(t) ==
    /\ hpc[t] = "out"
    /\ \/ pc[t] = "wait" /\ sem[t] = 0
       \/ pc[t] = "teardown" /\ sem["teardown"] = 0
       \/ pc[t] = "dequeue"
       \/ pc[t] = "receive" /\ writeoutQ = 0

\* t cannot use the processor: it is blocked, in the barrier, in a join, waiting for the
\* disk, or not there.
Idle(t) ==
    /\ hpc[t] = "out"
    /\ \/ Blocked(t) /\ ~intr[t]
       \/ pc[t] \in {"absent", "exited", "dump"}
       \/ pc[t] \in {"barrier", "unbarrier"} /\ t \in arrived /\ arrived # Threads
       \/ \E w \in Workers : pc[t] = JoinOf[w] /\ pc[w] # "exited"

\* SCHED_FIFO on SYNCHONOME_CPU: nobody with a higher priority wants the processor.
Scheduled(t) == Fifo => \A u \in Higher[t] : Idle(u)

At(t, l) == pc[t] = l /\ hpc[t] = "out" /\ Alive /\ Scheduled(t)
Goto(t, l) == pc' = [pc EXCEPT ![t] = l]

\* An event of the kind k, which the program does not choose.
Happens(k) ==
    /\ k \in MayHappen
    /\ mishaps > 0
    /\ mishaps' = mishaps - 1

\* free() or close() of every r in S that was ever set: nothing is set to NULL after.
Released(S) == [r \in Memory |-> IF r \in S /\ heap[r] # "none" THEN "freed" ELSE heap[r]]
FreedTwice(S) == {<<"double_free", r>> : r \in {q \in S : heap[q] = "freed"}}
Access(S) == {<<"bad_access", r>> : r \in {q \in S : heap[q] # "live"}}

Init ==
    /\ Timing!Init
    /\ pc = [t \in Threads |-> IF t = "main" THEN "create_framegrab" ELSE "absent"]
    /\ masked = FALSE
    /\ arrived = {}
    /\ saRestart \in BOOLEAN
    /\ intr = [t \in Threads |-> FALSE]
    /\ mishaps = Mishaps
    /\ frames = 0
    /\ did_frame_tick = FALSE
    /\ writeoutQ = 0
    /\ joined = [t \in Workers |-> "no"]
    /\ heap = [r \in Memory |-> IF r = "camera" THEN "live" ELSE "none"]
    /\ initFailed = {}
    /\ faults = {}

-----------------------------------------------------------------------------
(* Starting: pthread_create, each thread's initialisation, the barrier.    *)

\* pthread_create reports a failure as a positive number, main tests for -1.
Create(t, here, next) ==
    /\ At("main", here)
    /\ \/ pc' = [pc EXCEPT !["main"] = next, ![t] = "init"] /\ UNCHANGED mishaps
       \/ Goto("main", next) /\ Happens("create")
    /\ UNCHANGED <<seqVars, mainVars, saRestart, intr, workVars, memVars>>

Initialised(t, r) ==
    /\ At(t, "init")
    /\ Goto(t, "barrier")
    /\ heap' = [heap EXCEPT ![r] = "live"]
    /\ UNCHANGED <<seqVars, mainVars, sigVars, workVars, initFailed, faults>>

\* What the failed initialisation of t leaves behind is freed as `left' says.
InitFails(t, left) ==
    /\ At(t, "init")
    /\ Happens("init")
    /\ Goto(t, "unbarrier")
    /\ heap' = left
    /\ initFailed' = initFailed \cup {t}
    /\ UNCHANGED <<seqVars, mainVars, saRestart, intr, workVars, faults>>

\* The camera is closed; wo_buffer was allocated and freed if streaming or focus failed.
FrameInit ==
    \/ Initialised("framegrab", "wo_buffer")
    \/ \E wo \in {"none", "freed"} :
           InitFails("framegrab", [heap EXCEPT !["camera"] = "freed", !["wo_buffer"] = wo])

\* The scan buffers allocated before the failing one are kept.
ProcessingInit ==
    \/ Initialised("processing", "scan_buffer")
    \/ InitFails("processing", [heap EXCEPT !["scan_buffer"] = "partial"])

\* deallocate_writeout, and the pointers stay
WriteoutInit ==
    \/ Initialised("writeout", "wo_buffers")
    \/ InitFails("writeout", [heap EXCEPT !["wo_buffers"] = "freed"])

BarrierArrive(t) ==
    /\ At(t, "barrier") \/ At(t, "unbarrier")
    /\ t \notin arrived
    /\ arrived' = arrived \cup {t}
    /\ UNCHANGED <<seqVars, pc, masked, joined, sigVars, workVars, memVars>>

AfterBarrier == [main |-> "settime", framegrab |-> "loop",
                 processing |-> "loop", writeout |-> "wait"]

\* Mutant: the barrier was initialised for three threads.
BarrierPassAtThree(t) ==
    /\ Cardinality(arrived) >= 3
    /\ t \in arrived
    /\ At(t, "barrier")
    /\ Goto(t, AfterBarrier[t])
    /\ UNCHANGED <<seqVars, mainVars, sigVars, workVars, memVars>>

BarrierPass(t) ==
    /\ arrived = Threads
    /\ At(t, "barrier")
    /\ Goto(t, AfterBarrier[t])
    /\ UNCHANGED <<seqVars, mainVars, sigVars, workVars, memVars>>

\* Mutant: the exit toggles the flag.
ErrorExitToggles(t) ==
    /\ running' = ~running
    /\ UNCHANGED <<timer, timer1_it, pending, hpc, sequence, seqReg, sem, gap>>
    /\ Goto(t, "exited")

\* error_exit: running = 0; return
ErrorExit(t) == Timing!Stop /\ Goto(t, "exited")

\* error_unbarrier_exit
UnbarrierExit(t) ==
    /\ arrived = Threads
    /\ At(t, "unbarrier")
    /\ ErrorExit(t)
    /\ UNCHANGED <<mainVars, sigVars, workVars, memVars>>

-----------------------------------------------------------------------------
(* Signals.                                                                *)

CanHost(t) ==
    /\ Alive
    /\ pc[t] \notin {"absent", "exited"}
    /\ Scheduled(t)

\* The signal arrives while t sleeps, or just before it would have.
MayInterrupt(t) ==
    \/ UNCHANGED intr
    \/ Blocked(t) /\ intr' = [intr EXCEPT ![t] = TRUE]

TimerExpire ==
    /\ Alive
    /\ Timing!TimerExpire
    /\ UNCHANGED <<pc, mainVars, sigVars, workVars, memVars>>

DeliverTick(t) ==
    /\ CanHost(t)
    /\ t = "main" => ~masked
    /\ Timing!Deliver(t)
    /\ IF Timing!Alone(t) THEN UNCHANGED mishaps ELSE Happens("overlap")
    /\ IF saRestart THEN UNCHANGED intr ELSE MayInterrupt(t)
    /\ UNCHANGED <<pc, mainVars, saRestart, workVars, memVars>>

HandlerStep(t) ==
    /\ hpc[t] # "out"
    /\ Alive
    /\ Scheduled(t)
    /\ Timing!Handler(t)
    /\ UNCHANGED <<pc, mainVars, sigVars, workVars, memVars>>

\* ctrl_c, or dump_logs for stop.sh, on any thread; their sa_flags are uninitialised too
StopSignal(t) ==
    /\ CanHost(t)
    /\ Happens("stop")
    /\ Timing!Stop
    /\ MayInterrupt(t)
    /\ UNCHANGED <<pc, mainVars, saRestart, workVars, memVars>>

\* sem_wait of worker t returns 0
SemWait(t, next) ==
    /\ At(t, "wait")
    /\ ~intr[t]
    /\ Timing!Take(t)
    /\ Goto(t, next)
    /\ UNCHANGED <<mainVars, sigVars, workVars, memVars>>

\* sem_wait, VIDIOC_DQBUF or mq_receive of worker t returns -1 with EINTR
Interrupted(t) ==
    /\ At(t, "wait") \/ At(t, "dequeue") \/ At(t, "receive")
    /\ intr[t]
    /\ intr' = [intr EXCEPT ![t] = FALSE]
    /\ ErrorExit(t)
    /\ UNCHANGED <<mainVars, saRestart, mishaps, workVars, memVars>>

\* while(running)
Loop(t, body) ==
    /\ At(t, "loop")
    /\ Goto(t, IF running THEN body ELSE "exited")
    /\ UNCHANGED <<seqVars, mainVars, sigVars, workVars, memVars>>

-----------------------------------------------------------------------------
(* frame(): one frame per release, into the scan buffers.                  *)

FrameLoop == Loop("framegrab", "wait")
FrameWait == SemWait("framegrab", "dequeue")

\* The camera has a frame; the first one starts the profile and is not counted.
FrameDequeue ==
    /\ At("framegrab", "dequeue")
    /\ ~intr["framegrab"]
    /\ frames' = frames + 1
    /\ IF frames' = ProfileIters + 1 THEN Timing!Stop ELSE UNCHANGED seqVars
    /\ Goto("framegrab", "copy")
    /\ UNCHANGED <<mainVars, sigVars, did_frame_tick, writeoutQ, memVars>>

\* COPY_BUFFER into the ring, then the buffer goes back to the driver.
FrameCopy ==
    /\ At("framegrab", "copy")
    /\ Goto("framegrab", "loop")
    /\ faults' = faults \cup Access({"scan_buffer"})
    /\ UNCHANGED <<seqVars, mainVars, sigVars, workVars, heap, initFailed>>

\* Mutant: the thread cleans up itself, as after a failed sem_wait.
FrameCameraFailsCleaning ==
    /\ At("framegrab", "dequeue")
    /\ Happens("camera")
    /\ heap' = Released(Owned["framegrab"])
    /\ ErrorExit("framegrab")
    /\ UNCHANGED <<mainVars, saRestart, intr, workVars, initFailed, faults>>

\* VIDIOC_DQBUF fails, or VIDIOC_QBUF does after the copy.
FrameCameraFails ==
    /\ \/ At("framegrab", "dequeue") /\ UNCHANGED faults
       \/ At("framegrab", "copy") /\ faults' = faults \cup Access({"scan_buffer"})
    /\ Happens("camera")
    /\ ErrorExit("framegrab")
    /\ UNCHANGED <<mainVars, saRestart, intr, workVars, heap, initFailed>>

-----------------------------------------------------------------------------
(* processing(): scans the ring until it finds one tick, and never again.  *)

\* Mutant: the thread frees the scan buffers itself when it leaves.
ProcessingLoopFrees ==
    /\ At("processing", "loop")
    /\ Goto("processing", IF running THEN "wait" ELSE "exited")
    /\ heap' = IF running THEN heap ELSE Released({"scan_buffer"})
    /\ UNCHANGED <<seqVars, mainVars, sigVars, workVars, initFailed, faults>>

ProcessingLoop == Loop("processing", "wait")
\* Mutant: the flag is reset at every release, the line commented out in the code.
ProcessingWaitResets == SemWait("processing", "scan")

ProcessingWait == SemWait("processing", IF did_frame_tick THEN "loop" ELSE "scan")

\* The inner loop leaves only by a tick, whatever happens to `running'.
ProcessingTick ==
    /\ At("processing", "scan")
    /\ did_frame_tick' = TRUE
    /\ Goto("processing", "enqueue")
    /\ UNCHANGED <<seqVars, mainVars, sigVars, frames, writeoutQ, memVars>>

\* The queue is empty (TypeOK: one message in all), so enqueue_P is not refused and does
\* not time out, and the error exit for -1 is not reached.
ProcessingEnqueue ==
    /\ At("processing", "enqueue")
    /\ writeoutQ' = writeoutQ + 1
    /\ Goto("processing", "loop")
    /\ UNCHANGED <<seqVars, mainVars, sigVars, frames, did_frame_tick, memVars>>

-----------------------------------------------------------------------------
(* writeout(): waits for one tick of the timer, then only for messages.    *)

WriteoutWait == SemWait("writeout", "loop")
WriteoutLoop == Loop("writeout", "receive")

WriteoutReceive ==
    /\ At("writeout", "receive")
    /\ ~intr["writeout"]
    /\ writeoutQ > 0
    /\ writeoutQ' = writeoutQ - 1
    /\ Goto("writeout", "transform")
    /\ UNCHANGED <<seqVars, mainVars, sigVars, frames, did_frame_tick, memVars>>

\* do_transformations reads the frame buffer and writes wo_buffer.
WriteoutTransform ==
    /\ At("writeout", "transform")
    /\ faults' = faults \cup Access({"wo_buffer", "wo_buffers"})
    /\ Goto("writeout", "loop")
    /\ UNCHANGED <<seqVars, mainVars, sigVars, workVars, heap, initFailed>>

-----------------------------------------------------------------------------
(* main, from the barrier to its end.                                      *)

MainArmTimer ==
    /\ At("main", "settime")
    /\ Timing!ArmTimer
    /\ Goto("main", "mask")
    /\ UNCHANGED <<mainVars, sigVars, workVars, memVars>>

\* Mutant: main forgets to mask the timer's signal.
MainMaskForgotten ==
    /\ At("main", "mask")
    /\ Goto("main", "teardown")
    /\ UNCHANGED <<seqVars, mainVars, sigVars, workVars, memVars>>

MainMask ==
    /\ At("main", "mask")
    /\ masked' = TRUE
    /\ Goto("main", "teardown")
    /\ UNCHANGED <<seqVars, arrived, joined, sigVars, workVars, memVars>>

\* sem_wait(&sem_teardown), whose result is not looked at
MainTeardown ==
    /\ At("main", "teardown")
    /\ \/ intr["main"] /\ UNCHANGED seqVars
       \/ ~intr["main"] /\ Timing!Take("teardown")
    /\ intr' = [intr EXCEPT !["main"] = FALSE]
    /\ Goto("main", "join_framegrab")
    /\ UNCHANGED <<mainVars, saRestart, mishaps, workVars, memVars>>

\* What no tick ends: the camera, the scan, and the wait for a message.
Stuck(t) ==
    \/ pc[t] \in {"dequeue", "scan"}
    \/ pc[t] = "receive" /\ writeoutQ = 0 /\ saRestart

\* pthread_timedjoin_np: t is gone, or five seconds have passed
Join(t, next) ==
    /\ At("main", JoinOf[t])
    /\ \/ pc[t] = "exited" /\ joined' = [joined EXCEPT ![t] = "ok"]
       \/ /\ pc[t] # "exited"
          /\ Patient => Stuck(t)
          /\ joined' = [joined EXCEPT ![t] = "timeout"]
    /\ Goto("main", next)
    /\ UNCHANGED <<seqVars, masked, arrived, sigVars, workVars, memVars>>

\* Only the resources of a thread that was joined are freed.
MainFree ==
    /\ At("main", "free")
    /\ LET S == UNION {Owned[t] : t \in {w \in Workers : joined[w] = "ok"}}
       IN  heap' = Released(S) /\ faults' = faults \cup FreedTwice(S)
    /\ Goto("main", "dump")
    /\ UNCHANGED <<seqVars, mainVars, sigVars, workVars, initFailed>>

\* memlog_dump writes three files; the process ends after it, with all its threads.
MainDump ==
    /\ At("main", "dump")
    /\ Goto("main", "exited")
    /\ UNCHANGED <<seqVars, mainVars, sigVars, workVars, memVars>>

MainJoins ==
    \/ Join("framegrab", "join_processing")
    \/ Join("processing", "join_writeout")
    \/ Join("writeout", "free")

MainCreates ==
    \/ Create("framegrab", "create_framegrab", "create_processing")
    \/ Create("processing", "create_processing", "create_writeout")
    \/ Create("writeout", "create_writeout", "barrier")

Main ==
    \/ MainCreates
    \/ BarrierArrive("main")
    \/ BarrierPass("main")
    \/ MainArmTimer
    \/ MainMask
    \/ MainTeardown
    \/ MainJoins
    \/ MainFree
    \/ MainDump

Starting(t) == BarrierArrive(t) \/ BarrierPass(t) \/ UnbarrierExit(t)

Framegrab ==
    \/ FrameInit
    \/ Starting("framegrab")
    \/ FrameLoop
    \/ FrameWait
    \/ Interrupted("framegrab")
    \/ FrameCopy

Camera == FrameDequeue \/ FrameCameraFails

Processing ==
    \/ ProcessingInit
    \/ Starting("processing")
    \/ ProcessingLoop
    \/ ProcessingWait
    \/ Interrupted("processing")
    \/ ProcessingEnqueue

Writeout ==
    \/ WriteoutInit
    \/ Starting("writeout")
    \/ WriteoutWait
    \/ WriteoutLoop
    \/ Interrupted("writeout")
    \/ WriteoutReceive
    \/ WriteoutTransform

\* The process is gone.
Terminated == ~Alive /\ UNCHANGED vars

Next ==
    \/ Main
    \/ Framegrab
    \/ Camera
    \/ Processing
    \/ ProcessingTick
    \/ Writeout
    \/ TimerExpire
    \/ \E t \in Threads : DeliverTick(t) \/ HandlerStep(t) \/ StopSignal(t)
    \/ Terminated

Spec == Init /\ [][Next]_vars

(* The timer fires, a queued tick is handled by some thread, main has the  *)
(* highest priority, and a worker gets the processor whenever those above  *)
(* it sleep often enough.  The camera owes nothing to anybody.             *)
Fairness ==
    /\ WF_vars(TimerExpire)
    /\ WF_vars(\E t \in Threads : DeliverTick(t))
    /\ WF_vars(\E t \in Threads : HandlerStep(t))
    /\ WF_vars(Main)
    /\ SF_vars(Framegrab)
    /\ SF_vars(Processing)
    /\ SF_vars(Writeout)

\* Processing finds the motion it spins for, so it does not starve writeout.
MotionComes == WF_vars(ProcessingTick)

FairSpec == Spec /\ Fairness /\ MotionComes

-----------------------------------------------------------------------------
(* Properties                                                              *)

Tearing == {"join_framegrab", "join_processing", "join_writeout", "free",
            "dump", "exited"}

LocationsOf == [
    main |-> {"create_framegrab", "create_processing", "create_writeout",
              "barrier", "settime", "mask", "teardown"} \cup Tearing,
    framegrab |-> {"absent", "init", "barrier", "unbarrier", "loop", "wait",
                   "dequeue", "copy", "exited"},
    processing |-> {"absent", "init", "barrier", "unbarrier", "loop", "wait",
                    "scan", "enqueue", "exited"},
    writeout |-> {"absent", "init", "barrier", "unbarrier", "wait", "loop",
                  "receive", "transform", "exited"}]

\* Every variable keeps its range; the writeout queue never holds a second message,
\* because processing never enqueues again after its first tick.
TypeOK ==
    /\ Timing!TypeOK
    /\ DOMAIN pc = Threads
    /\ \A t \in Threads : pc[t] \in LocationsOf[t]
    /\ masked \in BOOLEAN
    /\ arrived \subseteq Threads
    /\ saRestart \in BOOLEAN
    /\ intr \in [Threads -> BOOLEAN]
    /\ mishaps \in 0 .. Mishaps
    /\ frames \in 0 .. ProfileIters + 1
    /\ did_frame_tick \in BOOLEAN
    /\ writeoutQ \in 0 .. 1
    /\ joined \in [Workers -> {"no", "ok", "timeout"}]
    /\ heap \in [Memory -> {"none", "live", "partial", "freed"}]
    /\ initFailed \subseteq Workers
    /\ faults \subseteq Fault

\* main does not begin to tear down a program that still runs: neither the timer's
\* signal nor a stray post lets it fall through sem_wait(&sem_teardown), which is
\* what masking RT_SIGSEQUENCER in main is for.
TeardownOnlyWhenStopped == pc["main"] \in Tearing => ~running

\* Ticks start only when all four threads have finished their initialisation, failed
\* or not: no service is released before its buffers were set up.
NoTickBeforeInit ==
    timer # "idle" => \A t \in Threads : pc[t] \notin {"absent", "init", "barrier"}
                                       \/ t \in arrived

\* A thread touches memory that is not there only if it outlived the five seconds main
\* gave it, or another thread's initialisation failed and it was still let run.
BadAccessNeedsTimeout ==
    /\ <<"bad_access", "scan_buffer">> \in faults =>
           joined["framegrab"] = "timeout" \/ "processing" \in initFailed
    /\ <<"bad_access", "wo_buffer">> \in faults =>
           joined["writeout"] = "timeout" \/ "framegrab" \in initFailed
    /\ <<"bad_access", "wo_buffers">> \notin faults

\* Memory is freed twice only after its owner's own error path has freed it once: a
\* thread that initialised leaves everything to main.
DoubleFreeNeedsFailedInit ==
    /\ \A r \in {"wo_buffer", "camera"} :
           <<"double_free", r>> \in faults => "framegrab" \in initFailed
    /\ <<"double_free", "scan_buffer">> \notin faults
    /\ <<"double_free", "wo_buffers">> \in faults => "writeout" \in initFailed

\* The threads use the release handler's state as module Sequencer says the rest of
\* the program does; ReleaseOnSchedule then holds among the real threads.
RefinesSequencer == Timing!Spec

Deserted == \A t \in Workers : pc[t] = "exited"

\* Once the program is stopping main ends, unless every worker is already gone and
\* nobody is left to handle the tick that would post main's semaphore.
StopsUnlessDeserted == ~running ~> (~Alive \/ Deserted)

\* "unblock everyone": a stopping program ends.
StopEndsProgram == ~running ~> ~Alive

=============================================================================
