-------------------------- MODULE SynchronomeProofs --------------------------
(***************************************************************************)
(* What holds of the synchronome for every period, every number of         *)
(* profiled frames, every bound of the model, with or without priorities   *)
(* and whatever fails.                                                     *)
(***************************************************************************)
EXTENDS Synchronome, TLAPS

(* Refinement: what a step of a thread does to the release handler's state *)
(* is a step of module Sequencer, or nothing; only main arms the timer.    *)

WithoutArming ==
    \/ Timing!TimerExpire
    \/ \E t \in Threads : Timing!Deliver(t) \/ Timing!Handler(t)
    \/ \E s \in Timing!Semaphores : Timing!Take(s)
    \/ Timing!Stop
    \/ UNCHANGED seqVars

USE DEF WithoutArming

LEMMA MainSteps == Main => MainArmTimer \/ WithoutArming
  <1> SUFFICES ASSUME Main PROVE MainArmTimer \/ WithoutArming
    OBVIOUS
  <1>1. CASE MainCreates
    BY <1>1 DEF MainCreates, Create
  <1>2. CASE BarrierArrive("main") \/ BarrierPass("main")
    BY <1>2 DEF BarrierArrive, BarrierPass
  <1>3. CASE MainMask \/ MainJoins \/ MainFree \/ MainDump
    BY <1>3 DEF MainMask, MainJoins, Join, MainFree, MainDump
  <1>4. CASE MainTeardown
    <2>1. "teardown" \in Timing!Semaphores
      BY DEF Timing!Semaphores
    <2> QED BY <1>4, <2>1 DEF MainTeardown
  <1> QED BY <1>1, <1>2, <1>3, <1>4 DEF Main

LEMMA StartingSteps == ASSUME NEW t \in Threads, Starting(t) PROVE WithoutArming
  BY DEF Starting, BarrierArrive, BarrierPass, UnbarrierExit, ErrorExit

LEMMA WaitSteps ==
    ASSUME NEW t \in Workers, NEW next, SemWait(t, next) PROVE WithoutArming
  <1>1. t \in Timing!Semaphores
    BY DEF Workers, Timing!Semaphores
  <1> QED BY <1>1 DEF SemWait

LEMMA InterruptedSteps ==
    ASSUME NEW t \in Workers, Interrupted(t) PROVE WithoutArming
  BY DEF Interrupted, ErrorExit

LEMMA FramegrabSteps == Framegrab \/ Camera => WithoutArming
  <1> SUFFICES ASSUME Framegrab \/ Camera PROVE WithoutArming
    OBVIOUS
  <1>0. "framegrab" \in Workers /\ "framegrab" \in Threads
    BY DEF Workers, Threads
  <1>1. CASE FrameInit
    BY <1>1 DEF FrameInit, Initialised, InitFails
  <1>2. CASE Starting("framegrab")
    BY <1>0, <1>2, StartingSteps
  <1>3. CASE FrameLoop \/ FrameCopy
    BY <1>3 DEF FrameLoop, Loop, FrameCopy
  <1>4. CASE FrameWait
    BY <1>0, <1>4, WaitSteps DEF FrameWait
  <1>5. CASE Interrupted("framegrab")
    BY <1>0, <1>5, InterruptedSteps
  <1>6. CASE FrameDequeue
    BY <1>6 DEF FrameDequeue
  <1>7. CASE FrameCameraFails
    BY <1>7 DEF FrameCameraFails, ErrorExit
  <1> QED BY <1>1, <1>2, <1>3, <1>4, <1>5, <1>6, <1>7 DEF Framegrab, Camera

LEMMA ProcessingSteps == Processing \/ ProcessingTick => WithoutArming
  <1> SUFFICES ASSUME Processing \/ ProcessingTick PROVE WithoutArming
    OBVIOUS
  <1>0. "processing" \in Workers /\ "processing" \in Threads
    BY DEF Workers, Threads
  <1>1. CASE ProcessingInit
    BY <1>1 DEF ProcessingInit, Initialised, InitFails
  <1>2. CASE Starting("processing")
    BY <1>0, <1>2, StartingSteps
  <1>3. CASE ProcessingLoop \/ ProcessingEnqueue \/ ProcessingTick
    BY <1>3 DEF ProcessingLoop, Loop, ProcessingEnqueue, ProcessingTick
  <1>4. CASE ProcessingWait
    BY <1>0, <1>4, WaitSteps DEF ProcessingWait
  <1>5. CASE Interrupted("processing")
    BY <1>0, <1>5, InterruptedSteps
  <1> QED BY <1>1, <1>2, <1>3, <1>4, <1>5 DEF Processing

LEMMA WriteoutSteps == Writeout => WithoutArming
  <1> SUFFICES ASSUME Writeout PROVE WithoutArming
    OBVIOUS
  <1>0. "writeout" \in Workers /\ "writeout" \in Threads
    BY DEF Workers, Threads
  <1>1. CASE WriteoutInit
    BY <1>1 DEF WriteoutInit, Initialised, InitFails
  <1>2. CASE Starting("writeout")
    BY <1>0, <1>2, StartingSteps
  <1>3. CASE WriteoutLoop \/ WriteoutReceive \/ WriteoutTransform
    BY <1>3 DEF WriteoutLoop, Loop, WriteoutReceive, WriteoutTransform
  <1>4. CASE WriteoutWait
    BY <1>0, <1>4, WaitSteps DEF WriteoutWait
  <1>5. CASE Interrupted("writeout")
    BY <1>0, <1>5, InterruptedSteps
  <1> QED BY <1>1, <1>2, <1>3, <1>4, <1>5 DEF Writeout

LEMMA StepKinds == [Next]_vars => MainArmTimer \/ WithoutArming
  <1> SUFFICES ASSUME [Next]_vars PROVE MainArmTimer \/ WithoutArming
    OBVIOUS
  <1>1. CASE TimerExpire
    BY <1>1 DEF TimerExpire
  <1>2. ASSUME NEW t \in Threads, DeliverTick(t) \/ HandlerStep(t) PROVE WithoutArming
    BY <1>2 DEF DeliverTick, HandlerStep
  <1>3. ASSUME NEW t \in Threads, StopSignal(t) PROVE WithoutArming
    BY <1>3 DEF StopSignal
  <1>4. CASE Terminated \/ UNCHANGED vars
    BY <1>4 DEF Terminated, vars
  <1> HIDE DEF WithoutArming
  <1> QED BY <1>1, <1>2, <1>3, <1>4, MainSteps, FramegrabSteps, ProcessingSteps,
             WriteoutSteps
          DEF Next

LEMMA SequencerStep == [Next]_vars => [Timing!Next]_seqVars
  BY StepKinds DEF MainArmTimer, Timing!Next

HIDE DEF WithoutArming

\* The whole program implements module Sequencer: with its real threads, in any order,
\* nothing happens to the release handler's state but what Sequencer allows.
THEOREM ImplementsSequencer == Spec => RefinesSequencer
  <1>1. Init => Timing!Init
    BY DEF Init
  <1>2. [Next]_vars => [Timing!Next]_(Timing!seqVars)
    BY SequencerStep DEF seqVars, Timing!seqVars
  <1> QED BY <1>1, <1>2, PTL DEF Spec, RefinesSequencer, Timing!Spec

-----------------------------------------------------------------------------
(* What module SequencerProofs shows of every program that implements      *)
(* module Sequencer.                                                       *)

Schedule == INSTANCE SequencerProofs WITH Hosts <- Threads

LEMMA HandlerAssumptions == Schedule!PeriodAssumption /\ Schedule!BoundAssumption
  BY SequencerAssumption
     DEF Timing!PeriodAssumption, Schedule!PeriodAssumption, Timing!BoundAssumption,
         Schedule!BoundAssumption

\* Both instances are the same formulas.
LEMMA SameNext == Timing!Next <=> Schedule!Next
  BY DEF Timing!TimerExpire, Schedule!TimerExpire, Timing!Deliver, Schedule!Deliver,
         Timing!TestRunning, Schedule!TestRunning, Timing!Release, Schedule!Release,
         Timing!ReleaseFrame, Schedule!ReleaseFrame, Timing!ReleaseProcessing,
         Schedule!ReleaseProcessing, Timing!LoadSequence, Schedule!LoadSequence,
         Timing!StoreSequence, Schedule!StoreSequence, Timing!WrapSequence,
         Schedule!WrapSequence, Timing!DisarmTimer, Schedule!DisarmTimer,
         Timing!UnblockEveryone, Schedule!UnblockEveryone, Timing!Unblock,
         Schedule!Unblock, Timing!Unblocking, Schedule!Unblocking, Timing!Alone,
         Schedule!Alone, Timing!Past, Schedule!Past, Timing!Unknown, Schedule!Unknown,
         Timing!Handler, Schedule!Handler, Timing!ArmTimer, Schedule!ArmTimer, Timing!Take,
         Schedule!Take, Timing!Stop, Schedule!Stop, Timing!Post, Schedule!Post,
         Timing!Settime, Schedule!Settime, Timing!Goto, Schedule!Goto,
         Timing!Semaphores, Schedule!Semaphores, Timing!Services, Schedule!Services,
         Timing!Period, Schedule!Period, Timing!Tick, Schedule!Tick, Timing!Next,
         Schedule!Next

LEMMA SameInit == Timing!Init <=> Schedule!Init
  BY DEF Timing!Init, Schedule!Init, Timing!Tick, Schedule!Tick, Timing!Semaphores,
         Schedule!Semaphores, Timing!Period, Schedule!Period, Timing!Services,
         Schedule!Services

LEMMA SameType == Timing!TypeOK <=> Schedule!TypeOK
  BY DEF Timing!TypeOK, Schedule!TypeOK, Timing!Tick, Schedule!Tick, Timing!HandlerPC,
         Schedule!HandlerPC, Timing!Semaphores, Schedule!Semaphores, Timing!Services,
         Schedule!Services, Timing!Period, Schedule!Period, Timing!Unknown, Schedule!Unknown

LEMMA SameTypeNext == Timing!TypeOK' <=> Schedule!TypeOK'
  BY DEF Timing!TypeOK, Schedule!TypeOK, Timing!Tick, Schedule!Tick, Timing!HandlerPC,
         Schedule!HandlerPC, Timing!Semaphores, Schedule!Semaphores, Timing!Services,
         Schedule!Services, Timing!Period, Schedule!Period, Timing!Unknown, Schedule!Unknown

LEMMA SameSchedule == Timing!ReleaseOnSchedule <=> Schedule!ReleaseOnSchedule
  BY DEF Timing!ReleaseOnSchedule, Schedule!ReleaseOnSchedule, Timing!Services,
         Schedule!Services, Timing!Period, Schedule!Period, Timing!Unknown, Schedule!Unknown

LEMMA HandlerTypeInit == Init => Timing!TypeOK
  BY HandlerAssumptions, SameInit, SameType, Schedule!TypeInit DEF Init

LEMMA HandlerTypeStep == Timing!TypeOK /\ [Next]_vars => Timing!TypeOK'
  <1>1. [Timing!Next]_seqVars => [Schedule!Next]_(Schedule!seqVars)
    BY SameNext DEF seqVars, Schedule!seqVars
  <1>2. Schedule!TypeOK /\ [Schedule!Next]_(Schedule!seqVars) => Schedule!TypeOK'
    BY HandlerAssumptions, Schedule!TypeStep
  <1> QED BY <1>1, <1>2, SequencerStep, SameType, SameTypeNext

\* Every service of the synchronome is released exactly on its period, on whichever of
\* its threads the handler runs, from each release by a handler that is alone until a
\* tick is handled inside another.
THEOREM ReleasesOnSchedule == Spec => []Timing!ReleaseOnSchedule
  <1>1. Schedule!Spec => []Schedule!ReleaseOnSchedule
    BY HandlerAssumptions, Schedule!OnSchedule
  <1>2. Spec => Schedule!Spec
    <2>1. Init => Schedule!Init
      BY SameInit DEF Init
    <2>2. [Next]_vars => [Schedule!Next]_(Schedule!seqVars)
      BY SameNext, SequencerStep DEF seqVars, Schedule!seqVars
    <2> QED BY <2>1, <2>2, PTL DEF Spec, Schedule!Spec
  <1> QED BY <1>1, <1>2, SameSchedule, PTL

-----------------------------------------------------------------------------
(* Types.  Two counters keep their range only because of where the threads *)
(* are: framegrab counts no frame after it has stopped the program, and    *)
(* processing sends no message after its first.                            *)

Places == DOMAIN pc = Threads /\ \A t \in Threads : pc[t] \in LocationsOf[t]

CountsEnd ==
    /\ frames = ProfileIters + 1 => ~running /\ pc["framegrab"] \notin {"wait", "dequeue"}
    /\ pc["processing"] = "scan" => ~did_frame_tick
    /\ pc["processing"] = "enqueue" => did_frame_tick /\ writeoutQ = 0
    /\ ~did_frame_tick => writeoutQ = 0

TypeInv == TypeOK /\ CountsEnd

LEMMA FourThreads == Threads = {"main", "framegrab", "processing", "writeout"}
  BY DEF Threads, Workers

LEMMA Moved ==
    ASSUME Places, NEW t \in Threads, NEW l \in LocationsOf[t], Goto(t, l)
    PROVE  /\ Places'
           /\ pc'[t] = l
           /\ \A u \in Threads \ {t} : pc'[u] = pc[u]
  BY DEF Places, Goto

LEMMA CommonPlaces ==
    \A t \in Threads : AfterBarrier[t] \in LocationsOf[t] /\ "exited" \in LocationsOf[t]
  BY FourThreads DEF AfterBarrier, LocationsOf, Tearing

LEMMA WorkerPlaces ==
    \A t \in Workers : {"loop", "wait", "barrier", "unbarrier"} \subseteq LocationsOf[t]
  BY DEF Workers, LocationsOf

\* Nobody sets `running' again.
LEMMA RunningFalls == [Next]_vars => (running' => running)
  <1>1. [Timing!Next]_seqVars => (running' => running)
    BY DEF seqVars, Timing!Next, Timing!TimerExpire, Timing!Deliver, Timing!Handler,
           Timing!TestRunning, Timing!ReleaseFrame, Timing!ReleaseProcessing,
           Timing!Release, Timing!LoadSequence, Timing!StoreSequence,
           Timing!WrapSequence, Timing!DisarmTimer, Timing!UnblockEveryone,
           Timing!Unblock, Timing!ArmTimer, Timing!Take, Timing!Stop
  <1> QED BY <1>1, SequencerStep

\* The variables of TypeOK but those of the handler and pc.
RestOK ==
    /\ masked \in BOOLEAN
    /\ arrived \subseteq Threads
    /\ saRestart \in BOOLEAN
    /\ intr \in [Threads -> BOOLEAN]
    /\ mishaps \in 0 .. Mishaps
    /\ frames \in 0 .. ProfileIters + 1
    /\ did_frame_tick \in BOOLEAN
    /\ writeoutQ \in 0 .. 1
    /\ joined \in [Workers -> {"no", "ok", "timeout"}]
    /\ heap \in [Memory -> {"none", "live", "partial", "freed"}]
    /\ initFailed \subseteq Workers
    /\ faults \subseteq Fault

LEMMA TypeSplit == TypeOK <=> Timing!TypeOK /\ Places /\ RestOK
  BY DEF TypeOK, Places, RestOK

LEMMA TypeSplitNext == TypeOK' <=> Timing!TypeOK' /\ Places' /\ RestOK'
  BY DEF TypeOK, Places, RestOK

LEMMA TypeStart == Init => TypeInv
  <1> SUFFICES ASSUME Init PROVE TypeInv
    OBVIOUS
  <1>1. Timing!TypeOK
    BY HandlerTypeInit
  <1>2. Places
    BY FourThreads DEF Init, Places, LocationsOf, Tearing
  <1>3. frames \in 0 .. ProfileIters + 1 /\ mishaps \in 0 .. Mishaps
    BY EnvironmentAssumption DEF Init
  <1>4. heap \in [Memory -> {"none", "live", "partial", "freed"}]
    BY DEF Init
  <1>5. joined \in [Workers -> {"no", "ok", "timeout"}]
    BY DEF Init
  <1>6. CountsEnd
    <2>1. frames = 0 /\ 0 # ProfileIters + 1 /\ writeoutQ = 0
      BY EnvironmentAssumption DEF Init
    <2>2. pc["processing"] = "absent"
      BY FourThreads DEF Init
    <2> QED BY <2>1, <2>2 DEF CountsEnd
  <1>7. RestOK
    <2>1. masked \in BOOLEAN /\ saRestart \in BOOLEAN /\ did_frame_tick \in BOOLEAN
      BY DEF Init
    <2>2. intr \in [Threads -> BOOLEAN]
      BY DEF Init
    <2>3. /\ arrived \subseteq Threads /\ initFailed \subseteq Workers
          /\ faults \subseteq Fault /\ writeoutQ \in 0 .. 1
      BY DEF Init
    <2> QED BY <1>3, <1>4, <1>5, <2>1, <2>2, <2>3 DEF RestOK
  <1> QED BY <1>1, <1>2, <1>6, <1>7, TypeSplit DEF TypeInv

LEMMA HappensType ==
    ASSUME mishaps \in 0 .. Mishaps, NEW k, Happens(k) PROVE mishaps' \in 0 .. Mishaps
  BY EnvironmentAssumption DEF Happens

LEMMA MayInterruptType ==
    ASSUME intr \in [Threads -> BOOLEAN], NEW t \in Threads, MayInterrupt(t)
    PROVE  intr' \in [Threads -> BOOLEAN]
  BY DEF MayInterrupt

LEMMA MemoryTypes ==
    /\ \A S \in SUBSET Memory : Access(S) \subseteq Fault /\ FreedTwice(S) \subseteq Fault
    /\ heap \in [Memory -> {"none", "live", "partial", "freed"}] =>
           \A S \in SUBSET Memory :
               Released(S) \in [Memory -> {"none", "live", "partial", "freed"}]
    /\ \A t \in Workers : Owned[t] \subseteq Memory
  <1>1. \A S \in SUBSET Memory : Access(S) \subseteq Fault /\ FreedTwice(S) \subseteq Fault
    BY DEF Access, FreedTwice, Fault
  <1>2. ASSUME heap \in [Memory -> {"none", "live", "partial", "freed"}],
               NEW S \in SUBSET Memory
        PROVE  Released(S) \in [Memory -> {"none", "live", "partial", "freed"}]
    BY <1>2 DEF Released
  <1>3. \A t \in Workers : Owned[t] \subseteq Memory
    BY DEF Workers, Owned, Memory
  <1> QED BY <1>1, <1>2, <1>3

(* Each group of steps keeps Places, RestOK and CountsEnd.                 *)
StepInv == Places /\ RestOK /\ CountsEnd

LEMMA MainTypes ==
    ASSUME StepInv, Main, running' => running PROVE StepInv'
  <1> USE DEF StepInv
  <1>0. /\ "main" \in Threads /\ Threads \ {"main"} = Workers
        /\ "framegrab" \in Threads /\ "processing" \in Threads
    BY FourThreads DEF Workers
  <1>1. CASE MainCreates
    <2>1. ASSUME NEW t \in Workers, NEW here, NEW next \in LocationsOf["main"],
                 Create(t, here, next)
          PROVE  StepInv'
      <3>1. mishaps' \in 0 .. Mishaps
        BY <2>1, HappensType DEF Create, RestOK
      <3>2. RestOK'
        BY <2>1, <3>1 DEF Create, RestOK, mainVars, workVars, memVars
      <3>3. /\ DOMAIN pc' = Threads
            /\ pc'["main"] = next
            /\ \A u \in Workers : pc'[u] = pc[u] \/ pc'[u] = "init"
        BY <1>0, <2>1 DEF Create, Goto, Places
      <3>4. \A u \in Workers : "init" \in LocationsOf[u]
        BY DEF Workers, LocationsOf
      <3>5. Places'
        BY <1>0, <3>3, <3>4 DEF Places
      <3>6. CountsEnd'
        BY <2>1, <3>3 DEF CountsEnd, Create, workVars, seqVars, Workers
      <3> QED BY <3>2, <3>5, <3>6
    <2>2. {"create_processing", "create_writeout", "barrier"} \subseteq LocationsOf["main"]
      BY DEF LocationsOf
    <2> QED BY <1>1, <2>1, <2>2 DEF MainCreates, Workers
  <1>2. ASSUME NEW l \in LocationsOf["main"], Goto("main", l), RestOK',
               UNCHANGED workVars
        PROVE  StepInv'
    <2>1. /\ Places'
          /\ pc'["framegrab"] = pc["framegrab"] /\ pc'["processing"] = pc["processing"]
      BY <1>0, <1>2, Moved
    <2> QED BY <1>2, <2>1 DEF CountsEnd, workVars
  <1>3. CASE BarrierArrive("main")
    BY <1>0, <1>3 DEF BarrierArrive, Places, RestOK, CountsEnd, seqVars, sigVars, workVars,
                      memVars
  <1>4. CASE BarrierPass("main")
    <2>1. RestOK' /\ UNCHANGED workVars
      BY <1>4 DEF BarrierPass, RestOK, mainVars, sigVars, workVars, memVars
    <2> QED BY <1>0, <1>2, <1>4, <2>1, CommonPlaces DEF BarrierPass
  <1>5. CASE MainArmTimer \/ MainMask
    <2>1. RestOK' /\ UNCHANGED workVars
      BY <1>5 DEF MainArmTimer, MainMask, RestOK, mainVars, sigVars, workVars, memVars
    <2>2. {"mask", "teardown"} \subseteq LocationsOf["main"]
      BY DEF LocationsOf
    <2> QED BY <1>2, <1>5, <2>1, <2>2 DEF MainArmTimer, MainMask
  <1>6. CASE MainTeardown
    <2>1. RestOK' /\ UNCHANGED workVars
      BY <1>6 DEF MainTeardown, RestOK, mainVars, workVars, memVars
    <2>2. "join_framegrab" \in LocationsOf["main"]
      BY DEF LocationsOf, Tearing
    <2> QED BY <1>2, <1>6, <2>1, <2>2 DEF MainTeardown
  <1>7. CASE MainJoins
    <2>1. ASSUME NEW t \in Workers, NEW next \in LocationsOf["main"], Join(t, next)
          PROVE  StepInv'
      <3>1. joined' \in [Workers -> {"no", "ok", "timeout"}]
        BY <2>1 DEF Join, RestOK
      <3>2. RestOK' /\ UNCHANGED workVars
        BY <2>1, <3>1 DEF Join, RestOK, sigVars, workVars, memVars
      <3> QED BY <1>2, <2>1, <3>2 DEF Join
    <2>2. {"join_processing", "join_writeout", "free"} \subseteq LocationsOf["main"]
      BY DEF LocationsOf, Tearing
    <2> QED BY <1>7, <2>1, <2>2 DEF MainJoins, Workers
  <1>8. CASE MainFree
    <2> DEFINE S == UNION {Owned[t] : t \in {w \in Workers : joined[w] = "ok"}}
    <2>1. S \in SUBSET Memory
      BY MemoryTypes
    <2>2. heap' = Released(S) /\ faults' = faults \cup FreedTwice(S)
      BY <1>8 DEF MainFree
    <2> HIDE DEF S
    <2>3. RestOK' /\ UNCHANGED workVars
      BY <1>8, <2>1, <2>2, MemoryTypes DEF MainFree, RestOK, mainVars, sigVars, workVars
    <2>4. "dump" \in LocationsOf["main"]
      BY DEF LocationsOf, Tearing
    <2> QED BY <1>2, <1>8, <2>3, <2>4 DEF MainFree
  <1>9. CASE MainDump
    <2>1. RestOK' /\ UNCHANGED workVars
      BY <1>9 DEF MainDump, RestOK, mainVars, sigVars, workVars, memVars
    <2> QED BY <1>0, <1>2, <1>9, <2>1, CommonPlaces DEF MainDump
  <1> QED BY <1>1, <1>3, <1>4, <1>5, <1>6, <1>7, <1>8, <1>9 DEF Main

\* A worker in its initialisation, at the barrier or on its way out.
LEMMA CommonTypes ==
    ASSUME StepInv, running' => running, NEW t \in Workers,
           \/ \E r \in Memory : Initialised(t, r)
           \/ Starting(t)
           \/ Interrupted(t)
    PROVE  StepInv'
  <1> USE DEF StepInv
  <1>0. t \in Threads /\ "exited" \in LocationsOf[t] /\ AfterBarrier[t] \in LocationsOf[t]
    BY CommonPlaces DEF Threads
  <1>1. ASSUME NEW l \in LocationsOf[t], Goto(t, l), RestOK', UNCHANGED workVars,
               l \notin {"dequeue", "scan", "enqueue"},
               l = "wait" => t # "framegrab"
        PROVE  StepInv'
    <2>1. Places' /\ \A u \in Threads : pc'[u] = pc[u] \/ (u = t /\ pc'[u] = l)
      BY <1>0, <1>1, Moved
    <2>2. "framegrab" \in Threads /\ "processing" \in Threads
      BY FourThreads
    <2> QED BY <1>1, <2>1, <2>2 DEF CountsEnd, workVars
  <1>2. ASSUME NEW r \in Memory, Initialised(t, r) PROVE StepInv'
    <2>1. RestOK' /\ UNCHANGED workVars
      BY <1>2 DEF Initialised, RestOK, mainVars, sigVars, workVars
    <2> QED BY <1>1, <1>2, <2>1, WorkerPlaces DEF Initialised
  <1>3. CASE BarrierArrive(t)
    BY <1>0, <1>3 DEF BarrierArrive, Places, RestOK, CountsEnd, seqVars, sigVars, workVars,
                      memVars
  <1>4. CASE BarrierPass(t)
    <2>1. RestOK' /\ UNCHANGED workVars
      BY <1>4 DEF BarrierPass, RestOK, mainVars, sigVars, workVars, memVars
    <2>2. /\ AfterBarrier[t] \notin {"dequeue", "scan", "enqueue"}
          /\ AfterBarrier[t] = "wait" => t # "framegrab"
      BY DEF AfterBarrier, Workers
    <2> QED BY <1>0, <1>1, <1>4, <2>1, <2>2 DEF BarrierPass
  <1>5. CASE UnbarrierExit(t) \/ Interrupted(t)
    <2>1. RestOK' /\ UNCHANGED workVars
      BY <1>5 DEF UnbarrierExit, Interrupted, RestOK, mainVars, sigVars, workVars, memVars
    <2>2. Goto(t, "exited")
      BY <1>5 DEF UnbarrierExit, Interrupted, ErrorExit
    <2> QED BY <1>0, <1>1, <2>1, <2>2
  <1> QED BY <1>2, <1>3, <1>4, <1>5 DEF Starting

LEMMA InitFailsTypes ==
    ASSUME StepInv, running' => running, NEW t \in Workers,
           NEW left \in [Memory -> {"none", "live", "partial", "freed"}],
           InitFails(t, left)
    PROVE  StepInv'
  <1> USE DEF StepInv
  <1>1. mishaps' \in 0 .. Mishaps
    BY HappensType DEF InitFails, RestOK
  <1>2. RestOK' /\ UNCHANGED workVars
    BY <1>1 DEF InitFails, RestOK, mainVars, workVars
  <1>3. /\ t \in Threads /\ "framegrab" \in Threads /\ "processing" \in Threads
        /\ "unbarrier" \in LocationsOf[t]
    BY FourThreads, WorkerPlaces DEF Threads
  <1>4. Places' /\ \A u \in Threads : pc'[u] = pc[u] \/ pc'[u] = "unbarrier"
    BY <1>3, Moved DEF InitFails
  <1>5. CountsEnd'
    BY <1>2, <1>3, <1>4 DEF CountsEnd, workVars
  <1> QED BY <1>2, <1>4, <1>5

LEMMA FramegrabTypes ==
    ASSUME StepInv, running' \in BOOLEAN, running' => running, Framegrab \/ Camera
    PROVE  StepInv'
  <1> USE DEF StepInv
  <1>0. /\ "framegrab" \in Workers /\ "framegrab" \in Threads /\ "processing" \in Threads
        /\ {"copy", "loop", "wait", "dequeue", "exited"} \subseteq LocationsOf["framegrab"]
    BY FourThreads DEF Workers, LocationsOf
  <1>1. CASE FrameInit
    <2>1. "wo_buffer" \in Memory
      BY DEF Memory
    <2>2. \A wo \in {"none", "freed"} :
              [heap EXCEPT !["camera"] = "freed", !["wo_buffer"] = wo]
                  \in [Memory -> {"none", "live", "partial", "freed"}]
      BY DEF RestOK
    <2> QED BY <1>0, <1>1, <2>1, <2>2, CommonTypes, InitFailsTypes DEF FrameInit
  <1>2. CASE Starting("framegrab") \/ Interrupted("framegrab")
    BY <1>0, <1>2, CommonTypes
  <1>3. ASSUME NEW l \in {"copy", "loop", "wait", "dequeue", "exited"},
               Goto("framegrab", l), RestOK',
               UNCHANGED <<did_frame_tick, writeoutQ>>,
               frames' = ProfileIters + 1 => ~running' /\ l \notin {"wait", "dequeue"}
        PROVE  StepInv'
    <2>1. Places' /\ pc'["framegrab"] = l /\ pc'["processing"] = pc["processing"]
      BY <1>0, <1>3, Moved
    <2> QED BY <1>3, <2>1 DEF CountsEnd
  <1>4. CASE FrameLoop
    <2>1. RestOK' /\ UNCHANGED workVars /\ running' = running
      BY <1>4 DEF FrameLoop, Loop, RestOK, seqVars, mainVars, sigVars, workVars, memVars
    <2>2. Goto("framegrab", IF running THEN "wait" ELSE "exited")
      BY <1>4 DEF FrameLoop, Loop
    <2> QED BY <1>3, <2>1, <2>2 DEF CountsEnd, workVars
  <1>5. CASE FrameWait
    <2>1. RestOK' /\ UNCHANGED workVars
      BY <1>5 DEF FrameWait, SemWait, RestOK, mainVars, sigVars, workVars, memVars
    <2>2. Goto("framegrab", "dequeue") /\ pc["framegrab"] = "wait"
      BY <1>5 DEF FrameWait, SemWait, At
    <2> QED BY <1>3, <2>1, <2>2 DEF CountsEnd, workVars
  <1>6. CASE FrameCopy
    <2>1. Access({"scan_buffer"}) \subseteq Fault
      BY MemoryTypes DEF Memory
    <2>2. RestOK' /\ UNCHANGED workVars /\ running' = running
      BY <1>6, <2>1 DEF FrameCopy, RestOK, seqVars, mainVars, sigVars, workVars
    <2> QED BY <1>3, <1>6, <2>2 DEF FrameCopy, CountsEnd, workVars
  <1>7. CASE FrameDequeue
    <2>1. frames # ProfileIters + 1 /\ frames \in 0 .. ProfileIters + 1
      BY <1>7 DEF FrameDequeue, At, CountsEnd, RestOK
    <2>2. frames' = frames + 1 /\ frames' \in 0 .. ProfileIters + 1
      BY <1>7, <2>1, EnvironmentAssumption DEF FrameDequeue
    <2>3. RestOK' /\ UNCHANGED <<did_frame_tick, writeoutQ>>
      BY <1>7, <2>2 DEF FrameDequeue, RestOK, mainVars, sigVars, memVars
    <2>4. frames' = ProfileIters + 1 => ~running'
      BY <1>7 DEF FrameDequeue, Timing!Stop
    <2> QED BY <1>3, <1>7, <2>3, <2>4 DEF FrameDequeue
  <1>8. CASE FrameCameraFails
    <2>1. Access({"scan_buffer"}) \subseteq Fault
      BY MemoryTypes DEF Memory
    <2>2. faults' \subseteq Fault
      BY <1>8, <2>1 DEF FrameCameraFails, RestOK
    <2>3. mishaps' \in 0 .. Mishaps
      BY <1>8, HappensType DEF FrameCameraFails, RestOK
    <2>4. RestOK' /\ UNCHANGED workVars
      BY <1>8, <2>2, <2>3 DEF FrameCameraFails, RestOK, mainVars, workVars
    <2>5. ~running' /\ Goto("framegrab", "exited")
      BY <1>8 DEF FrameCameraFails, ErrorExit, Timing!Stop
    <2> QED BY <1>3, <2>4, <2>5 DEF workVars
  <1> QED BY <1>1, <1>2, <1>4, <1>5, <1>6, <1>7, <1>8 DEF Framegrab, Camera

LEMMA ProcessingTypes ==
    ASSUME StepInv, running' => running, Processing \/ ProcessingTick PROVE StepInv'
  <1> USE DEF StepInv
  <1>0. /\ "processing" \in Workers /\ "processing" \in Threads /\ "framegrab" \in Threads
        /\ {"loop", "wait", "scan", "enqueue", "exited"} \subseteq LocationsOf["processing"]
    BY FourThreads DEF Workers, LocationsOf
  <1>1. CASE ProcessingInit
    <2>1. "scan_buffer" \in Memory
      BY DEF Memory
    <2>2. [heap EXCEPT !["scan_buffer"] = "partial"]
              \in [Memory -> {"none", "live", "partial", "freed"}]
      BY DEF RestOK
    <2> QED BY <1>0, <1>1, <2>1, <2>2, CommonTypes, InitFailsTypes DEF ProcessingInit
  <1>2. CASE Starting("processing") \/ Interrupted("processing")
    BY <1>0, <1>2, CommonTypes
  <1>3. ASSUME NEW l \in {"loop", "wait", "scan", "enqueue", "exited"},
               Goto("processing", l), RestOK', UNCHANGED frames
        PROVE  /\ Places'
               /\ pc'["processing"] = l
               /\ frames' = ProfileIters + 1 =>
                      ~running' /\ pc'["framegrab"] \notin {"wait", "dequeue"}
    <2>1. Places' /\ pc'["processing"] = l /\ pc'["framegrab"] = pc["framegrab"]
      BY <1>0, <1>3, Moved
    <2> QED BY <1>3, <2>1 DEF CountsEnd
  <1>4. CASE ProcessingLoop
    <2>1. RestOK' /\ UNCHANGED workVars
      BY <1>4 DEF ProcessingLoop, Loop, RestOK, mainVars, sigVars, workVars, memVars
    <2>2. Goto("processing", IF running THEN "wait" ELSE "exited")
      BY <1>4 DEF ProcessingLoop, Loop
    <2> QED BY <1>3, <2>1, <2>2 DEF CountsEnd, workVars
  <1>5. CASE ProcessingWait
    <2>1. RestOK' /\ UNCHANGED workVars
      BY <1>5 DEF ProcessingWait, SemWait, RestOK, mainVars, sigVars, workVars, memVars
    <2>2. Goto("processing", IF did_frame_tick THEN "loop" ELSE "scan")
      BY <1>5 DEF ProcessingWait, SemWait
    <2> QED BY <1>3, <2>1, <2>2 DEF CountsEnd, workVars
  <1>6. CASE ProcessingTick
    <2>1. RestOK' /\ UNCHANGED <<frames, writeoutQ>> /\ did_frame_tick' = TRUE
      BY <1>6 DEF ProcessingTick, RestOK, mainVars, sigVars, memVars
    <2>2. Goto("processing", "enqueue") /\ pc["processing"] = "scan"
      BY <1>6 DEF ProcessingTick, At
    <2> QED BY <1>3, <2>1, <2>2 DEF CountsEnd
  <1>7. CASE ProcessingEnqueue
    <2>1. pc["processing"] = "enqueue" /\ writeoutQ = 0 /\ did_frame_tick
      BY <1>7 DEF ProcessingEnqueue, At, CountsEnd
    <2>2. writeoutQ' = 1
      BY <1>7, <2>1 DEF ProcessingEnqueue
    <2>3. RestOK' /\ UNCHANGED <<frames, did_frame_tick>>
      BY <1>7, <2>2 DEF ProcessingEnqueue, RestOK, mainVars, sigVars, memVars
    <2>4. Goto("processing", "loop")
      BY <1>7 DEF ProcessingEnqueue
    <2> QED BY <1>3, <2>1, <2>3, <2>4 DEF CountsEnd
  <1> QED BY <1>1, <1>2, <1>4, <1>5, <1>6, <1>7 DEF Processing

LEMMA WriteoutTypes == ASSUME StepInv, running' => running, Writeout PROVE StepInv'
  <1> USE DEF StepInv
  <1>0. /\ "writeout" \in Workers /\ "writeout" \in Threads
        /\ "processing" \in Threads /\ "framegrab" \in Threads
        /\ {"loop", "receive", "transform", "exited"} \subseteq LocationsOf["writeout"]
    BY FourThreads DEF Workers, LocationsOf
  <1>1. CASE WriteoutInit
    <2>1. "wo_buffers" \in Memory
      BY DEF Memory
    <2>2. [heap EXCEPT !["wo_buffers"] = "freed"]
              \in [Memory -> {"none", "live", "partial", "freed"}]
      BY DEF RestOK
    <2> QED BY <1>0, <1>1, <2>1, <2>2, CommonTypes, InitFailsTypes DEF WriteoutInit
  <1>2. CASE Starting("writeout") \/ Interrupted("writeout")
    BY <1>0, <1>2, CommonTypes
  <1>3. ASSUME NEW l \in {"loop", "receive", "transform", "exited"},
               Goto("writeout", l), RestOK', UNCHANGED <<frames, did_frame_tick>>,
               writeoutQ' = writeoutQ \/ (writeoutQ = 1 /\ writeoutQ' = 0)
        PROVE  StepInv'
    <2>1. /\ Places' /\ pc'["framegrab"] = pc["framegrab"]
          /\ pc'["processing"] = pc["processing"]
      BY <1>0, <1>3, Moved
    <2> QED BY <1>3, <2>1 DEF CountsEnd
  <1>4. CASE WriteoutWait
    <2>1. RestOK' /\ UNCHANGED workVars /\ Goto("writeout", "loop")
      BY <1>4 DEF WriteoutWait, SemWait, RestOK, mainVars, sigVars, workVars, memVars
    <2> QED BY <1>3, <2>1 DEF workVars
  <1>5. CASE WriteoutLoop
    <2>1. RestOK' /\ UNCHANGED workVars
      BY <1>5 DEF WriteoutLoop, Loop, RestOK, mainVars, sigVars, workVars, memVars
    <2>2. Goto("writeout", IF running THEN "receive" ELSE "exited")
      BY <1>5 DEF WriteoutLoop, Loop
    <2> QED BY <1>3, <2>1, <2>2 DEF workVars
  <1>6. CASE WriteoutReceive
    <2>1. writeoutQ = 1 /\ writeoutQ' = 0
      BY <1>6 DEF WriteoutReceive, RestOK
    <2>2. RestOK' /\ UNCHANGED <<frames, did_frame_tick>> /\ Goto("writeout", "transform")
      BY <1>6, <2>1 DEF WriteoutReceive, RestOK, mainVars, sigVars, memVars
    <2> QED BY <1>3, <2>1, <2>2
  <1>7. CASE WriteoutTransform
    <2>1. Access({"wo_buffer", "wo_buffers"}) \subseteq Fault
      BY MemoryTypes DEF Memory
    <2>2. RestOK' /\ UNCHANGED workVars /\ Goto("writeout", "loop")
      BY <1>7, <2>1 DEF WriteoutTransform, RestOK, mainVars, sigVars, workVars
    <2> QED BY <1>3, <2>2 DEF workVars
  <1> QED BY <1>1, <1>2, <1>4, <1>5, <1>6, <1>7 DEF Writeout

LEMMA SignalTypes ==
    ASSUME StepInv, running' => running, NEW t \in Threads,
           TimerExpire \/ DeliverTick(t) \/ HandlerStep(t) \/ StopSignal(t)
    PROVE  StepInv'
  <1> USE DEF StepInv
  <1>1. UNCHANGED <<pc, workVars>> /\ masked' = masked /\ UNCHANGED <<arrived, joined>>
    BY DEF TimerExpire, DeliverTick, HandlerStep, StopSignal, mainVars
  <1>2. UNCHANGED <<memVars, saRestart>>
    BY DEF TimerExpire, DeliverTick, HandlerStep, StopSignal, sigVars
  <1>3. intr' \in [Threads -> BOOLEAN]
    BY MayInterruptType
       DEF TimerExpire, DeliverTick, HandlerStep, StopSignal, sigVars, RestOK
  <1>4. mishaps' \in 0 .. Mishaps
    BY HappensType DEF TimerExpire, DeliverTick, HandlerStep, StopSignal, sigVars, RestOK
  <1>5. RestOK'
    BY <1>1, <1>2, <1>3, <1>4 DEF RestOK, workVars, memVars
  <1> QED BY <1>1, <1>5 DEF Places, CountsEnd, workVars

LEMMA TypeStep == TypeInv /\ [Next]_vars => TypeInv'
  <1> SUFFICES ASSUME TypeInv, [Next]_vars PROVE TypeInv'
    OBVIOUS
  <1>1. StepInv /\ Timing!TypeOK
    BY TypeSplit DEF TypeInv, StepInv
  <1>2. Timing!TypeOK' /\ running' \in BOOLEAN
    BY <1>1, HandlerTypeStep DEF Timing!TypeOK
  <1>3. running' => running
    BY RunningFalls
  <1>4. CASE UNCHANGED vars
    <2>1. StepInv'
      BY <1>1, <1>4 DEF StepInv, Places, RestOK, CountsEnd, vars, seqVars, mainVars, sigVars,
                        workVars, memVars
    <2> QED BY <1>2, <2>1, TypeSplitNext DEF TypeInv, StepInv
  <1>5. CASE Next
    <2>1. StepInv'
      BY <1>1, <1>2, <1>3, <1>5, MainTypes, FramegrabTypes, ProcessingTypes,
         WriteoutTypes, SignalTypes, <1>4, FourThreads, TypeSplitNext
         DEF Next, Terminated, TypeInv, StepInv
    <2> QED BY <1>2, <2>1, TypeSplitNext DEF TypeInv, StepInv
  <1> QED BY <1>4, <1>5

\* Every variable of the synchronome keeps its range, whatever happens and for any number
\* of frames; in particular the queue to writeout never holds a second message.
THEOREM TypeCorrect == Spec => []TypeOK
  <1>1. TypeInv => TypeOK
    BY DEF TypeInv
  <1> QED BY TypeStart, TypeStep, <1>1, PTL DEF Spec

-----------------------------------------------------------------------------
(* The start and the end.  main falls through its last wait for two         *)
(* reasons only: a post, which the handler makes in the branch it takes     *)
(* when the program is stopping, and an interruption, which a stop signal   *)
(* makes while main masks the timer's.  Ticks, pending or in a handler,     *)
(* exist only once main has armed the timer, behind the barrier.            *)

HandlerStops ==
    /\ sem["teardown"] > 0 => ~running
    /\ \A h \in Threads :
           hpc[h] \in {"disarm", "unblock_framegrab", "unblock_processing",
                      "unblock_writeout", "unblock_teardown"} => ~running

Ticking == timer # "idle" \/ pending \/ \E h \in Threads : hpc[h] # "out"

StopInv ==
    /\ HandlerStops
    /\ pc["main"] \in {"teardown"} \cup Tearing => masked
    /\ intr["main"] => ~running
    /\ TeardownOnlyWhenStopped

StartInv ==
    /\ Ticking => arrived = Threads
    /\ pc["main"] \in {"settime", "mask", "teardown"} \cup Tearing => arrived = Threads

LEMMA HandlerMoves ==
    ASSUME Timing!TypeOK, WithoutArming \/ MainArmTimer, HandlerStops
    PROVE  HandlerStops'
  <1> USE DEF HandlerStops
  <1>0. /\ hpc \in [Threads -> Timing!HandlerPC] /\ running \in BOOLEAN
        /\ DOMAIN sem = Timing!Semaphores /\ "teardown" \in Timing!Semaphores
    BY DEF Timing!TypeOK, Timing!Semaphores
  <1>1. ASSUME NEW S, "teardown" \notin S, sem' = Timing!Post(S)
        PROVE  sem'["teardown"] = sem["teardown"]
    BY <1>0, <1>1 DEF Timing!Post
  <1>2. ASSUME NEW h \in Threads, Timing!Deliver(h) PROVE HandlerStops'
    <2>1. sem'["teardown"] = sem["teardown"]
      BY <1>1, <1>2 DEF Timing!Deliver
    <2> QED BY <1>0, <1>2, <2>1 DEF Timing!Deliver, Timing!Goto
  <1>3. ASSUME NEW h \in Threads, Timing!Handler(h) PROVE HandlerStops'
    <2>1. CASE Timing!TestRunning(h)
      BY <1>0, <2>1 DEF Timing!TestRunning, Timing!Goto
    <2>2. ASSUME NEW s \in Timing!Services, NEW next \in {"processing", "load"},
                 Timing!Release(h, s, next)
          PROVE  HandlerStops'
      <3>1. sem'["teardown"] = sem["teardown"]
        BY <1>1, <2>2 DEF Timing!Release, Timing!Services
      <3> QED BY <1>0, <2>2, <3>1 DEF Timing!Release, Timing!Goto
    <2>3. CASE Timing!LoadSequence(h) \/ Timing!StoreSequence(h) \/ Timing!WrapSequence(h)
      BY <1>0, <2>3
         DEF Timing!LoadSequence, Timing!StoreSequence, Timing!WrapSequence, Timing!Goto
    <2>4. CASE Timing!DisarmTimer(h)
      BY <1>0, <2>4 DEF Timing!DisarmTimer, Timing!Goto
    <2>5. CASE Timing!UnblockEveryone(h)
      <3>1. hpc[h] \in {"unblock_framegrab", "unblock_processing", "unblock_writeout",
                        "unblock_teardown"} /\ running' = running
        BY <2>5 DEF Timing!UnblockEveryone, Timing!Unblock, Timing!Unblocking
      <3>2. ~running'
        BY <3>1
      <3> QED BY <3>2
    <2>6. {"framegrab", "processing"} \subseteq Timing!Services
      BY DEF Timing!Services
    <2> QED BY <1>3, <2>1, <2>2, <2>3, <2>4, <2>5, <2>6
            DEF Timing!Handler, Timing!ReleaseFrame, Timing!ReleaseProcessing
  <1>4. ASSUME NEW s \in Timing!Semaphores, Timing!Take(s) PROVE HandlerStops'
    <2>1. sem["teardown"] \in Int /\ sem["teardown"] >= 0
      BY <1>0, HandlerAssumptions DEF Timing!TypeOK, Schedule!BoundAssumption
    <2>2. sem'["teardown"] > 0 => sem["teardown"] > 0
      BY <1>0, <1>4, <2>1 DEF Timing!Take
    <2> QED BY <1>4, <2>2 DEF Timing!Take
  <1>5. CASE \/ Timing!TimerExpire \/ Timing!Stop \/ UNCHANGED seqVars \/ MainArmTimer
    BY <1>5 DEF Timing!TimerExpire, Timing!Stop, seqVars, MainArmTimer, Timing!ArmTimer
  <1> QED BY <1>2, <1>3, <1>4, <1>5 DEF WithoutArming

LEMMA TicksContinue ==
    ASSUME Timing!TypeOK, WithoutArming, Ticking' PROVE Ticking
  <1> USE DEF Ticking
  <1>0. hpc \in [Threads -> Timing!HandlerPC]
    BY DEF Timing!TypeOK
  <1>1. ASSUME NEW h \in Threads, Timing!Deliver(h) PROVE Ticking
    BY <1>1 DEF Timing!Deliver
  <1>2. ASSUME NEW h \in Threads, Timing!Handler(h) PROVE hpc[h] # "out"
    BY <1>2 DEF Timing!Handler, Timing!TestRunning, Timing!ReleaseFrame,
                Timing!ReleaseProcessing, Timing!Release, Timing!LoadSequence,
                Timing!StoreSequence, Timing!WrapSequence, Timing!DisarmTimer,
                Timing!UnblockEveryone, Timing!Unblock, Timing!Unblocking
  <1>3. CASE \/ Timing!TimerExpire \/ Timing!Stop \/ UNCHANGED seqVars
             \/ \E s \in Timing!Semaphores : Timing!Take(s)
    BY <1>3 DEF Timing!TimerExpire, Timing!Stop, seqVars, Timing!Take
  <1> QED BY <1>1, <1>2, <1>3 DEF WithoutArming

\* Only main moves main; arrivals are never taken back.
LEMMA OnlyMain ==
    ASSUME TypeOK, [Next]_vars
    PROVE  /\ Main \/ (pc'["main"] = pc["main"] /\ UNCHANGED <<masked, joined>>)
           /\ arrived \subseteq arrived'
  <1>0. /\ "main" \in Threads /\ "main" \notin Workers /\ Places
        /\ \A w \in Workers : w \in Threads /\ w # "main"
        /\ {"framegrab", "processing", "writeout"} = Workers
    BY FourThreads, TypeSplit DEF Workers
  <1> DEFINE Kept == /\ pc'["main"] = pc["main"] /\ UNCHANGED <<masked, joined>>
                     /\ arrived \subseteq arrived'
  <1>1. ASSUME Main PROVE arrived \subseteq arrived'
    BY <1>1 DEF Main, MainCreates, Create, BarrierArrive, BarrierPass, MainArmTimer,
                MainMask, MainTeardown, MainJoins, Join, MainFree, MainDump, mainVars
  <1>2. ASSUME NEW t \in Workers, NEW l, Goto(t, l), UNCHANGED mainVars PROVE Kept
    BY <1>0, <1>2 DEF Goto, Places, mainVars
  <1>3. ASSUME NEW t \in Workers, Starting(t) \/ Interrupted(t) PROVE Kept
    BY <1>0, <1>2, <1>3
       DEF Starting, BarrierArrive, BarrierPass, UnbarrierExit, Interrupted, ErrorExit
  <1>4. ASSUME NEW t \in Workers, NEW x, Initialised(t, x) \/ InitFails(t, x) PROVE Kept
    BY <1>2, <1>4 DEF Initialised, InitFails
  <1>5. CASE Framegrab \/ Camera
    BY <1>0, <1>2, <1>3, <1>4, <1>5
       DEF Framegrab, Camera, FrameInit, FrameLoop, Loop, FrameWait, SemWait,
           FrameDequeue, FrameCopy, FrameCameraFails, ErrorExit
  <1>6. CASE Processing \/ ProcessingTick
    BY <1>0, <1>2, <1>3, <1>4, <1>6
       DEF Processing, ProcessingInit, ProcessingLoop, Loop, ProcessingWait, SemWait,
           ProcessingTick, ProcessingEnqueue
  <1>7. CASE Writeout
    BY <1>0, <1>2, <1>3, <1>4, <1>7
       DEF Writeout, WriteoutInit, WriteoutLoop, Loop, WriteoutWait, SemWait,
           WriteoutReceive, WriteoutTransform
  <1>8. CASE TimerExpire \/ \E t \in Threads : DeliverTick(t) \/ HandlerStep(t) \/ StopSignal(t)
    BY <1>8 DEF TimerExpire, DeliverTick, HandlerStep, StopSignal, mainVars
  <1>9. CASE Terminated \/ UNCHANGED vars
    BY <1>9 DEF Terminated, vars, mainVars
  <1> QED BY <1>1, <1>5, <1>6, <1>7, <1>8, <1>9 DEF Next

\* What makes main's wait return EINTR.
LEMMA MainInterrupted ==
    ASSUME TypeOK, [Next]_vars, intr'["main"]
    PROVE  intr["main"] \/ ~running' \/ (~masked /\ pc["main"] = "teardown")
  <1>0. /\ intr \in [Threads -> BOOLEAN] /\ "main" \in Threads
        /\ pc["main"] \notin {"wait", "dequeue", "receive"}
        /\ \A w \in Workers : w # "main"
        /\ {"framegrab", "processing", "writeout"} = Workers
    BY FourThreads DEF TypeOK, LocationsOf, Tearing, Workers
  <1>1. ASSUME NEW t \in Threads, DeliverTick(t)
        PROVE  intr["main"] \/ (~masked /\ pc["main"] = "teardown")
    <2>1. CASE UNCHANGED intr
      BY <2>1
    <2>2. CASE intr' = [intr EXCEPT ![t] = TRUE] /\ Blocked(t)
      <3>1. CASE t = "main"
        BY <1>0, <1>1, <2>2, <3>1 DEF DeliverTick, Blocked
      <3>2. CASE t # "main"
        BY <1>0, <2>2, <3>2
      <3> QED BY <3>1, <3>2
    <2> QED BY <1>1, <2>1, <2>2 DEF DeliverTick, MayInterrupt
  <1>2. ASSUME NEW t \in Threads, StopSignal(t) PROVE ~running'
    BY <1>2 DEF StopSignal, Timing!Stop
  <1>3. ASSUME NEW t \in Workers, Interrupted(t) PROVE intr["main"]
    BY <1>0, <1>3 DEF Interrupted
  <1>4. CASE MainTeardown
    BY <1>0, <1>4 DEF MainTeardown
  <1>5. CASE Main /\ ~MainTeardown
    BY <1>5 DEF Main, MainCreates, Create, BarrierArrive, BarrierPass, MainArmTimer,
                MainMask, MainJoins, Join, MainFree, MainDump, sigVars
  <1>6. ASSUME NEW t \in Workers, Starting(t) PROVE intr["main"]
    BY <1>6 DEF Starting, BarrierArrive, BarrierPass, UnbarrierExit, sigVars
  <1>7. CASE Framegrab \/ Camera
    BY <1>0, <1>3, <1>6, <1>7
       DEF Framegrab, Camera, FrameInit, Initialised, InitFails, FrameLoop, Loop,
           FrameWait, SemWait, FrameDequeue, FrameCopy, FrameCameraFails, sigVars
  <1>8. CASE Processing \/ ProcessingTick
    BY <1>0, <1>3, <1>6, <1>8
       DEF Processing, ProcessingInit, Initialised, InitFails, ProcessingLoop, Loop,
           ProcessingWait, SemWait, ProcessingTick, ProcessingEnqueue, sigVars
  <1>9. CASE Writeout
    BY <1>0, <1>3, <1>6, <1>9
       DEF Writeout, WriteoutInit, Initialised, InitFails, WriteoutLoop, Loop,
           WriteoutWait, SemWait, WriteoutReceive, WriteoutTransform, sigVars
  <1>10. CASE TimerExpire \/ \E t \in Threads : HandlerStep(t)
    BY <1>10 DEF TimerExpire, HandlerStep, sigVars
  <1>11. CASE Terminated \/ UNCHANGED vars
    BY <1>11 DEF Terminated, vars, sigVars
  <1> QED BY <1>1, <1>2, <1>4, <1>5, <1>7, <1>8, <1>9, <1>10, <1>11 DEF Next

LEMMA StopStart == Init => StopInv /\ StartInv
  <1> SUFFICES ASSUME Init PROVE StopInv /\ StartInv
    OBVIOUS
  <1>1. /\ pc["main"] = "create_framegrab" /\ ~intr["main"] /\ timer = "idle" /\ ~pending
        /\ \A h \in Threads : hpc[h] = "out"
        /\ sem["teardown"] = 0
    BY FourThreads DEF Init, Timing!Init, Timing!Semaphores
  <1> QED BY <1>1 DEF StopInv, StartInv, HandlerStops, Ticking, TeardownOnlyWhenStopped,
                      Tearing

LEMMA StopStep == TypeOK /\ StopInv /\ [Next]_vars => StopInv'
  <1> SUFFICES ASSUME TypeOK, StopInv, [Next]_vars PROVE StopInv'
    OBVIOUS
  <1> USE DEF StopInv
  <1>0. /\ Places /\ Timing!TypeOK /\ "main" \in Threads
        /\ (running' => running)
    BY TypeSplit, FourThreads, RunningFalls
  <1>1. HandlerStops'
    BY <1>0, StepKinds, HandlerMoves
  <1>2. intr'["main"] => ~running'
    BY <1>0, MainInterrupted
  <1>3. ASSUME pc'["main"] = pc["main"], masked' = masked PROVE StopInv'
    BY <1>0, <1>1, <1>2, <1>3 DEF TeardownOnlyWhenStopped
  <1>4. ASSUME NEW l, Goto("main", l), l \notin {"teardown"} \cup Tearing PROVE StopInv'
    BY <1>0, <1>1, <1>2, <1>4 DEF Goto, Places, TeardownOnlyWhenStopped
  <1>5. ASSUME NEW l, Goto("main", l), ~running, masked' = masked,
               pc["main"] \in {"teardown"} \cup Tearing
        PROVE  StopInv'
    BY <1>0, <1>1, <1>2, <1>5 DEF Goto, Places, TeardownOnlyWhenStopped
  <1>6. CASE Main
    <2>1. CASE MainCreates
      <3>1. pc'["main"] \in {"create_processing", "create_writeout", "barrier"}
        BY <1>0, <2>1 DEF MainCreates, Create, Goto, Places
      <3> QED BY <1>1, <1>2, <3>1 DEF Tearing, TeardownOnlyWhenStopped
    <2>2. CASE BarrierArrive("main")
      BY <1>3, <2>2 DEF BarrierArrive
    <2>3. CASE BarrierPass("main")
      BY <1>4, <2>3 DEF BarrierPass, AfterBarrier, Tearing
    <2>4. CASE MainArmTimer
      BY <1>4, <2>4 DEF MainArmTimer, Tearing
    <2>5. CASE MainMask
      <3>1. pc'["main"] = "teardown" /\ masked'
        BY <1>0, <2>5 DEF MainMask, Goto, Places
      <3> QED BY <1>1, <1>2, <3>1 DEF Tearing, TeardownOnlyWhenStopped
    <2>6. CASE MainTeardown
      <3>1. ~running
        BY <2>6 DEF MainTeardown, Timing!Take, HandlerStops
      <3> QED BY <1>5, <2>6, <3>1 DEF MainTeardown, At, mainVars
    <2>7. CASE MainJoins \/ MainFree \/ MainDump
      <3>1. /\ pc["main"] \in Tearing /\ masked' = masked
            /\ \E l : Goto("main", l)
        BY <2>7 DEF MainJoins, Join, JoinOf, MainFree, MainDump, At, Tearing, mainVars
      <3> QED BY <1>5, <3>1 DEF TeardownOnlyWhenStopped
    <2> QED BY <1>6, <2>1, <2>2, <2>3, <2>4, <2>5, <2>6, <2>7 DEF Main
  <1> QED BY <1>3, <1>6, OnlyMain

LEMMA StartStep == TypeOK /\ TypeOK' /\ StartInv /\ [Next]_vars => StartInv'
  <1> SUFFICES ASSUME TypeOK, TypeOK', StartInv, [Next]_vars PROVE StartInv'
    OBVIOUS
  <1> USE DEF StartInv
  <1>0. /\ Places /\ Timing!TypeOK /\ "main" \in Threads
        /\ (arrived = Threads => arrived' = Threads)
    BY TypeSplit, FourThreads, OnlyMain DEF TypeOK
  <1>1. CASE MainArmTimer
    BY <1>0, <1>1 DEF MainArmTimer, At
  <1>2. ASSUME WithoutArming PROVE Ticking' => arrived' = Threads
    BY <1>0, <1>2, TicksContinue
  <1>3. CASE Main /\ ~MainArmTimer
    <2>1. CASE MainCreates
      <3>1. pc'["main"] \in {"create_processing", "create_writeout", "barrier"}
        BY <1>0, <2>1 DEF MainCreates, Create, Goto, Places
      <3> QED BY <1>2, <1>3, <3>1, MainSteps DEF Tearing
    <2>2. CASE BarrierArrive("main") \/ BarrierPass("main")
      BY <1>0, <1>2, <1>3, <2>2, MainSteps DEF BarrierArrive, BarrierPass
    <2>3. CASE MainMask \/ MainTeardown \/ MainJoins \/ MainFree \/ MainDump
      <3>1. pc["main"] \in {"mask", "teardown"} \cup Tearing
        BY <2>3 DEF MainMask, MainTeardown, MainJoins, Join, JoinOf, MainFree, MainDump,
                    At, Tearing
      <3> QED BY <1>0, <1>2, <1>3, <3>1, MainSteps
    <2> QED BY <1>3, <2>1, <2>2, <2>3 DEF Main
  <1>4. CASE pc'["main"] = pc["main"] /\ ~MainArmTimer
    BY <1>0, <1>2, <1>4, StepKinds
  <1> QED BY <1>1, <1>3, <1>4, OnlyMain

\* main never begins to tear down a program that still runs, whatever interrupts it.
THEOREM TeardownWaitsForStop == Spec => []TeardownOnlyWhenStopped
  <1>1. Init => TypeInv /\ StopInv
    BY TypeStart, StopStart
  <1>2. TypeInv /\ StopInv /\ [Next]_vars => (TypeInv /\ StopInv)'
    BY TypeStep, StopStep DEF TypeInv
  <1>3. StopInv => TeardownOnlyWhenStopped
    BY DEF StopInv
  <1> QED BY <1>1, <1>2, <1>3, PTL DEF Spec

\* The timer is armed only when all four threads have come to the barrier.
THEOREM TicksWaitForInit == Spec => []NoTickBeforeInit
  <1>1. Init => TypeInv /\ StartInv
    BY TypeStart, StopStart
  <1>2. TypeInv /\ StartInv /\ [Next]_vars => (TypeInv /\ StartInv)'
    BY TypeStep, StartStep DEF TypeInv
  <1>3. StartInv => NoTickBeforeInit
    BY DEF StartInv, NoTickBeforeInit, Ticking
  <1> QED BY <1>1, <1>2, <1>3, PTL DEF Spec

-----------------------------------------------------------------------------
(* What becomes of the shared buffers and the camera: nothing is freed     *)
(* twice and nothing is used when it is not there, but in the cases the    *)
(* two properties name.  For any number of failures and stop signals.      *)

\* the buffers each worker allocates for all (the camera is opened before)
BufferOf == [framegrab |-> "wo_buffer", processing |-> "scan_buffer",
             writeout |-> "wo_buffers"]

\* where a worker is once it has passed the barrier, until it leaves
Working == {"loop", "wait", "dequeue", "copy", "scan", "enqueue", "receive", "transform"}

\* main before it creates t, after it has joined t, and after it has freed
Before == [framegrab |-> {"create_framegrab"},
           processing |-> {"create_framegrab", "create_processing"},
           writeout |-> {"create_framegrab", "create_processing", "create_writeout"}]
Past == [framegrab |-> {"join_processing", "join_writeout", "free", "dump", "exited"},
         processing |-> {"join_writeout", "free", "dump", "exited"},
         writeout |-> {"free", "dump", "exited"}]
Freed == {"dump", "exited"}

Reclaimed(t) == pc["main"] \in Freed /\ joined[t] = "ok"

(* Who has been where: a worker works only behind the barrier, which       *)
(* everybody passes initialised or failed, a failed one leaves at once;    *)
(* main's join of t says "ok" only of a thread that is gone.               *)
PlaceInv ==
    \A t \in Workers :
        /\ pc["main"] \in Before[t] => pc[t] = "absent"
        /\ t \in arrived => pc[t] \notin {"absent", "init"}
        /\ pc[t] \in Working => arrived = Threads
        /\ t \in initFailed => pc[t] \in {"unbarrier", "exited"}
        /\ joined[t] # "no" <=> pc["main"] \in Past[t]
        /\ joined[t] = "ok" => pc[t] = "exited"

(* A buffer is there from its owner's initialisation on, unless that       *)
(* failed, until main frees it; before main frees anything only a failed   *)
(* initialisation does.                                                    *)
HeapInv ==
    /\ \A t \in Workers :
           pc[t] \notin {"absent", "init"} /\ t \notin initFailed /\ ~Reclaimed(t)
               => heap[BufferOf[t]] = "live"
    /\ pc["main"] \notin Freed =>
           /\ \A r \in {"wo_buffer", "camera"} :
                  heap[r] = "freed" => "framegrab" \in initFailed
           /\ heap["scan_buffer"] # "freed"
           /\ heap["wo_buffers"] = "freed" => "writeout" \in initFailed

MemInv == PlaceInv /\ HeapInv /\ BadAccessNeedsTimeout /\ DoubleFreeNeedsFailedInit

-----------------------------------------------------------------------------
(* What a step of worker t can do to all this.                             *)

WorkerMoves(t) ==
    /\ pc[t] \in Working \cup {"barrier", "unbarrier"}
    /\ \E l \in Working \cup {"exited"} : Goto(t, l)
    /\ pc[t] = "barrier" => arrived = Threads
    /\ pc[t] = "unbarrier" => Goto(t, "exited")
    /\ Alive
    /\ UNCHANGED <<arrived, joined, heap, initFailed>>
    /\ \/ UNCHANGED faults
       \/ t = "framegrab" /\ pc[t] \in Working
              /\ faults' = faults \cup Access({"scan_buffer"})
       \/ t = "writeout" /\ pc[t] \in Working
              /\ faults' = faults \cup Access({"wo_buffer", "wo_buffers"})

Initialises(t) ==
    /\ pc[t] = "init"
    /\ Alive
    /\ \/ /\ Goto(t, "barrier")
          /\ heap' = [heap EXCEPT ![BufferOf[t]] = "live"]
          /\ UNCHANGED initFailed
       \/ /\ Goto(t, "unbarrier")
          /\ \A r \in Memory \ Owned[t] : heap'[r] = heap[r]
          /\ t = "processing" => heap'["scan_buffer"] = "partial"
          /\ initFailed' = initFailed \cup {t}
    /\ UNCHANGED <<arrived, joined, faults>>

LEMMA FramegrabKinds ==
    TypeOK /\ (Framegrab \/ Camera) =>
        WorkerMoves("framegrab") \/ Initialises("framegrab") \/ BarrierArrive("framegrab")
  <1> SUFFICES ASSUME TypeOK, Framegrab \/ Camera
               PROVE  \/ WorkerMoves("framegrab") \/ Initialises("framegrab")
                      \/ BarrierArrive("framegrab")
    OBVIOUS
  <1>1. CASE FrameInit
    <2>1. CASE Initialised("framegrab", "wo_buffer")
      BY <2>1 DEF Initialised, Initialises, At, BufferOf, mainVars
    <2>2. ASSUME NEW wo \in {"none", "freed"},
                 InitFails("framegrab",
                           [heap EXCEPT !["camera"] = "freed", !["wo_buffer"] = wo])
          PROVE  Initialises("framegrab")
      BY <2>2 DEF InitFails, Initialises, At, Owned, mainVars, TypeOK
    <2> QED BY <1>1, <2>1, <2>2 DEF FrameInit
  <1>2. CASE Starting("framegrab")
    BY <1>2 DEF Starting, BarrierPass, UnbarrierExit, ErrorExit, WorkerMoves, At, Working,
                AfterBarrier, mainVars, memVars
  <1>3. CASE FrameLoop \/ FrameWait \/ Interrupted("framegrab")
    BY <1>3 DEF FrameLoop, Loop, FrameWait, SemWait, Interrupted, ErrorExit, WorkerMoves,
                At, Working, mainVars, memVars
  <1>4. CASE FrameCopy \/ Camera
    BY <1>4 DEF FrameCopy, Camera, FrameDequeue, FrameCameraFails, ErrorExit, WorkerMoves,
                At, Working, mainVars, memVars
  <1> QED BY <1>1, <1>2, <1>3, <1>4 DEF Framegrab

LEMMA ProcessingKinds ==
    TypeOK /\ (Processing \/ ProcessingTick) =>
        \/ WorkerMoves("processing") \/ Initialises("processing")
        \/ BarrierArrive("processing")
  <1> SUFFICES ASSUME TypeOK, Processing \/ ProcessingTick
               PROVE  \/ WorkerMoves("processing") \/ Initialises("processing")
                      \/ BarrierArrive("processing")
    OBVIOUS
  <1>1. CASE ProcessingInit
    BY <1>1 DEF ProcessingInit, Initialised, InitFails, Initialises, At, BufferOf, Owned,
                Memory, mainVars, TypeOK
  <1>2. CASE Starting("processing")
    BY <1>2 DEF Starting, BarrierPass, UnbarrierExit, ErrorExit, WorkerMoves, At, Working,
                AfterBarrier, mainVars, memVars
  <1>3. CASE ProcessingLoop \/ ProcessingWait \/ Interrupted("processing")
    BY <1>3 DEF ProcessingLoop, Loop, ProcessingWait, SemWait, Interrupted, ErrorExit,
                WorkerMoves, At, Working, mainVars, memVars
  <1>4. CASE ProcessingTick \/ ProcessingEnqueue
    BY <1>4 DEF ProcessingTick, ProcessingEnqueue, WorkerMoves, At, Working, mainVars,
                memVars
  <1> QED BY <1>1, <1>2, <1>3, <1>4 DEF Processing

LEMMA WriteoutKinds ==
    TypeOK /\ Writeout =>
        WorkerMoves("writeout") \/ Initialises("writeout") \/ BarrierArrive("writeout")
  <1> SUFFICES ASSUME TypeOK, Writeout
               PROVE  \/ WorkerMoves("writeout") \/ Initialises("writeout")
                      \/ BarrierArrive("writeout")
    OBVIOUS
  <1>1. CASE WriteoutInit
    BY <1>1 DEF WriteoutInit, Initialised, InitFails, Initialises, At, BufferOf, Owned,
                Memory, mainVars, TypeOK
  <1>2. CASE Starting("writeout")
    BY <1>2 DEF Starting, BarrierPass, UnbarrierExit, ErrorExit, WorkerMoves, At, Working,
                AfterBarrier, mainVars, memVars
  <1>3. CASE WriteoutLoop \/ WriteoutWait \/ Interrupted("writeout")
    BY <1>3 DEF WriteoutLoop, Loop, WriteoutWait, SemWait, Interrupted, ErrorExit,
                WorkerMoves, At, Working, mainVars, memVars
  <1>4. CASE WriteoutReceive \/ WriteoutTransform
    BY <1>4 DEF WriteoutReceive, WriteoutTransform, WorkerMoves, At, Working, mainVars,
                memVars
  <1> QED BY <1>1, <1>2, <1>3, <1>4 DEF Writeout

LEMMA Kinds ==
    ASSUME TypeOK, [Next]_vars
    PROVE  \/ UNCHANGED <<pc, arrived, joined, memVars>>
           \/ Main
           \/ \E t \in Workers : WorkerMoves(t) \/ Initialises(t) \/ BarrierArrive(t)
  <1>1. CASE TimerExpire \/ \E t \in Threads : DeliverTick(t) \/ HandlerStep(t) \/ StopSignal(t)
    BY <1>1 DEF TimerExpire, DeliverTick, HandlerStep, StopSignal, mainVars
  <1>2. CASE Terminated \/ UNCHANGED vars
    BY <1>2 DEF Terminated, vars, mainVars
  <1>3. {"framegrab", "processing", "writeout"} \subseteq Workers
    BY DEF Workers
  <1> QED BY <1>1, <1>2, <1>3, FramegrabKinds, ProcessingKinds, WriteoutKinds DEF Next

-----------------------------------------------------------------------------
LEMMA MemStart == Init => MemInv
  <1> SUFFICES ASSUME Init PROVE MemInv
    OBVIOUS
  <1>1. /\ pc["main"] = "create_framegrab"
        /\ \A t \in Workers : pc[t] = "absent" /\ joined[t] = "no"
        /\ arrived = {} /\ initFailed = {} /\ faults = {}
        /\ \A r \in Memory : heap[r] # "freed"
    BY FourThreads DEF Init, Workers
  <1>2. PlaceInv
    BY <1>1 DEF PlaceInv, Past, Workers, Working
  <1>3. HeapInv
    BY <1>1 DEF HeapInv, Memory
  <1> QED BY <1>1, <1>2, <1>3 DEF MemInv, BadAccessNeedsTimeout, DoubleFreeNeedsFailedInit

LEMMA FourPlaces ==
    /\ "main" \in Threads /\ "main" \notin Workers
    /\ \A t \in Workers : t \in Threads
    /\ Workers = {"framegrab", "processing", "writeout"}
    /\ Workers \subseteq Threads
  BY DEF Threads, Workers

\* A worker that works finds what it uses, or has outlived its join, or works for a
\* program another thread of which failed to initialise.
LEMMA WhatIsThere ==
    ASSUME TypeOK, PlaceInv, HeapInv, NEW t \in Workers, pc[t] \in Working,
           NEW u \in Workers, heap[BufferOf[u]] # "live"
    PROVE  u \in initFailed \/ (joined[u] = "ok" /\ joined[t] = "timeout")
  <1>1. pc[u] \notin {"absent", "init"}
    BY FourPlaces DEF PlaceInv
  <1>2. CASE u \notin initFailed
    <2>1. Reclaimed(u)
      BY <1>1, <1>2 DEF HeapInv
    <2>2. pc["main"] \in Past[t]
      BY <2>1, FourPlaces DEF Reclaimed, Past, Freed
    <2>3. joined[t] # "no" /\ joined[t] # "ok"
      BY <2>2 DEF PlaceInv, Working
    <2> QED BY <2>1, <2>3 DEF TypeOK, Reclaimed
  <1> QED BY <1>2

LEMMA WorkerKeeps ==
    ASSUME TypeOK, MemInv, NEW t \in Workers, WorkerMoves(t) PROVE MemInv'
  <1> USE DEF MemInv
  <1>0. PICK l \in Working \cup {"exited"} : Goto(t, l)
    BY DEF WorkerMoves
  <1>1. /\ pc'[t] = l
        /\ \A u \in Threads : u # t => pc'[u] = pc[u]
        /\ pc'["main"] = pc["main"]
    BY <1>0, FourPlaces DEF Goto, TypeOK
  <1>2. pc[t] \notin {"absent", "init", "exited"} /\ pc'[t] \notin {"absent", "init"}
    BY <1>1 DEF WorkerMoves, Working
  <1>3. PlaceInv'
    <2>1. ASSUME NEW u \in Workers, u # t
          PROVE  /\ pc'["main"] \in Before[u] => pc'[u] = "absent"
                 /\ u \in arrived' => pc'[u] \notin {"absent", "init"}
                 /\ pc'[u] \in Working => arrived' = Threads
                 /\ u \in initFailed' => pc'[u] \in {"unbarrier", "exited"}
                 /\ joined'[u] # "no" <=> pc'["main"] \in Past[u]
                 /\ joined'[u] = "ok" => pc'[u] = "exited"
      BY <1>1, <2>1, FourPlaces DEF PlaceInv, WorkerMoves
    <2>2. pc'[t] \in Working => arrived' = Threads
      <3>1. pc[t] # "unbarrier" \/ pc'[t] = "exited"
        BY FourPlaces DEF WorkerMoves, Goto, TypeOK
      <3> QED BY <3>1 DEF PlaceInv, WorkerMoves, Working
    <2>3. t \in initFailed' => pc'[t] \in {"unbarrier", "exited"}
      <3>1. t \in initFailed => pc[t] = "unbarrier"
        BY <1>2 DEF PlaceInv
      <3> QED BY <3>1, FourPlaces DEF WorkerMoves, Goto, TypeOK
    <2>4. /\ pc'["main"] \notin Before[t]
          /\ joined'[t] # "no" <=> pc'["main"] \in Past[t]
          /\ joined'[t] # "ok"
      BY <1>1, <1>2 DEF PlaceInv, WorkerMoves
    <2> QED BY <1>2, <2>1, <2>2, <2>3, <2>4 DEF PlaceInv
  <1>4. HeapInv'
    <2>1. \A u \in Workers : Reclaimed(u)' = Reclaimed(u)
      BY <1>1 DEF Reclaimed, WorkerMoves
    <2>2. \A u \in Workers :
              pc'[u] \notin {"absent", "init"} => pc[u] \notin {"absent", "init"}
      BY <1>1, <1>2, FourPlaces
    <2> QED BY <1>1, <2>1, <2>2 DEF HeapInv, WorkerMoves
  <1>5. DoubleFreeNeedsFailedInit'
    <2>1. \A r \in Memory : <<"double_free", r>> \in faults' => <<"double_free", r>> \in faults
      BY DEF WorkerMoves, Access
    <2> QED BY <2>1 DEF DoubleFreeNeedsFailedInit, WorkerMoves, Memory
  <1>6. BadAccessNeedsTimeout'
    <2>1. CASE UNCHANGED faults
      BY <2>1 DEF BadAccessNeedsTimeout, WorkerMoves
    <2>2. CASE /\ t = "framegrab" /\ pc[t] \in Working
               /\ faults' = faults \cup Access({"scan_buffer"})
      <3>1. heap["scan_buffer"] # "live" =>
                "processing" \in initFailed \/ joined["framegrab"] = "timeout"
        BY <2>2, WhatIsThere, FourPlaces DEF BufferOf
      <3>2. faults' \ faults \subseteq
                IF heap["scan_buffer"] = "live" THEN {} ELSE {<<"bad_access", "scan_buffer">>}
        BY <2>2 DEF Access
      <3> QED BY <3>1, <3>2 DEF BadAccessNeedsTimeout, WorkerMoves
    <2>3. CASE /\ t = "writeout" /\ pc[t] \in Working
               /\ faults' = faults \cup Access({"wo_buffer", "wo_buffers"})
      <3>1. heap["wo_buffer"] # "live" =>
                "framegrab" \in initFailed \/ joined["writeout"] = "timeout"
        BY <2>3, WhatIsThere, FourPlaces DEF BufferOf
      <3>2. heap["wo_buffers"] = "live"
        <4>1. "writeout" \notin initFailed /\ joined["writeout"] # "ok"
          BY <2>3, FourPlaces DEF PlaceInv, Working
        <4> QED BY <4>1, <2>3, WhatIsThere, FourPlaces DEF BufferOf
      <3>3. faults' \ faults \subseteq
                IF heap["wo_buffer"] = "live" THEN {} ELSE {<<"bad_access", "wo_buffer">>}
        BY <2>3, <3>2 DEF Access
      <3> QED BY <3>1, <3>3 DEF BadAccessNeedsTimeout, WorkerMoves
    <2> QED BY <2>1, <2>2, <2>3 DEF WorkerMoves
  <1> QED BY <1>3, <1>4, <1>5, <1>6

LEMMA InitKeeps ==
    ASSUME TypeOK, TypeOK', MemInv, NEW t \in Workers, Initialises(t) PROVE MemInv'
  <1> USE DEF MemInv
  <1>0. PICK l \in {"barrier", "unbarrier"} : Goto(t, l)
    BY DEF Initialises
  <1>1. /\ pc'[t] = l
        /\ \A u \in Threads : u # t => pc'[u] = pc[u]
        /\ pc'["main"] = pc["main"]
    BY <1>0, FourPlaces DEF Goto, TypeOK
  <1>2. /\ initFailed \subseteq initFailed' /\ initFailed' \subseteq initFailed \cup {t}
        /\ t \in initFailed' => pc'[t] = "unbarrier"
    BY <1>1, FourPlaces DEF Initialises, PlaceInv, Goto, TypeOK
  <1>3. joined[t] # "ok" /\ pc'[t] \notin {"absent", "init", "exited"}
    BY <1>1 DEF Initialises, PlaceInv
  <1>4. UNCHANGED <<arrived, joined, faults>>
    BY DEF Initialises
  <1>5. PlaceInv'
    <2>1. ASSUME NEW u \in Workers, u # t
          PROVE  /\ pc'["main"] \in Before[u] => pc'[u] = "absent"
                 /\ u \in arrived' => pc'[u] \notin {"absent", "init"}
                 /\ pc'[u] \in Working => arrived' = Threads
                 /\ u \in initFailed' => pc'[u] \in {"unbarrier", "exited"}
                 /\ joined'[u] # "no" <=> pc'["main"] \in Past[u]
                 /\ joined'[u] = "ok" => pc'[u] = "exited"
      BY <1>1, <1>2, <1>4, <2>1, FourPlaces DEF PlaceInv
    <2>2. pc'["main"] \notin Before[t]
      BY <1>1 DEF PlaceInv, Initialises
    <2>3. pc'[t] \notin Working
      BY <1>1 DEF Working
    <2>4. joined'[t] # "no" <=> pc'["main"] \in Past[t]
      BY <1>1, <1>4 DEF PlaceInv
    <2> QED BY <1>2, <1>3, <1>4, <2>1, <2>2, <2>3, <2>4 DEF PlaceInv
  <1>6. ASSUME NEW u \in Workers, u # t
        PROVE  \A r \in Owned[u] : heap'[r] = heap[r]
    <2>1. \A r \in Owned[u] : r \in Memory /\ r \notin Owned[t] /\ r # BufferOf[t]
      BY <1>6, FourPlaces DEF Owned, Memory, BufferOf
    <2> QED BY <2>1 DEF Initialises, TypeOK
  <1>7. HeapInv'
    <2>1. ASSUME NEW u \in Workers, pc'[u] \notin {"absent", "init"}, u \notin initFailed',
                 ~Reclaimed(u)'
          PROVE  heap'[BufferOf[u]] = "live"
      <3>1. CASE u # t
        <4>1. heap'[BufferOf[u]] = heap[BufferOf[u]]
          BY <1>6, <3>1, FourPlaces DEF BufferOf, Owned
        <4> QED BY <1>1, <1>2, <1>4, <2>1, <3>1, <4>1, FourPlaces DEF HeapInv, Reclaimed
      <3>2. CASE u = t
        <4>1. heap' = [heap EXCEPT ![BufferOf[t]] = "live"]
          BY <2>1, <3>2 DEF Initialises
        <4>2. BufferOf[t] \in DOMAIN heap
          BY FourPlaces DEF BufferOf, TypeOK, Memory
        <4> QED BY <3>2, <4>1, <4>2
      <3> QED BY <3>1, <3>2
    <2>2. ASSUME NEW u \in Workers, NEW r \in Owned[u], heap'[r] = "freed"
          PROVE  heap[r] = "freed" \/ (u \in initFailed' /\ r # "scan_buffer")
      <3>1. CASE u # t
        BY <1>6, <2>2, <3>1
      <3>2. CASE u = t /\ t \notin initFailed'
        <4>1. r \in Memory
          BY <2>2, FourPlaces DEF Owned, Memory
        <4>2. heap' = [heap EXCEPT ![BufferOf[t]] = "live"]
          BY <3>2 DEF Initialises
        <4> QED BY <2>2, <4>1, <4>2 DEF TypeOK
      <3>3. CASE u = t /\ t \in initFailed' /\ r = "scan_buffer"
        <4>1. t = "processing"
          BY <2>2, <3>3, FourPlaces DEF Owned
        <4>2. heap' # [heap EXCEPT !["scan_buffer"] = "live"]
          BY <2>2, <3>3 DEF TypeOK, Memory
        <4> QED BY <2>2, <3>3, <4>1, <4>2 DEF Initialises, BufferOf
      <3> QED BY <2>2, <3>1, <3>2, <3>3
    <2>3. /\ Owned["framegrab"] = {"wo_buffer", "camera"}
          /\ Owned["processing"] = {"scan_buffer"} /\ Owned["writeout"] = {"wo_buffers"}
      BY DEF Owned
    <2>4. pc'["main"] \notin Freed =>
              /\ \A r \in {"wo_buffer", "camera"} :
                     heap'[r] = "freed" => "framegrab" \in initFailed'
              /\ heap'["scan_buffer"] # "freed"
              /\ heap'["wo_buffers"] = "freed" => "writeout" \in initFailed'
      BY <1>1, <1>2, <2>2, <2>3, FourPlaces DEF HeapInv
    <2> QED BY <2>1, <2>4 DEF HeapInv
  <1>8. BadAccessNeedsTimeout' /\ DoubleFreeNeedsFailedInit'
    BY <1>2, <1>4 DEF BadAccessNeedsTimeout, DoubleFreeNeedsFailedInit
  <1> QED BY <1>5, <1>7, <1>8

LEMMA ArriveKeeps ==
    ASSUME TypeOK, MemInv, NEW t \in Threads, BarrierArrive(t) PROVE MemInv'
  <1> USE DEF MemInv
  <1>1. /\ UNCHANGED <<pc, joined, memVars>> /\ arrived' = arrived \cup {t}
        /\ pc[t] \in {"barrier", "unbarrier"}
    BY DEF BarrierArrive, At
  <1>2. PlaceInv'
    <2>1. arrived = Threads => arrived' = Threads
      BY <1>1
    <2> QED BY <1>1, <2>1 DEF PlaceInv, memVars
  <1>3. HeapInv' /\ BadAccessNeedsTimeout' /\ DoubleFreeNeedsFailedInit'
    BY <1>1 DEF HeapInv, Reclaimed, BadAccessNeedsTimeout, DoubleFreeNeedsFailedInit, memVars
  <1> QED BY <1>2, <1>3

LEMMA CreateKeeps == ASSUME TypeOK, MemInv, MainCreates PROVE MemInv'
  <1> USE DEF MemInv
  <1>1. UNCHANGED <<arrived, joined, memVars>>
    BY DEF MainCreates, Create, mainVars
  <1>2. /\ pc["main"] \in {"create_framegrab", "create_processing", "create_writeout"}
        /\ pc'["main"] \in {"create_processing", "create_writeout", "barrier"}
        /\ \A u \in Workers : pc'[u] = pc[u] \/ (pc[u] = "absent" /\ pc'[u] = "init")
        /\ \A u \in Workers : pc'["main"] \in Before[u] =>
               pc["main"] \in Before[u] /\ pc'[u] = pc[u]
    <2>1. CASE Create("framegrab", "create_framegrab", "create_processing")
      BY <2>1, FourPlaces DEF Create, At, Goto, TypeOK, PlaceInv, Before
    <2>2. CASE Create("processing", "create_processing", "create_writeout")
      BY <2>2, FourPlaces DEF Create, At, Goto, TypeOK, PlaceInv, Before
    <2>3. CASE Create("writeout", "create_writeout", "barrier")
      BY <2>3, FourPlaces DEF Create, At, Goto, TypeOK, PlaceInv, Before
    <2> QED BY <2>1, <2>2, <2>3 DEF MainCreates
  <1>3. \A u \in Workers : pc["main"] \notin Past[u] /\ pc'["main"] \notin Past[u]
    BY <1>2, FourPlaces DEF Past
  <1>4. PlaceInv'
    BY <1>1, <1>2, <1>3 DEF PlaceInv, memVars, Working
  <1>5. HeapInv'
    BY <1>1, <1>2 DEF HeapInv, Reclaimed, Freed, memVars
  <1>6. BadAccessNeedsTimeout' /\ DoubleFreeNeedsFailedInit'
    BY <1>1 DEF BadAccessNeedsTimeout, DoubleFreeNeedsFailedInit, memVars
  <1> QED BY <1>4, <1>5, <1>6

LEMMA JoinKeeps ==
    ASSUME TypeOK, MemInv, NEW t \in Workers, NEW next,
           <<t, next>> \in {<<"framegrab", "join_processing">>,
                           <<"processing", "join_writeout">>, <<"writeout", "free">>},
           Join(t, next)
    PROVE  MemInv'
  <1> USE DEF MemInv
  <1>1. /\ pc["main"] = JoinOf[t] /\ pc'["main"] = next
        /\ \A u \in Workers : pc'[u] = pc[u]
        /\ UNCHANGED <<arrived, memVars>>
    BY FourPlaces DEF Join, At, Goto, TypeOK
  <1>2. /\ joined'[t] \in {"ok", "timeout"}
        /\ joined'[t] = "ok" => pc[t] = "exited"
        /\ \A u \in Workers : u # t => joined'[u] = joined[u]
    BY DEF Join, TypeOK
  <1>3. \A u \in Workers :
            /\ pc["main"] \notin Before[u] /\ pc'["main"] \notin Before[u]
            /\ pc'["main"] \in Past[u] <=> (u = t \/ pc["main"] \in Past[u])
            /\ pc["main"] \notin Freed /\ pc'["main"] \notin Freed
    BY <1>1, FourPlaces DEF Before, Past, JoinOf, Freed
  <1>4. joined[t] = "no"
    BY <1>1, FourPlaces DEF PlaceInv, Past, JoinOf
  <1>5. PlaceInv'
    BY <1>1, <1>2, <1>3 DEF PlaceInv, memVars
  <1>6. HeapInv'
    BY <1>1, <1>3 DEF HeapInv, Reclaimed, memVars
  <1>7. BadAccessNeedsTimeout' /\ DoubleFreeNeedsFailedInit'
    BY <1>1, <1>2, <1>4, FourPlaces
       DEF BadAccessNeedsTimeout, DoubleFreeNeedsFailedInit, memVars
  <1> QED BY <1>5, <1>6, <1>7

LEMMA FreeKeeps == ASSUME TypeOK, MemInv, MainFree PROVE MemInv'
  <1> USE DEF MemInv
  <1> DEFINE S == UNION {Owned[t] : t \in {w \in Workers : joined[w] = "ok"}}
  <1>1. /\ pc["main"] = "free" /\ pc'["main"] = "dump"
        /\ \A u \in Workers : pc'[u] = pc[u]
        /\ UNCHANGED <<arrived, joined, initFailed>>
        /\ heap' = Released(S) /\ faults' = faults \cup FreedTwice(S)
    BY FourPlaces DEF MainFree, At, Goto, TypeOK, mainVars
  <1>2. \A u \in Workers :
            /\ pc["main"] \in Past[u] /\ pc'["main"] \in Past[u]
            /\ pc'["main"] \notin Before[u]
    BY <1>1, FourPlaces DEF Before, Past
  <1>3. pc["main"] \notin Freed /\ pc'["main"] \in Freed
    BY <1>1 DEF Freed
  <1>4. PlaceInv'
    BY <1>1, <1>2 DEF PlaceInv
  <1>5. ASSUME NEW u \in Workers, joined[u] # "ok" PROVE heap'[BufferOf[u]] = heap[BufferOf[u]]
    <2>1. BufferOf[u] \in Memory /\ \A t \in Workers : t # u => BufferOf[u] \notin Owned[t]
      BY FourPlaces DEF BufferOf, Memory, Owned
    <2>2. BufferOf[u] \notin S
      BY <1>5, <2>1
    <2> HIDE DEF S
    <2> QED BY <1>1, <2>1, <2>2 DEF Released
  <1>6. HeapInv'
    BY <1>1, <1>3, <1>5 DEF HeapInv, Reclaimed
  <1>7. BadAccessNeedsTimeout' /\ DoubleFreeNeedsFailedInit'
    <2> HIDE DEF S
    <2>1. \A r : <<"bad_access", r>> \in faults' => <<"bad_access", r>> \in faults
      BY <1>1 DEF FreedTwice
    <2>2. \A r : <<"double_free", r>> \in faults' =>
                    <<"double_free", r>> \in faults \/ heap[r] = "freed"
      BY <1>1 DEF FreedTwice
    <2> QED BY <1>1, <1>3, <2>1, <2>2
            DEF HeapInv, BadAccessNeedsTimeout, DoubleFreeNeedsFailedInit
  <1> QED BY <1>4, <1>6, <1>7

\* The steps of main between the barrier and the joins, and its end.
LEMMA WaitKeeps ==
    ASSUME TypeOK, MemInv,
           BarrierPass("main") \/ MainArmTimer \/ MainMask \/ MainTeardown \/ MainDump
    PROVE  MemInv'
  <1> USE DEF MemInv
  <1>1. /\ UNCHANGED <<arrived, joined, memVars>>
        /\ \A u \in Workers : pc'[u] = pc[u]
        /\ \/ /\ pc["main"] \in {"barrier", "settime", "mask", "teardown"}
              /\ pc'["main"] \in {"settime", "mask", "teardown", "join_framegrab"}
           \/ pc["main"] = "dump" /\ pc'["main"] = "exited"
    BY FourPlaces DEF BarrierPass, AfterBarrier, MainArmTimer, MainMask, MainTeardown,
                      MainDump, At, Goto, TypeOK, mainVars, memVars
  <1>2. /\ \A u \in Workers : /\ pc'["main"] \in Past[u] <=> pc["main"] \in Past[u]
                              /\ pc'["main"] \notin Before[u]
        /\ pc'["main"] \in Freed <=> pc["main"] \in Freed
    BY <1>1, FourPlaces DEF Past, Before, Freed
  <1>3. PlaceInv'
    BY <1>1, <1>2 DEF PlaceInv, memVars
  <1>4. HeapInv' /\ BadAccessNeedsTimeout' /\ DoubleFreeNeedsFailedInit'
    BY <1>1, <1>2
       DEF HeapInv, Reclaimed, BadAccessNeedsTimeout, DoubleFreeNeedsFailedInit, memVars
  <1> QED BY <1>3, <1>4

LEMMA MemStep == TypeOK /\ TypeOK' /\ MemInv /\ [Next]_vars => MemInv'
  <1> SUFFICES ASSUME TypeOK, TypeOK', MemInv, [Next]_vars PROVE MemInv'
    OBVIOUS
  <1>1. CASE UNCHANGED <<pc, arrived, joined, memVars>>
    BY <1>1 DEF MemInv, PlaceInv, HeapInv, Reclaimed, BadAccessNeedsTimeout,
                DoubleFreeNeedsFailedInit, memVars
  <1>2. CASE Main
    <2>1. CASE MainJoins
      BY <2>1, JoinKeeps, FourPlaces DEF MainJoins
    <2> QED BY <1>2, <2>1, CreateKeeps, ArriveKeeps, FreeKeeps, WaitKeeps, FourPlaces DEF Main
  <1>3. ASSUME NEW t \in Workers, WorkerMoves(t) \/ Initialises(t) \/ BarrierArrive(t)
        PROVE  MemInv'
    BY <1>3, WorkerKeeps, InitKeeps, ArriveKeeps, FourPlaces
  <1> QED BY <1>1, <1>2, <1>3, Kinds

LEMMA MemoryKept == Spec => []MemInv
  <1>1. Init => TypeInv /\ MemInv
    BY TypeStart, MemStart
  <1>2. TypeInv /\ MemInv /\ [Next]_vars => (TypeInv /\ MemInv)'
    BY TypeStep, MemStep DEF TypeInv
  <1> QED BY <1>1, <1>2, PTL DEF Spec

\* A worker touches memory that is not there only if it outlived the join main gave it,
\* or if another worker that failed to initialise was the owner.
THEOREM BadAccessIsLate == Spec => []BadAccessNeedsTimeout
  BY MemoryKept, PTL DEF MemInv

\* main frees a second time only what a failed initialisation has freed before.
THEOREM DoubleFreeIsFailedInit == Spec => []DoubleFreeNeedsFailedInit
  BY MemoryKept, PTL DEF MemInv
=============================================================================
