# A verification of the synchronome (`src/simple-capture`) and its relatives

The repository is a course's worth of real-time C programs. Its centre is
`src/simple-capture`, the *synchronome*: a V4L2 camera watches a clock, one thread grabs
frames, one finds the frame in which the clock's picture has settled after a tick, one
writes that frame to disk, and a POSIX timer's signal handler releases them. `src/exam2` is
a later, smaller pipeline with the same message queue and sequencer. The other directories
are exercises that lead up to these two.

This directory holds TLA+ modules translated from the C sources, the TLC configurations
that check them on small instances, and proofs for TLAPS of what should hold for every
value of the constants. `PROJECT.json` says which lines every definition stands for.

## 1. Inventory

### The synchronome

| component | source (`src/simple-capture/`) | state it keeps | operations |
|---|---|---|---|
| release handler, timer | `sequencer.c` 26-50, 158-183, 308-361 | `running`, `timer1_it`, the kernel's timer, the queued signal, the static `sequence`, four semaphores | timer expiry, signal delivery, the handler's statements, `ctrl_c`, `dump_logs` |
| main | `sequencer.c` 56-306 | its position, the signal mask, the barrier, the result of each timed join | create threads, barrier, arm timer, mask signal, wait for teardown, timed joins, frees |
| framegrab | `capture.c` 85-313 | frame count, the driver's buffers, `scan_buffer_index` | initialise, wait for a release, dequeue, copy into the ring, give the buffer back, stop after `PROFILE_ITERS` |
| processing | `processing.c` | `did_frame_tick`, the slots it compares, the write-out buffer index | initialise, wait, compare neighbouring slots, ask the detector, copy the tick's frame, send a message |
| tick detector | `motion.c` | `motion_state`, `good_frames_in_a_row` | `is_motion` / `next_motion_state` |
| writeout | `writeout.c`, `transformation.c`, `dumptools.c` | `wo_buffer` | initialise, wait once, receive a message, transform and dump |
| message queue | `queue.c` | the kernel's queue, `enqueue_P_count` | `enqueue_P`, `dequeue_P`, initialise, flush |
| camera buffers | `buffer.c`, `setup.c`, `capture.c` | the mapped buffers, `enqueue_count`, the clean-up level | map, queue, dequeue, stream on and off, unmap |
| memory log | `memlog.c`, `timetools.c` | a circular log per thread | log, dump |
| scheduling | `realtime.c`, `setup.h` | policies and priorities | set priority and processor |

How they interact: the timer's signal runs the handler on *any* thread that does not mask
it, and suspends that thread; the handler posts semaphores; `framegrab` shares the ring
`scan_buffer` with `processing` with no lock, ordered by priority alone; `processing` sends
messages that name a write-out buffer to `writeout`; everybody reads `running` and every
error path clears it; the handler reports the end to `main` through one semaphore, and
`main` joins with a time-out and frees what belonged to threads that were joined.

### The other programs

| component | source | state it keeps | operations | what makes it correct |
|---|---|---|---|---|
| exam2 pipeline | `exam2/*.c` | two queues with one buffer `b` each, five semaphores, `running`, the sums | flush, create, release, ctrl-c, S1, W1 and W2, join, dump | the sum of 1..N arrives; the program ends; every log is complete when it is written |
| deadlock exercises | `example-sync-updated-2/deadlock*.c` | two mutexes, two flags per thread, counts of the resources | lock, timed lock, back off, unlock | both threads finish; nobody unlocks what another holds |
| inversion demonstrations | `example-sync-updated-2/pthread3*.c` | a mutex, `CScnt`, rounds per thread | create, spin, critical section, compute, join | H waits for what is left of L's critical section; the demonstration ends |
| feasibility tests | `feasibility/*.c` | none | completion-time and scheduling-point tests | both agree, and with a simulated schedule |
| schedule simulator | `schedule/schedule.c` | deadline and run time of each service, the events, the misses | one tick under RM, EDF or LLF | a deadline is missed exactly when the theory says so |
| Hamming codes | `hamming/hamming2.c`, `hamming2/*.c` | data, check bits and a parity bit of each byte | write, flip, read | one flipped bit is found and corrected, two are reported |
| earlier sequencers | `jitter/sequencer.c`, `exercise1/ex0.c` | one or two released services | release, measure, print | released on schedule |
| demonstrations | `msg_queue`, `mutex_example`, `simplethread`, `demos`, `rt-clock`, `apollo` | one race, mutex, queue or clock each | | that of the primitive shown |
| tools, statistics | `tools`, `stats`, `simple-capture/wcet`, the cheddar generator | scripts and logs | | offline; no behaviour to model |

The programs share no state; exam2 has the synchronome's queue and sequencer in an earlier
form, the simulator uses the service sets of the feasibility tests.

### What is hard

1. *Interleaving.* The handler can be suspended on one thread while another thread handles
   the next tick. `++` and `--` of shared counters are a load and a store.
2. *Ordering at the start and the end.* No tick before everything is initialised; no
   teardown of a running program; nothing freed under a thread that uses it; somebody left
   to run the handler that wakes `main`.
3. *Interrupted and timed-out calls.* `sem_wait`, `VIDIOC_DQBUF` and `mq_receive` return
   `EINTR` or not, depending on an uninitialised `sa_flags`; `mq_timedsend` and
   `pthread_timedjoin_np` give up.
4. *Partial failure.* A thread whose initialisation failed has freed what `main` will free;
   a counter is stepped whether the call succeeded or not; a time-out of the first of two
   locks does not stop a thread from asking for the second.
5. *State that outlives its meaning.* `did_frame_tick` is never reset; ring slots are
   compared before a frame was copied into them, or while one is; the kernel's queues hold
   what an earlier run left; a frame is compared after its buffer was given back.
6. *Numbers at their edge.* The wrap of `sequence`, the thresholds of the detector, the
   capacity of the queue against a drifting count.

`PROJECT.json` lists each of these under "hazards" at the line where it bites, with the
properties that would catch it.

## 2. The modules

    Sequencer   <-- INSTANCE --  Synchronome      (Synchronome implements Sequencer)
    BoundedFifo <-- INSTANCE --  PQueue           (PQueue implements BoundedFifo)
    Motion      <-- EXTENDS  --  ScanRing         (ScanRing feeds Motion's detector)
    Feasibility <-- EXTENDS  --  Schedule         (the simulator against the tests)
    CameraBuffers, Exam2, Deadlock, Inversion, Ecc   (one program or subsystem each)
    Deadlock, Ecc       <-- EXTENDS -- Exercises   (one of the two is run)
    Inversion, Schedule <-- EXTENDS -- Scheduling  (one of the two is run)
    SequencerProofs    EXTENDS Sequencer
    SynchronomeProofs  EXTENDS Synchronome, INSTANCEs SequencerProofs
    PQueueProofs       EXTENDS PQueue
    ScanRingProofs     EXTENDS ScanRing, and with it Motion
    CameraBuffersProofs, Exam2Proofs   (each EXTENDS its module)
    SchedulingProofs   EXTENDS Schedule, and with it Feasibility, and Inversion
    ExerciseProofs     EXTENDS Deadlock, Ecc

**Sequencer** is the release handler and its timer. One action per statement of the
handler (`TestRunning`, `ReleaseFrame`, `ReleaseProcessing`, `LoadSequence`,
`StoreSequence`, `WrapSequence`, `DisarmTimer`, and four posts in `UnblockEveryone`), on each
thread `h` the kernel may choose: `hpc[h]` is where the handler stands on `h`, and several may
stand in it at once, since the signal is masked only where it is handled. `TimerExpire` queues
the signal, at most once as the kernel does for a timer; `Deliver` starts the handler, which
posts `sem_writeout` first. The rest of the program appears as `ArmTimer`, `Take` and
`Stop`. Post fails silently at `SemMax`. The history `gap` counts ticks since each service
was last released, and is `Unknown` from the start of a second handler until a handler that
is alone releases the service. `DisarmTimer` is what the code does: it clears `it_interval`
and keeps `it_value`, so the "disarmed" timer is armed for one more expiry.

**Synchronome** is the whole life of the program: `main` and the three workers with a
program counter each, one action per blocking call or visible step, and Sequencer's own
actions for the handler, which runs *on* one of these threads and suspends it
(`At(t, l)` needs `hpc[t] = "out"`). `Scheduled(t)` is SCHED_FIFO on one processor: a thread
runs only when every thread above it is `Idle`. With `Fifo = FALSE` any interleaving is
allowed. `intr[t]` records that the call `t` sleeps in will return `EINTR`: a tick does that
if the handler's `sa_flags`, never initialised in the code, happen to lack `SA_RESTART`
(`saRestart` is chosen once); a stop signal may do it in any case. `heap` is what became of
the shared buffers and the camera, `faults` the history of memory freed twice or used when
not allocated: freed pointers are kept by the code, so a second free is one. After `MainFree`
comes `MainDump`, the writing of the logs: `main` waits for the disk there, and a thread that
outlived its join runs once more among the freed buffers. `Happens(k)` is every stop signal
every tick handled while another handler is inside, and every failure, of the kinds
`MayHappen`; `Mishaps` bounds how many there are in all.

**PQueue** is `enqueue_P` and `dequeue_P` of simple-capture between `processing` and
`writeout`, each message staged on the caller's stack. The kernel queue `mq` is a sequence;
`count` is the code's own counter, with `++` and `--` as load and store. A time-out leaves
`count` incremented, an interrupted receive leaves it decremented; both callers then take
`error_exit`, and so does a sender that is refused: the thread is "gone". `Leave` is a caller
that finds `running` cleared. exam2's variant, in which both sides stage in one buffer, is
part of Exam2.
**BoundedFifo** is what a caller would want: a channel that keeps order and capacity.

**Motion** is `next_motion_state`, one operator per state, called with the outcome of a
comparison; `still` and `moved` are history. **ScanRing** adds the ring: `Grab` fills the next
slot, `CompareFrames` and `IsMotion` are the beginning and the end of a comparison of two
neighbouring slots, and a `Grab` may come in between, into either of them. What the
slots show is left out. `frame_changes` counts luminance bytes that differ by more than 35,
`is_motion` asks for more than 50 of them: that is no equality, nor transitive, and rows of
two similar frames can pass it where the frames do not. So every comparison may come out
either way, torn or not.

**CameraBuffers** is the life of the camera's buffers in `frame()` and in the clean-up: the
probes of `camera_check_init`, `request_buffers`, `mmap_buffers` buffer by buffer, the
enqueueing, `try_refocus` control by control, then the loop of `dequeue_buf`, the copy and
`enqueue_buf`. Each call of the driver may fail, and then `video_error_cleanup` falls through
its levels one step at a time (`StopStreaming` ... `CloseCamera`). `start[b]` is the address
the program remembers, `region[b]` who has memory there now: after an unmap another thread's
`malloc` may get the place (`OtherMaps`), and `start` is never cleared. `build` chooses the
threaded program or the stand-alone one, which compares each frame with the one before.
`main`'s clean-up works on its own `video_t`, whose `num_buffers` is 0. The driver
(`granted`, `incoming`, `done`, `streaming`) is modelled from how the code uses it.

**Exam2** is the whole program: `main` (flush, create, join, dump), the release handler one
post at a time, `CtrlC`, and the three threads with one action per statement another thread
can come between. `Runs` is SCHED_FIFO on one processor: W1 above S1 above W2; `main` and the
handlers are on another. `CtrlC` is three posts and then `running = 0`, one step each. W1 has the highest priority, so its steps are only those at which
it may block; S1's and W2's accesses to the counters and to `b` are separate steps. `ret[t]` is
what `sem_wait` returned, which the code looks at after the work. `Interrupt` is a call that
returns `EINTR`. `overlapped` records that `b` was overwritten while another thread's message
was in it, `stopped` that the run was interrupted.

**Deadlock** is the three lock exercises in one specification, `program` chosen in `Init`.
Time is left out: a timed lock gives up whenever its mutex is taken, or fails and ends its
thread, which happens when `EXPONENTIAL_BACKOFF` is chosen and carries `tv_nsec` past a second. A mutex is of the default
kind, which a thread may unlock for another one: `owner` says who has it.

**Inversion** is the four programs that show priority inversion. They differ in the policies,
priorities and processors that `main` and `startService` set up, translated into ranks: what
the four sequences of `pthread_attr_*` calls end in is worked out in `Pthread3Tasks`,
`OkTasks`, `SpinsTasks`, `AmpTasks` and the services' ranks. The rest is one state machine:
the service's `Create`, `Spin` and `Join`, M's `Compute`, and `Enter`, `Burn` and `Leave` of H
and L.

**Feasibility** holds both tests as recursive functions and quantifiers over a set of
services, and the service sets the repository tries them on. **Schedule** extends it with the
simulator: `Tick` is one pass of its engine. (Its `ScheduleInit`, `ScheduleNext` and
`ScheduleSpec` are prefixed because Scheduling extends it together with Inversion.)

**Ecc** is one byte in both emulated memories, `ecclib.c` and `hamming2.c`, written, damaged
and read together, so that both see the same sequence. A word is the set of its positions
that hold a 1, so that parity is the parity of a cardinality. `clean` records whether the
last write of `hamming2.c`, which or's its bits into what is there, met a stray bit: with one,
the word may start out wrong in places nobody flipped. Both repairs of the overall parity
or the right value to the wrong one. (Its definitions are prefixed because
Exercises extends it together with Deadlock.)

**Exercises** puts Deadlock and Ecc into one specification, **Scheduling** does the same with
Inversion and Schedule. The programs share nothing: the initial state says which of the two is
run (`exercise`, `shown`), and the other one does not move. A state of such a run is a state
of one program, and fairness is asked of that one only.

Definitions marked "Mutant" are not part of any specification: each is a plausible bug, put
in place of the definition after it to see that a property notices.

## 3. What TLC checks

| run | module, configuration | checks | shows |
|---|---|---|---|
| `sequencer` | `Sequencer.cfg` | `TypeOK`, `ReleaseOnSchedule` | with the periods 4 and 10, two hosts, all interleavings of handlers and program, overlapping ticks included: each service is released exactly on its period, across the wrap, from the first release on that no other handler meets |
| `synchronome` | `Synchronome.cfg` | `TypeOK`, `TeardownOnlyWhenStopped`, `NoTickBeforeInit`, `BadAccessNeedsTimeout`, `DoubleFreeNeedsFailedInit` | order of start and end, memory, with a stop signal at any moment, or a failing initialisation, or a failing camera |
| `synchronome_live` | `SynchronomeLive.cfg` | `StopsUnlessDeserted`, `RefinesSequencer` | a stopping program ends, unless all its workers have already gone; the threads and the handler together implement Sequencer (with failures and overlapping ticks too: theorem `ImplementsSequencer`) |
| `pqueue` | `PQueue.cfg` | `TypeOK`, `InOrder`, `ImplementsFifo`, `Delivered` | the queue is a bounded FIFO under any interleaving, whatever the counter says; what it accepts reaches the receiver's caller, unless that thread has ended |
| `scan_ring` | `ScanRing.cfg` | `TypeOK`, `MotionTypeOK`, `TickNeedsMotion`, `StartsStill` | neighbouring slots are compared; a tick is a change and then exactly six unchanged comparisons; the search starts after nine |
| `camera` | `CameraBuffers.cfg` | `EveryBufferOnce`, `NoTornFrame`, `StolenNeedsMapFailure` | both builds, every call failing or not: no buffer is lost or in two places while `frame()` loops, whatever the counter counts; no frame is copied that the camera may write to; only a failed `mmap` leads to unmapping memory of another thread |
| `exam2` | `Exam2.cfg` | `OnlyOverlapSpoilsSum`, `NeverRefused`, `UnjoinedLogIsComplete`, `EndsByItself` | stale messages are flushed; nothing but the shared buffer `b` or an interruption can spoil the sum; the counters, though racy, never refuse a message; W1's log is complete though nobody joins W1; the program ends |
| `exercises` | `Exercises.cfg` | `BothUnlessPassed`, `SafeNeverWaits`, `EndsOrDeadlocks` | the time-out loop leaves a thread with both mutexes unless somebody went on after a time-out of its first; "safe" never waits; `deadlock.c` ends, or is deadlocked, and nothing else |
| | | `ErrorsTold`, `ReadsBack`, `ReadRepairs` | the verdict of a read for up to two wrong bits; that it makes nothing worse; what `hamming2.c` repairs |
| `scheduling` | `Scheduling.cfg` | `HAfterL`, `AllOrNothing`, `EndsUnlessSpinning` | H enters only after L, and waits for all of M or for none of it, in all four programs; three of them end, the fourth may spin for ever above L |
| | | `TestsAgree`, `RmMissesAsTested`, `FirstRunEndsAsTested`, `DynamicNeverMisses` | both tests agree; the simulated RM schedule misses a deadline exactly on the sets they refuse, and ends each first run at the computed time; EDF and LLF miss none up to full utilisation |

Three runs show where the code and something the repository says of it part ways:

| run | violated | what happens |
|---|---|---|
| `synchronome_deserted` (`SynchronomeDeserted.cfg`) | `StopEndsProgram` ("unblock everyone") | all workers leave before a tick reaches the else branch; `main` masks the signal; nobody posts `sem_teardown` |
| `camera_teardown` (`CameraBuffersTeardown.cfg`) | `TeardownFreesFrames` ("<free> video(frame) resources") | `main`'s `video_t` counts no buffers, so its clean-up unmaps none |
| `ecc_pw` (`EccPw.cfg`) | `PwRestored` ("restore pW to PW2", "word parity bit error, correcting") | a parity of a whole word that is 1 and should be 0 stays 1, in both memories |

The constants let a reader see more of the same kind. With `"create"` in `MayHappen`,
Synchronome stops in the barrier: `pthread_create` returns a positive error, the code tests
for -1.

What a property leaves open is not counted among the hazards it covers: that two handlers may
load the same `sequence`, so that one tick is not counted and the service waits for one more;
that `processing`, which starts with the slot `framegrab` fills next, may compare a slot while
it is overwritten; that a thread of `deadlock_timeout.c` which went on without its first mutex
unlocks it under its owner; that the scan may
never end (`MotionComes` supposes that it does), that a change during the count is lost, that
a comparison reads slots no frame was copied into, that the mutex of `pthread3amp.c` does not
inherit, deadlines after the simulated time, and what a write of `hamming2.c` over a stray bit
leaves.

### Bounds, and why they are enough

* `sequencer`: the code's periods, and 20, their least common multiple, for the wrap at 300,
  which is another multiple of it; the theorem covers every multiple. Once overlapping
  handlers have taken `sequence` past the wrap it grows, and is folded into the wrap by
  `Past`: nothing but its remainders matters there. `SemMax = 1` because the properties ask
  whether a semaphore is posted, not how often, and the branch of a failing post is taken
  at 1. Two hosts are all an overlap needs, and the proofs cover any number.
* `synchronome`: `FramePeriod = ProcPeriod = Wrap = 1`, so that every tick releases everybody:
  the schedule itself is Sequencer's subject, and a period of 1 gives the threads the most
  releases. `ProfileIters = 1` stops the program after the second frame. `Mishaps = 1`: each
  behaviour has one stop signal, one failed initialisation or one camera failure, or none.
  All four threads are there; `Fifo = TRUE` is the schedule the code asks for. Any number of
  mishaps together, overlapping ticks (`"overlap"` in `MayHappen`; in TLC they double the
  states, and Sequencer has them), any interleaving (`Fifo = FALSE`), failing
  `pthread_create` and longer runs are covered by the theorems of section 4, which state the
  same properties for every value of the constants.
* `synchronome_live` and `synchronome_deserted`: no failures, no stop signal, no overlap; the
  end of profiling (`PROFILE_ITERS`) and errors stop the program. With `Patient = FALSE` a
  timed join may give up on anybody, with `TRUE` only on a thread that never stops.
* `pqueue`: capacity 2 and four messages pass full, empty and reuse. Deadlock is not checked:
  with all messages sent the receiver waits for ever, as it does in the program, or it is
  gone.
* `scan_ring`: the code's ring and thresholds; no bound.
* `camera`: `NumBuf = 3` is the code's `NUM_BUF`; no other bound. The driver grants at most
  what was asked for.
* `exam2`: `N = 4` numbers make two sums, so that W1 sends again while W2 may still hold the
  first; `QueueSize = N` as in the code, where both are 200. `Wrap = 2`, S1 released at every
  tick and W1 and W2 at every second, keep the order of releases; semaphores do not count
  releases that nobody is left to take, and a run has one ctrl-c or one interrupted call. The
  program may stop early (`mpc = "ended"`), hence no deadlock check.
* `exercises`, the locks: none; time is left out, so every order of time-outs is there. Deadlock is not
  checked because one of the programs does.
* `scheduling`, the demonstrations: three rounds of the critical section and up to three of interference, enough
  for M to be caught in the middle; the theorems cover every number.
* `scheduling`, the simulator: `TICKS = 20` is the simulator's own; all sets of up to three services with
  periods up to five, in any order, and all sets of the repository. The simulator ends at
  `TICKS`, so deadlock is not checked. The theorems cover every set and any `TICKS`.
* `exercises` and `ecc_pw`, the codes: three flips reach every pair of wrong bits after a repair, and one more; six bytes,
  the test's own and three that differ in parity. `malloc`'s memory is zero, or has one bit.
  The theorems hold for every byte, every fresh word and any number of flips.

### Fairness

The timer fires, a queued tick is handled by *some* thread and a handler runs on (weak
fairness: nothing but the end of the process disables them for good). `main` has the
highest priority (weak fairness). A worker is preempted again and again, so it gets strong
fairness: if it could run infinitely often it does. Nothing is assumed of the camera.
`MotionComes` says that processing, once scanning, meets a tick: without it the scan spins
above `writeout` on the same processor. `Sequencer` states no fairness: whether somebody
handles the tick that ends the program depends on the threads, which is Synchronome's
subject. In `PQueue` only `writeout` is sure of the processor; nothing forces an interrupt, a
time-out, a stop or a message. In `Exam2` and `Inversion` the
actions carry the scheduler in their guards, so weak fairness of each thread is what SCHED_FIFO
or SCHED_RR gives to the highest one that is ready; the timer goes on, ctrl-c and `EINTR` are
never forced. In `Deadlock` each thread runs unless it is blocked; no property says that a
time-out helps, since two threads can time out in step for ever. `CameraBuffers`, `Schedule`
and `Ecc` state no liveness.

## 4. What is proved

Every safety and action property that a passing run checks is also a theorem,
for every value of the constants that satisfies the modules' `ASSUME`s.

| theorem | module | states |
|---|---|---|
| `TypeCorrect` | SequencerProofs | `Spec => []TypeOK`, any number of threads, overlaps allowed |
| `OnSchedule` | SequencerProofs | `Spec => []ReleaseOnSchedule`, overlaps allowed |
| `ImplementsSequencer` | SynchronomeProofs | `Spec => RefinesSequencer` |
| `ReleasesOnSchedule` | SynchronomeProofs | the schedule, carried over to the real threads |
| `TypeCorrect` | SynchronomeProofs | `Spec => []TypeOK` |
| `TeardownWaitsForStop` | SynchronomeProofs | `Spec => []TeardownOnlyWhenStopped` |
| `TicksWaitForInit` | SynchronomeProofs | `Spec => []NoTickBeforeInit` |
| `BadAccessIsLate` | SynchronomeProofs | `Spec => []BadAccessNeedsTimeout` |
| `DoubleFreeIsFailedInit` | SynchronomeProofs | `Spec => []DoubleFreeNeedsFailedInit` |
| `QueueTypeCorrect`, `QueueInOrder`, `QueueIsFifo` | PQueueProofs | types; order; refinement of BoundedFifo |
| `DetectorTypeCorrect`, `TicksAreMotion`, `SearchNeedsStill` | ScanRingProofs | types; what a tick and the start of the search mean |
| `RingTypeCorrect`, `ImplementsDetector` | ScanRingProofs | types; `Spec => MotionSpec` |
| `HAfterLTheorem`, `AllOrNothingTheorem` | SchedulingProofs | `Spec => []HAfterL`, `Spec => []AllOrNothing`, for every length of the critical section and of the interference |
| `EveryBufferOnceTheorem`, `NoTornFrameTheorem`, `StolenNeedsMapFailureTheorem` | CameraBuffersProofs | the three properties of the run, for every number of buffers |
| `NeverRefusedTheorem`, `OnlyOverlapSpoilsSumTheorem`, `UnjoinedLogIsCompleteTheorem` | Exam2Proofs | the three safety properties of the run, for every even `N`, size of the queues and period |
| `TestsAreTheSame`, `TestsAgreeTheorem` | SchedulingProofs | the two feasibility tests have the same verdict on every set for which the first one ends |
| `ScheduleTypeTheorem` | SchedulingProofs | types, and where each service of the simulation is in its period |
| `RmMissesAsTestedTheorem`, `FirstRunEndsAsTestedTheorem` | SchedulingProofs | the rate monotonic simulation misses, and ends first runs, as the completion time test says: every set, any simulated time |
| `DynamicNeverMissesTheorem` | SchedulingProofs | EDF and LLF miss nothing up to full utilisation |
| `BothUnlessPassedTheorem`, `SafeNeverWaitsTheorem` | ExerciseProofs | both safety properties of the lock exercises |
| `ErrorsToldTheorem`, `ReadsBackTheorem`, `ReadRepairsTheorem` | ExerciseProofs | the two invariants and the action property of the Hamming codes, for every byte and any number of flips |

The arguments, and why the properties alone are not inductive:

* *Schedule.* `ReleaseOnSchedule` speaks of the moment a service is tested. At every other
  point one must know the ticks since its last release too: they are the remainder of
  `sequence` between the release and the step of `sequence` (`CountedInside`), and elsewhere
  the remainder or, where that is zero, a whole period (`DueOutside`). Both speak of the gaps
  that are known (`Known`): an overlap makes every gap unknown, and the next release by a
  handler that is alone makes it known again, at zero. While some gap is known only one
  handler is inside, and the value its `++` loaded is still the value when it stores
  (`Undisturbed`: `OneHandler`, `StoreIsFresh`). An overlap may step over the test for the
  wrap; `Past` folds what follows onto a finite range without changing a remainder
  (`PastKeeps`). For the wrap the modules assume that it is a multiple of both periods, as the
  code's 300 is of 4 and 10.
* *Refinement of the handler.* A step of a thread is a step of Sequencer or leaves its
  variables alone; only `main` arms the timer (`StepKinds`). SequencerProofs is then
  instantiated with the real threads for its hosts.
* *Types of the synchronome.* Two counters are bounded by where threads are (`CountsEnd`):
  no frame is counted after the one that stops the program, since `running` never rises
  again (`RunningFalls`); no message is sent after the first, since `did_frame_tick` stays.
* *Teardown.* `main` leaves its wait by a post or by `EINTR`. A post comes from the else
  branch, which is entered only when `running` is clear and never sets it (`HandlerStops`);
  `EINTR` comes from a stop signal, because the timer's is masked by then (`StopInv`).
* *Start.* A pending tick, a handler inside or an armed timer imply that all four threads
  arrived (`StartInv`).
* *Memory.* `PlaceInv`: who works has passed the barrier, so everybody was initialised or
  has failed; who failed leaves at once; a join says "ok" only of a thread that is gone.
  `HeapInv`: a buffer is there from its owner's initialisation until `main` frees it after
  an "ok". A thread that misses a buffer therefore has either a colleague that failed to
  initialise, or `main` has freed and its own join has timed out (`WhatIsThere`).
* *Queue.* `InOrder` is nearly inductive; what is missing is that the sender's stage holds the message of this call when it sends (`Staged`). The
  counter is bounded from above by who writes it (`CountBelow`): only the sender raises it,
  and between its check and its store the receiver can only store something lower.
* *Detector.* `Remembers`: the detector's state and counter are all it knows about the past,
  and each state means something exact: in `COUNTING` the picture has been still for one
  comparison more than the counter says, after a change. The proofs need no lower bound on
  the thresholds.
* *Ring.* ScanRing implements MotionSpec, so the detector's theorems hold of it: whichever
  verdict a comparison gives, torn or not, the detector takes it as one of its own steps.
* *Inversion.* `HAfterL` needs that the service passes its spin loop only when L has entered
  (`SpinInv`), that the mutex is held exactly by who is in the critical section (`OwnerInv`),
  and what `CScnt` then counts (`CountInv`). `AllOrNothing` needs the ranks: in each program M
  is above L and below H (lemma `Ranks`), so L's unlock cannot run while M is ready
  (`LOnlyWithoutM`), and from then on M is not started or done (`HeldUpInv`).
* *Induction.* The library's induction theorems take an operator, which no prover here can
  instantiate; but a set of numbers that is not empty has a least member (`LeastNatural`, from
  the well-foundedness of < on Nat), and the set may be that of the counterexamples. That gives
  induction (`UpTo`), functions by recursion (`RecursionExists`), and what `SumTo` computes
  (`SumToRule`) with the laws of sums the other proofs use. Nothing about recursion is assumed.
* *Feasibility tests.* `CompletionTime` is a recursive function over all numbers, whose
  equation need not determine it: `SettlingExists` gives a function that satisfies it, and
  `SettlingLeast` shows that any such function, started below, returns the least value that
  stays. Demand rises with time, so where some time holds its demand there is a value that stays
  (`RisingStays`), and a set that "settles" has such a time: the services before i ask for less
  than the whole of a hyperperiod, so their demand grows more slowly than time (`LoadMultiple`,
  `SettlesRule`). The completion time is then the least time that holds all that is asked for
  (`CompletionTimeLeast`). Demand changes only after a multiple of some period, so the last such
  multiple within service i's period holds its demand if any time in it does (`PointsNeeded`).
* *Simulator, EDF and LLF.* `ScheduleTypeInv` says where each service is: its deadline is its
  period times its releases so far, less the time. `Demanded` is inductive: for every x, what
  the services ask for until x ticks from now is at most x. It starts from the utilisation
  (`Utilisation`), and a release in time changes nothing (`ReleaseAsks`). For a tick
  (`TickDemanded`): if whoever runs is due within x + 1 ticks, one tick is taken off what was
  asked for; if nobody with work is, those that are due have finished and the utilisation alone
  bounds what they ask for; and if LLF runs a service that is due later, its laxity is at most x,
  so what is left of its own run makes the room. At x = 0 nobody misses (`NoneMissed`).
* *Simulator, RM.* `RmMissesAsTested` speaks of the last tick only. `Window` is inductive: for
  each service i there is a time u, less than i's completion time ago, since when every tick
  went to the services before i or to the run of i that is not over, and that run was released
  at u or after. A tick goes on with it or starts a new one (`WindowTick`); it cannot reach the
  completion time, because demand in any stretch is at most that from the start
  (`LoadSubadditive`) and all of it would then have been done (`WindowShort`). A service that
  misses has been kept for a whole period, so its completion time is longer than that
  (`FeasibleMissesNone`). For the other direction `FirstRun` follows the first run of i exactly:
  until it is over, the backlog before i and the time add up to what was asked for before i and
  what i has run, so it ends at a time that is its own demand.
* *Camera buffers.* While `frame()` loops, every buffer is with the driver, waiting there
  filled, or the one in hand (`QueueInv`: `Complete`, and `Distinct` so that none is counted
  twice). `EveryBufferOnce` is not inductive without knowing what set-up leaves: which buffers
  are mapped at each point (`MapInv`) and that each was queued once, in order. The frame last copied stays untouched because it went to the end of a
  queue that is worked off in order. `StolenNeedsMapFailure` is inductive
  with `CleanInv`: unless `mmap` failed, which unmaps what came before it, the clean-up finds
  everything it unmaps still mapped by the camera.
* *Exam2.* The counters are bounded from above by what was really sent and taken: a stale
  write-back loses an increment or a decrement, but each writer's store is never above what it
  loaded plus one (`S1Inv`, `W1Inv`), which is why no send is refused. The sum has a closed form:
  the k-th message of the second queue is (2k - 1) + 2k and after n of them the total is
  n(2n + 1), as long as nothing was overlapped or stopped (`FlowInv`). The unjoined log is
  complete because S1, which `main` joins, ends only after W1 has posted its own end
  (`StopInv`).
* *Lock exercises.* A mutex is owned by exactly the thread whose position says so (`OwnInv`), as
  long as nobody went on without its first; a thread between its two locks has the first flag
  set and the second not (`FlagInv`); the counts follow (`CountInv`). With "safe" the second
  thread is not created before the first is done (`Apart`).
* *Hamming codes.* Parities are linear: the parities of a difference are the difference of the
  parities (`ParitiesToggle`, from the cardinality of a symmetric difference), and those of a
  whole word are zero (`WordFacts`). So a read sees only the bits that are wrong (`WrongBits`).
  Different positions have different parities (`OnesDiffer`), which tells one wrong bit where
  it is (`PositionOfOne`) and makes two of them visible (`TwoWrong`); the parity of the whole
  word tells one from two. The only invariant needed is `WordInv`: a write that met no stray
  bit leaves the exact word (`WriteClean`).

## 5. What is only model-checked

* Liveness: `StopsUnlessDeserted`, `Delivered`, `EndsByItself`,
  `EndsOrDeadlocks`, `EndsUnlessSpinning`. The provers have no rule for fairness.
* The runs that find a violation; a theorem there would be about the opposite.
* Nothing is said of the sets for which the completion time test does not end (`Settles` fails).

## 6. What is not modelled, and why

* The contents of frames, pixel arithmetic and file output (`transformation.c`, `sharpen.c`,
  `dumptools.c`): no state survives a call. That `processing` no longer copies the tick's
  frame into the buffer its message names (`processing.c:111`, compiled out) is therefore
  not visible.
* `init_queues`, the semaphores' initialisation, opening the camera: before there is a
  second thread, and a failure ends the process.
* In Synchronome the clean-up levels of the camera are collapsed into "live" and "freed";
  CameraBuffers has them, the driver's buffers, their mapping and `enqueue_count`.
* A driver that grants more buffers than asked for. The index of the write-out buffer.
* `memlog.c` and `timetools.c`: a circular log for offline evaluation that nothing reads back.
* In Exam2: the exits of `main` before the threads exist, the test of `pthread_create`, and
  full queues of the kernel, which hold more than is ever sent.
* Lengths of time-outs and sleeps; printed tables and statistics.
* `exit(-1)` where `timer_settime` fails (`sequencer.c:336-339`): it is given a timer that
  exists and a constant, and cannot fail. The error exit of Synchronome's processing when
  `enqueue_P` refuses (`processing.c:134-136`): one message is ever sent. PQueue has refusals.
* The pixels behind a comparison (`motion.c:118-142`): a verdict is a choice, and what is kept
  is which pictures it read and whether one of them was being overwritten.
* The quotient by `period[i]` with `i` unset (`feasibility_tests_updated.c:131`): its value is
  never used.
* Timer overruns are not read by the code; expiries merge in `TimerExpire` as in the kernel.
* Signals to a thread in `pthread_barrier_wait` or `pthread_timedjoin_np` run their handler
  and the call goes on.
* `v4l2_capabilities.c`, `wcet/`, `stats/`, `tools/`, the cheddar generator and
  `hamming/hamming.c`: printing and offline evaluation.
* `jitter/sequencer.c` and `exercise1/ex0.c`: their releases are Sequencer's with other
  periods; what is new in them is measured time.
* The small demonstrations: no behaviour beyond that of the primitive shown.
* `enqueue_V42L_frame` and `dequeue_V42L_frame`: nothing calls them.

## 7. What is left

1. Exam2 as two PQueues: that without an overlap each of its queues implements BoundedFifo.
2. `memlog.c`, should its entries ever be read by the program.
