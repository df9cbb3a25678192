-------------------------------- MODULE Exam2 --------------------------------
(***************************************************************************)
(* The pipeline of exam2: S1 sends the numbers 1 .. N to W1_Q, W1 adds     *)
(* them up in pairs and sends the sums to W2_Q, W2 adds those up.  A timer *)
(* releases the three through semaphores.  They are SCHED_FIFO threads of  *)
(* one processor, W1 above S1 above W2; main, which joins them and writes  *)
(* their logs, and the signal handlers it runs are on another.  Each queue *)
(* has one buffer b, through which sender and receiver both move messages, *)
(* and the message queues of the kernel outlive the program.               *)
(***************************************************************************)
EXTENDS Integers, Sequences

CONSTANTS
    N,         \* how many numbers S1 sends (200)
    QueueSize, \* EXAM2_Q_SZ (200)
    EveryS1, EveryW1, EveryW2, \* how many ticks a release of each takes (5, 10, 100)
    Wrap       \* where seq_count starts again (500)

Threads == {"S1", "W1", "W2"}
Queues == {"W1_Q", "W2_Q"}

ASSUME Exam2Assumption ==
    /\ N \in Nat /\ N >= 2 /\ N % 2 = 0
    /\ QueueSize \in Nat /\ QueueSize >= N
    /\ Wrap \in Nat \ {0}
    /\ {EveryS1, EveryW1, EveryW2} \subseteq 1 .. Wrap

VARIABLES
    running,
    timer,       \* the release handler: "off", or the thread it releases next
    ctrl,        \* ctrl_c: "off", the thread it releases next, "clear" or "over"
    seq_count,
    sem,         \* the value of each semaphore
    mpc, pc,     \* where main and the threads are
    ret,         \* ret[t]: the last sem_wait of t returned 0
    mq, b, count, \* of each queue: its messages, its buffer, its sanity counter
    loaded,      \* the counter as a thread that may be preempted has read it
    sent,        \* S1: count
    num1, num2, w2_dequeue_count,  \* W1
    get, total_sum, total_count,   \* W2
    stopped,     \* history: ctrl_c ran, or a blocking call returned EINTR
    overlapped   \* history: a buffer was overwritten while another thread used it

ctlVars == <<running, timer, ctrl, seq_count, sem, mpc>>
queueVars == <<mq, b, count, loaded>>
s1Vars == <<sent>>
w1Vars == <<num1, num2, w2_dequeue_count>>
w2Vars == <<get, total_sum, total_count>>
history == <<stopped, overlapped>>
vars == <<ctlVars, pc, ret, queueVars, s1Vars, w1Vars, w2Vars, history>>

Semaphores == Threads \cup {"running_W1", "running_W2"}
Stale == N + 1 \* a message an earlier run of the program left in a queue

\* The message queues are as the last run left them.
Init ==
    /\ running = TRUE
    /\ timer = "off" /\ ctrl = "off" /\ seq_count = 0
    /\ sem = [s \in Semaphores |-> 0]
    /\ mpc = "flush"
    /\ pc = [t \in Threads |-> "none"]
    /\ ret = [t \in Threads |-> TRUE]
    /\ mq \in [Queues -> {<<>>, <<Stale>>}]
    /\ b = [q \in Queues |-> 0] /\ count = [q \in Queues |-> 0]
    /\ loaded = [q \in Queues |-> 0]
    /\ sent = 0 /\ num1 = 0 /\ num2 = 0 /\ w2_dequeue_count = 0
    /\ get = 0 /\ total_sum = 0 /\ total_count = 0
    /\ stopped = FALSE /\ overlapped = FALSE

\* The rounds a thread may still make: releases nobody is left to take are not counted,
\* which bounds the semaphores.
RoundsLeft(t) ==
    CASE pc[t] = "done" -> 0
      [] pc[t] # "done" /\ t = "S1" -> N - sent
      [] pc[t] # "done" /\ t = "W1" -> (N - w2_dequeue_count) \div 2
      [] pc[t] # "done" /\ t = "W2" -> (N \div 2) - total_count

\* sem_post
Released(t) == [sem EXCEPT ![t] = IF @ < RoundsLeft(t) THEN @ + 1 ELSE @]
Posted(s) == [sem EXCEPT ![s] = @ + 1]

Every(t) == CASE t = "S1" -> EveryS1 [] t = "W1" -> EveryW1 [] t = "W2" -> EveryW2

\* HIGH_PRI, MID_PRI and LOW_PRI
Above(t) == CASE t = "W1" -> {} [] t = "S1" -> {"W1"} [] t = "W2" -> {"W1", "S1"}
SemOf(t) ==
    CASE pc[t] = "wait" -> {t} [] pc[t] = "await_W1" -> {"running_W1"}
      [] pc[t] = "await_W2" -> {"running_W2"} [] OTHER -> {}
Inbox(t) == IF t = "W1" THEN "W1_Q" ELSE "W2_Q"
Sleeps(t) ==
    \/ \E s \in SemOf(t) : sem[s] = 0
    \/ pc[t] \in {"receive_1", "receive_2"} /\ mq[Inbox(t)] = <<>>
Ready(t) == pc[t] \notin {"none", "done"} /\ ~Sleeps(t)
Runs(t, at) ==
    /\ pc[t] = at /\ mpc # "ended"
    /\ Ready(t) /\ \A u \in Above(t) : ~Ready(u)

Goto(t, at) == pc' = [pc EXCEPT ![t] = at]

-----------------------------------------------------------------------------
\* main

\* Mutant: W2_Q is not flushed.
FlushFirst ==
    /\ mpc = "flush" /\ mpc' = "create"
    /\ mq' = [mq EXCEPT !["W1_Q"] = <<>>]
    /\ UNCHANGED <<running, timer, ctrl, seq_count, sem, pc, ret, b, count, loaded,
                   s1Vars, w1Vars, w2Vars, history>>

\* init_queue opens what may be there already, flush_queue empties it without blocking
Flush ==
    /\ mpc = "flush" /\ mpc' = "create"
    /\ mq' = [q \in Queues |-> <<>>]
    /\ UNCHANGED <<running, timer, ctrl, seq_count, sem, pc, ret, b, count, loaded,
                   s1Vars, w1Vars, w2Vars, history>>

\* pthread_create of the three threads, the last of them also into thread_W1, and the timer
Create ==
    /\ mpc = "create" /\ mpc' = "join_S1"
    /\ pc' = [t \in Threads |-> "loop"]
    /\ timer' = "S1"
    /\ UNCHANGED <<running, ctrl, seq_count, sem, ret, queueVars, s1Vars, w1Vars, w2Vars, history>>

\* Mutant: none of the three is the id of a thread.
JoinUnset ==
    /\ \/ mpc = "join_S1" /\ mpc' = "join_W2"
       \/ mpc = "join_W2" /\ mpc' = "join_unset"
       \/ mpc = "join_unset" /\ mpc' \in {"dump", "ended"}
    /\ UNCHANGED <<running, timer, ctrl, seq_count, sem, pc, ret, queueVars, s1Vars, w1Vars, w2Vars, history>>

\* pthread_join of thread_S1, of thread_W1, which is W2, and of thread_W2, which was never
\* set: that call returns ESRCH or crashes the program.
Join ==
    /\ \/ mpc = "join_S1" /\ pc["S1"] = "done" /\ mpc' = "join_W2"
       \/ mpc = "join_W2" /\ pc["W2"] = "done" /\ mpc' = "join_unset"
       \/ mpc = "join_unset" /\ mpc' \in {"dump", "ended"}
    /\ UNCHANGED <<running, timer, ctrl, seq_count, sem, pc, ret, queueVars, s1Vars, w1Vars, w2Vars, history>>

\* The three logs are written, and the program ends with whatever thread still runs.
Dump ==
    /\ mpc = "dump" /\ mpc' = "ended"
    /\ UNCHANGED <<running, timer, ctrl, seq_count, sem, pc, ret, queueVars, s1Vars, w1Vars, w2Vars, history>>

-----------------------------------------------------------------------------
\* the handlers

\* The handler tests running, then posts the semaphores one after the other; the threads
\* run meanwhile.
Release(t) ==
    /\ timer = t /\ mpc # "ended"
    /\ t = "S1" => running
    /\ timer' = (CASE t = "S1" -> "W1" [] t = "W1" -> "W2" [] t = "W2" -> "S1")
    /\ sem' = IF seq_count % Every(t) = 0 THEN Released(t) ELSE sem
    /\ seq_count' = IF t = "W2" THEN (seq_count + 1) % Wrap ELSE seq_count
    /\ UNCHANGED <<running, ctrl, mpc, pc, ret, queueVars, s1Vars, w1Vars, w2Vars, history>>

\* The first ctrl-c: three posts, then running = 0; a thread it releases before that goes
\* round once more.
CtrlC ==
    /\ mpc # "ended"
    /\ \/ /\ ctrl = "off" /\ running /\ ~stopped /\ timer # "off"
          /\ sem' = Released("S1") /\ ctrl' = "W1" /\ UNCHANGED running
       \/ ctrl = "W1" /\ sem' = Released("W1") /\ ctrl' = "W2" /\ UNCHANGED running
       \/ ctrl = "W2" /\ sem' = Released("W2") /\ ctrl' = "clear" /\ UNCHANGED running
       \/ ctrl = "clear" /\ running' = FALSE /\ ctrl' = "over" /\ UNCHANGED sem
    /\ stopped' = TRUE
    /\ UNCHANGED <<timer, seq_count, mpc, pc, ret, queueVars, s1Vars, w1Vars, w2Vars, overlapped>>

-----------------------------------------------------------------------------
\* steps the threads share

Loop(t) ==
    /\ Runs(t, "loop")
    /\ Goto(t, IF running THEN "wait" ELSE "done")
    /\ UNCHANGED <<ctlVars, ret, queueVars, s1Vars, w1Vars, w2Vars, history>>

\* What comes first: S1 counts a number, dequeue_P of W1 counts down before it blocks.
StartWork(t) ==
    /\ Goto(t, CASE t = "S1" -> "load" [] t = "W1" -> "receive_1" [] t = "W2" -> "dequeue")
    /\ sent' = IF t = "S1" THEN sent + 1 ELSE sent
    /\ count' = IF t = "W1" THEN [count EXCEPT !["W1_Q"] = @ - 1] ELSE count

\* sem_wait of the thread's own semaphore: what it returns is looked at after the work
SemWait(t) ==
    /\ Runs(t, "wait")
    /\ sem' = [sem EXCEPT ![t] = @ - 1]
    /\ ret' = [ret EXCEPT ![t] = TRUE]
    /\ StartWork(t)
    /\ UNCHANGED <<running, timer, ctrl, seq_count, mpc, mq, b, loaded, w1Vars, w2Vars, history>>

\* A handler ran in a thread that sleeps, main being busy with the one before: sem_wait or
\* mq_receive returns EINTR, and W2 may add a `get' it never initialised.  Bound: one such call or one ctrl-c a run.
Interrupt(t) ==
    /\ ~stopped /\ mpc # "ended"
    /\ Sleeps(t)
    /\ stopped' = TRUE
    /\ ret' = [ret EXCEPT ![t] = pc[t] # "wait" /\ @]
    /\ \/ pc[t] = "wait" /\ StartWork(t)
       \/ /\ pc[t] # "wait"
          /\ Goto(t, CASE pc[t] = "await_W1" -> "await_W2" [] pc[t] = "await_W2" -> "stop"
                       [] pc[t] = "receive_2" -> "send"
                       [] pc[t] = "receive_1" -> IF t = "W1" THEN "receive_2" ELSE "add")
          /\ count' = IF t = "W1" /\ pc[t] = "receive_1" THEN [count EXCEPT !["W1_Q"] = @ - 1] ELSE count
          /\ UNCHANGED sent
    /\ get' \in IF t = "W2" /\ pc[t] = "receive_1" /\ total_count = 0 THEN {0, 1} ELSE {get}
    /\ UNCHANGED <<ctlVars, mq, b, loaded, w1Vars, total_sum, total_count, overlapped>>

-----------------------------------------------------------------------------
\* S1

Sent == Goto("S1", IF sent = N THEN "await_W1" ELSE IF ret["S1"] THEN "loop" ELSE "done")

\* enqueue_P reads the counter ...
S1Load ==
    /\ Runs("S1", "load")
    /\ loaded' = [loaded EXCEPT !["W1_Q"] = count["W1_Q"]]
    /\ IF count["W1_Q"] = QueueSize THEN Sent ELSE Goto("S1", "store")
    /\ UNCHANGED <<ctlVars, ret, mq, b, count, s1Vars, w1Vars, w2Vars, history>>

\* Mutant: the message is counted twice.
S1StoreTwice ==
    /\ Runs("S1", "store")
    /\ count' = [count EXCEPT !["W1_Q"] = loaded["W1_Q"] + 2]
    /\ b' = [b EXCEPT !["W1_Q"] = sent]
    /\ Goto("S1", "send")
    /\ UNCHANGED <<ctlVars, ret, mq, loaded, s1Vars, w1Vars, w2Vars, history>>

\* ... writes it back one larger, whatever W1 made of it meanwhile, copies the number to b,
S1Store ==
    /\ Runs("S1", "store")
    /\ count' = [count EXCEPT !["W1_Q"] = loaded["W1_Q"] + 1]
    /\ b' = [b EXCEPT !["W1_Q"] = sent]
    /\ Goto("S1", "send")
    /\ UNCHANGED <<ctlVars, ret, mq, loaded, s1Vars, w1Vars, w2Vars, history>>

\* ... and sends what is in b by then.
S1Send ==
    /\ Runs("S1", "send")
    /\ mq' = [mq EXCEPT !["W1_Q"] = Append(@, b["W1_Q"])]
    /\ Sent
    /\ UNCHANGED <<ctlVars, ret, b, count, loaded, s1Vars, w1Vars, w2Vars, history>>

\* sem_wait(&running_W1), sem_wait(&running_W2)
S1Await ==
    /\ \/ Runs("S1", "await_W1") /\ Goto("S1", "await_W2")
       \/ Runs("S1", "await_W2") /\ Goto("S1", "stop")
    /\ sem' = [s \in Semaphores |-> IF s \in SemOf("S1") THEN sem[s] - 1 ELSE sem[s]]
    /\ UNCHANGED <<running, timer, ctrl, seq_count, mpc, ret, queueVars, s1Vars, w1Vars, w2Vars, history>>

S1Stop ==
    /\ Runs("S1", "stop")
    /\ running' = FALSE
    /\ Goto("S1", IF ret["S1"] THEN "loop" ELSE "done")
    /\ UNCHANGED <<timer, ctrl, seq_count, sem, mpc, ret, queueVars, s1Vars, w1Vars, w2Vars, history>>

-----------------------------------------------------------------------------
\* W1, which nothing preempts: its steps are those at which it may block

\* mq_receive moves the message through b, where S1 may have put one it has yet to send.
W1Receive ==
    /\ \/ /\ Runs("W1", "receive_1") /\ Goto("W1", "receive_2")
          /\ num1' = Head(mq["W1_Q"]) /\ UNCHANGED num2
          /\ count' = [count EXCEPT !["W1_Q"] = @ - 1]
       \/ /\ Runs("W1", "receive_2") /\ Goto("W1", "send")
          /\ num2' = Head(mq["W1_Q"]) /\ UNCHANGED <<num1, count>>
    /\ mq' = [mq EXCEPT !["W1_Q"] = Tail(@)]
    /\ b' = [b EXCEPT !["W1_Q"] = Head(mq["W1_Q"])]
    /\ overlapped' = (overlapped \/ pc["S1"] = "send")
    /\ UNCHANGED <<ctlVars, ret, loaded, s1Vars, w2_dequeue_count, w2Vars, stopped>>

\* enqueue_P to W2_Q, unless the counter says it is full
SendSum ==
    IF count["W2_Q"] = QueueSize
    THEN UNCHANGED <<mq, b, count, overlapped>>
    ELSE /\ count' = [count EXCEPT !["W2_Q"] = @ + 1]
         /\ b' = [b EXCEPT !["W2_Q"] = num1 + num2]
         /\ mq' = [mq EXCEPT !["W2_Q"] = Append(@, num1 + num2)]
         /\ overlapped' = (overlapped \/ pc["W2"] = "copy")

\* Mutant: one number too many is expected.
W1SendMore ==
    /\ Runs("W1", "send")
    /\ w2_dequeue_count' = w2_dequeue_count + 2
    /\ SendSum
    /\ IF ret["W1"] /\ w2_dequeue_count' > N
       THEN sem' = Posted("running_W1") /\ Goto("W1", "done")
       ELSE UNCHANGED sem /\ Goto("W1", IF ret["W1"] THEN "loop" ELSE "done")
    /\ UNCHANGED <<running, timer, ctrl, seq_count, mpc, ret, loaded, s1Vars, num1, num2, w2Vars, stopped>>

\* The sum is sent, and S1 is told when it was the last one.
W1Send ==
    /\ Runs("W1", "send")
    /\ w2_dequeue_count' = w2_dequeue_count + 2
    /\ SendSum
    /\ IF ret["W1"] /\ w2_dequeue_count' > N - 2
       THEN sem' = Posted("running_W1") /\ Goto("W1", "done")
       ELSE UNCHANGED sem /\ Goto("W1", IF ret["W1"] THEN "loop" ELSE "done")
    /\ UNCHANGED <<running, timer, ctrl, seq_count, mpc, ret, loaded, s1Vars, num1, num2, w2Vars, stopped>>

-----------------------------------------------------------------------------
\* W2

\* dequeue_P: the counter is read, then written back one smaller
W2Dequeue ==
    /\ \/ /\ Runs("W2", "dequeue") /\ Goto("W2", "store")
          /\ loaded' = [loaded EXCEPT !["W2_Q"] = count["W2_Q"]]
          /\ UNCHANGED count
       \/ /\ Runs("W2", "store") /\ Goto("W2", "receive_1")
          /\ count' = [count EXCEPT !["W2_Q"] = loaded["W2_Q"] - 1]
          /\ UNCHANGED loaded
    /\ UNCHANGED <<ctlVars, ret, mq, b, s1Vars, w1Vars, w2Vars, history>>

\* The message is in b, and W1 may preempt W2 before it is copied out.
W2Receive ==
    /\ Runs("W2", "receive_1") /\ Goto("W2", "copy")
    /\ b' = [b EXCEPT !["W2_Q"] = Head(mq["W2_Q"])]
    /\ mq' = [mq EXCEPT !["W2_Q"] = Tail(@)]
    /\ UNCHANGED <<ctlVars, ret, count, loaded, s1Vars, w1Vars, w2Vars, history>>

W2Copy ==
    /\ Runs("W2", "copy") /\ Goto("W2", "add")
    /\ get' = b["W2_Q"]
    /\ UNCHANGED <<ctlVars, ret, queueVars, s1Vars, w1Vars, total_sum, total_count, history>>

\* total_count is tested after each message, and its last one ends W2.
W2Add ==
    /\ Runs("W2", "add")
    /\ total_sum' = total_sum + get
    /\ total_count' = total_count + 1
    /\ IF ret["W2"] /\ total_count' = N \div 2
       THEN sem' = Posted("running_W2") /\ Goto("W2", "done")
       ELSE UNCHANGED sem /\ Goto("W2", IF ret["W2"] THEN "loop" ELSE "done")
    /\ UNCHANGED <<running, timer, ctrl, seq_count, mpc, ret, queueVars, s1Vars, w1Vars, get, history>>

-----------------------------------------------------------------------------
Main == Flush \/ Create \/ Join \/ Dump
Handlers == \E t \in Threads : Release(t)
S1 == Loop("S1") \/ SemWait("S1") \/ S1Load \/ S1Store \/ S1Send \/ S1Await \/ S1Stop
W1 == Loop("W1") \/ SemWait("W1") \/ W1Receive \/ W1Send
W2 == Loop("W2") \/ SemWait("W2") \/ W2Dequeue \/ W2Receive \/ W2Copy \/ W2Add

Next == Main \/ Handlers \/ S1 \/ W1 \/ W2 \/ CtrlC \/ \E t \in Threads : Interrupt(t)

\* The scheduler runs the highest thread that is ready, and the timer goes on.
Fairness == WF_vars(Main) /\ WF_vars(Handlers) /\ WF_vars(S1) /\ WF_vars(W1) /\ WF_vars(W2)

Spec == Init /\ [][Next]_vars /\ Fairness

-----------------------------------------------------------------------------
\* W2 ends with the sum of 1 .. N: what an earlier run left is gone, no number is lost or
\* added twice, unless a thread used the buffer b of a queue while another had a message in
\* it, or the program was interrupted.
OnlyOverlapSpoilsSum ==
    total_count = N \div 2 /\ pc["W2"] = "done"
        => total_sum = (N * (N + 1)) \div 2 \/ overlapped \/ stopped

\* enqueue_P never finds its sanity counter at the limit, although the counter is stepped
\* by two threads without a lock and keeps what a preempted update makes of it.
NeverRefused ==
    /\ pc["S1"] = "load" => count["W1_Q"] < QueueSize
    /\ pc["W1"] = "send" => count["W2_Q"] < QueueSize

\* main never joins W1, and dumps W1's log all the same: unless the program was stopped, W1
\* has made its last entry by then.
UnjoinedLogIsComplete == mpc = "dump" /\ ~stopped => pc["W1"] = "done"

\* Left alone, the program ends, whatever the order in which releases and messages come.
EndsByItself == <>(mpc = "ended" \/ stopped)
=============================================================================
