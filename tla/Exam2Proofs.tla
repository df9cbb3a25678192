----------------------------- MODULE Exam2Proofs -----------------------------
(***************************************************************************)
(* The pipeline of exam2 for any N and any periods: the sum W2 ends with,  *)
(* the sanity counters, and the log of the thread main does not join.      *)
(***************************************************************************)
EXTENDS Exam2, SequenceTheorems, TLAPS

S1PCs == {"none", "loop", "wait", "load", "store", "send", "await_W1", "await_W2", "stop", "done"}
W1PCs == {"none", "loop", "wait", "receive_1", "receive_2", "send", "done"}
W2PCs == {"none", "loop", "wait", "dequeue", "store", "receive_1", "copy", "add", "done"}
PCs == S1PCs \cup W1PCs \cup W2PCs

TypeInv ==
    /\ running \in BOOLEAN /\ stopped \in BOOLEAN /\ overlapped \in BOOLEAN
    /\ sem \in [Semaphores -> Nat]
    /\ pc \in [Threads -> PCs]
    /\ pc["S1"] \in S1PCs /\ pc["W1"] \in W1PCs /\ pc["W2"] \in W2PCs
    /\ ret \in [Threads -> BOOLEAN]
    /\ mq \in [Queues -> Seq(Nat)] /\ b \in [Queues -> Nat]
    /\ count \in [Queues -> Int] /\ loaded \in [Queues -> Int]
    /\ sent \in Nat /\ num1 \in Nat /\ num2 \in Nat /\ w2_dequeue_count \in Nat
    /\ get \in Nat /\ total_sum \in Nat /\ total_count \in Nat

\* S1 leaves its loop with the last number, and each number is counted at most once.
S1Inv ==
    /\ sent <= N
    /\ pc["S1"] = "wait" => sent < N
    /\ pc["S1"] = "loop" /\ running => sent < N
    /\ pc["S1"] \in {"load", "store"} => count["W1_Q"] <= sent - 1
    /\ pc["S1"] = "store" => loaded["W1_Q"] <= sent - 1
    /\ count["W1_Q"] <= sent

\* W1 leaves its loop with the last pair.
W1Inv ==
    /\ pc["W1"] # "done" => w2_dequeue_count <= N - 2
    /\ count["W2_Q"] <= w2_dequeue_count
    /\ pc["W2"] = "store" => loaded["W2_Q"] <= w2_dequeue_count

\* While nothing stops the program, S1 does, and only when W1 has told it of its end.
StopInv ==
    /\ mpc \in {"flush", "create"} => \A t \in Threads : pc[t] = "none"
    /\ mpc \in {"join_W2", "join_unset", "dump"} => pc["S1"] = "done"
    /\ sem["running_W1"] > 0 => pc["W1"] = "done"
    /\ ~stopped =>
          /\ \A t \in Threads : ret[t]
          /\ pc["S1"] \in {"await_W2", "stop"} => pc["W1"] = "done"
          /\ pc["S1"] = "done" => ~running
          /\ ~running => pc["W1"] = "done"

\* How many numbers S1 has sent, W1 and W2 have taken
Delivered == IF pc["S1"] \in {"load", "store", "send"} THEN sent - 1 ELSE sent
TakenByW1 ==
    w2_dequeue_count + (IF pc["W1"] = "receive_2" THEN 1 ELSE IF pc["W1"] = "send" THEN 2 ELSE 0)
TakenByW2 == total_count + (IF pc["W2"] \in {"copy", "add"} THEN 1 ELSE 0)

\* W1_Q holds the numbers between the two, in their order; W2_Q the sums of the pairs, the
\* k-th of which is (2k - 1) + 2k.
W1Flow ==
    /\ Len(mq["W1_Q"]) = Delivered - TakenByW1
    /\ \A i \in 1 .. Len(mq["W1_Q"]) : mq["W1_Q"][i] = TakenByW1 + i
    /\ pc["S1"] = "send" => b["W1_Q"] = sent
    /\ pc["W1"] \in {"receive_2", "send"} => num1 = w2_dequeue_count + 1
    /\ pc["W1"] = "send" => num2 = w2_dequeue_count + 2
W2Flow ==
    /\ 2 * (TakenByW2 + Len(mq["W2_Q"])) = w2_dequeue_count
    /\ \A i \in 1 .. Len(mq["W2_Q"]) : mq["W2_Q"][i] = 4 * (TakenByW2 + i) - 1
    /\ pc["W2"] = "copy" => b["W2_Q"] = 4 * TakenByW2 - 1
    /\ pc["W2"] = "add" => get = 4 * TakenByW2 - 1
    /\ total_sum = total_count * (2 * total_count + 1)
FlowInv == mpc # "flush" /\ ~stopped /\ ~overlapped => W1Flow /\ W2Flow
EmptyInv ==
    mpc \in {"flush", "create"} =>
        sent = 0 /\ w2_dequeue_count = 0 /\ total_count = 0 /\ total_sum = 0

IInv == TypeInv /\ S1Inv /\ W1Inv /\ StopInv /\ FlowInv /\ EmptyInv

-----------------------------------------------------------------------------
LEMMA Facts ==
    /\ N \in Nat /\ N >= 2 /\ QueueSize \in Nat /\ QueueSize >= N
    /\ Threads = {"S1", "W1", "W2"} /\ Queues = {"W1_Q", "W2_Q"}
    /\ Semaphores = {"S1", "W1", "W2", "running_W1", "running_W2"}
BY Exam2Assumption DEF Threads, Queues, Semaphores

LEMMA Arithmetic ==
    /\ \A n \in Nat : n + 0 = n
    /\ \A n, k \in Nat : 2 * ((n + 1) + (k - 1)) = 2 * (n + k)
OBVIOUS

LEMMA GotoFacts ==
    ASSUME TypeInv, NEW t \in Threads, NEW at \in PCs, Goto(t, at)
    PROVE  pc' \in [Threads -> PCs] /\ pc'[t] = at /\ \A u \in Threads \ {t} : pc'[u] = pc[u]
BY DEF Goto, TypeInv

\* A thread that takes a step has been created, and does not sleep.
LEMMA RunsFacts ==
    ASSUME TypeInv, StopInv, NEW t \in Threads, NEW at, Runs(t, at)
    PROVE  /\ pc[t] = at /\ ~Sleeps(t) /\ pc[t] # "none"
           /\ mpc \notin {"flush", "create"} /\ mpc # "ended"
<1>1. pc[t] = at /\ ~Sleeps(t) /\ pc[t] # "none" /\ mpc # "ended" BY DEF Runs, Ready
<1>. QED BY <1>1 DEF StopInv

\* A release posts the semaphore of one of the three threads.
LEMMA ReleasedFacts ==
    ASSUME TypeInv, NEW t \in Threads
    PROVE  /\ Released(t) \in [Semaphores -> Nat]
           /\ Released(t)["running_W1"] = sem["running_W1"]
<1>. DEFINE n == IF sem[t] < RoundsLeft(t) THEN sem[t] + 1 ELSE sem[t]
<1>1. Released(t) = [sem EXCEPT ![t] = n] BY DEF Released
<1>2. t \in Semaphores /\ t # "running_W1" /\ "running_W1" \in Semaphores BY Facts
<1>3. n \in Nat BY <1>2 DEF TypeInv
<1>. HIDE DEF n
<1>. QED BY <1>1, <1>2, <1>3 DEF TypeInv

\* What W1_Q and W2_Q hold does not change with a step that does not touch them.
LEMMA W1FlowSame ==
    ASSUME W1Flow, mq'["W1_Q"] = mq["W1_Q"], Delivered' = Delivered, TakenByW1' = TakenByW1,
           UNCHANGED <<sent, num1, num2, w2_dequeue_count>>,
           pc'["S1"] = "send" => pc["S1"] = "send" /\ b'["W1_Q"] = b["W1_Q"],
           pc'["W1"] \in {"receive_2", "send"} => pc'["W1"] = pc["W1"]
    PROVE  W1Flow'
BY DEF W1Flow

LEMMA W2FlowSame ==
    ASSUME W2Flow, mq'["W2_Q"] = mq["W2_Q"], TakenByW2' = TakenByW2,
           UNCHANGED <<w2_dequeue_count, total_count, total_sum>>,
           pc'["W2"] = "copy" => pc["W2"] = "copy" /\ b'["W2_Q"] = b["W2_Q"],
           pc'["W2"] = "add" => pc["W2"] = "add" /\ get' = get
    PROVE  W2Flow'
BY DEF W2Flow

-----------------------------------------------------------------------------
LEMMA InitIInv == Init => IInv
<1>. SUFFICES ASSUME Init PROVE IInv
  OBVIOUS
<1>1. TypeInv
  <2>1. Stale \in Nat BY Facts DEF Stale
  <2>2. <<>> \in Seq(Nat) /\ <<Stale>> \in Seq(Nat) BY <2>1, EmptySeq
  <2>3. mq \in [Queues -> Seq(Nat)] BY <2>2 DEF Init
  <2>4. \A t \in Threads : pc[t] = "none" BY DEF Init
  <2>5. pc \in [Threads -> PCs] BY DEF Init, PCs, S1PCs
  <2>6. sem \in [Semaphores -> Nat] /\ ret \in [Threads -> BOOLEAN] BY DEF Init
  <2>7. b \in [Queues -> Nat] /\ count \in [Queues -> Int] /\ loaded \in [Queues -> Int] BY DEF Init
  <2>. QED BY <2>3, <2>4, <2>5, <2>6, <2>7, Facts DEF Init, TypeInv, S1PCs, W1PCs, W2PCs
<1>2. S1Inv /\ W1Inv BY Facts DEF Init, S1Inv, W1Inv
<1>3. StopInv BY Facts DEF Init, StopInv
<1>4. FlowInv /\ EmptyInv BY DEF Init, FlowInv, EmptyInv
<1>. QED BY <1>1, <1>2, <1>3, <1>4 DEF IInv

-----------------------------------------------------------------------------
(* main and the handlers.                                                  *)

LEMMA FlushIInv == ASSUME IInv, Flush PROVE IInv'
<1>1. /\ mpc = "flush" /\ mpc' = "create" /\ mq' = [q \in Queues |-> <<>>]
      /\ UNCHANGED <<running, sem, pc, ret, b, count, loaded, sent, num1, num2, w2_dequeue_count>>
      /\ UNCHANGED <<get, total_sum, total_count, stopped, overlapped>>
  BY DEF Flush, s1Vars, w1Vars, w2Vars, history
<1>2. /\ sent = 0 /\ w2_dequeue_count = 0 /\ total_count = 0 /\ total_sum = 0
      /\ \A t \in Threads : pc[t] = "none"
  BY <1>1 DEF IInv, EmptyInv, StopInv
<1>3. mq' \in [Queues -> Seq(Nat)] /\ mq'["W1_Q"] = <<>> /\ mq'["W2_Q"] = <<>>
  BY <1>1, EmptySeq, Facts
<1>4. TypeInv' BY <1>1, <1>3 DEF IInv, TypeInv
<1>5. S1Inv' /\ W1Inv' BY <1>1 DEF IInv, S1Inv, W1Inv
<1>6. StopInv' BY <1>1 DEF IInv, StopInv
<1>7. W1Flow'
  <2>1. pc'["S1"] = "none" /\ pc'["W1"] = "none" BY <1>1, <1>2, Facts
  <2>2. Delivered' = 0 /\ TakenByW1' = 0 BY <1>1, <1>2, <2>1 DEF Delivered, TakenByW1
  <2>3. Len(mq'["W1_Q"]) = 0 BY <1>3
  <2>. QED BY <2>1, <2>2, <2>3 DEF W1Flow
<1>8. W2Flow' BY <1>1, <1>2, <1>3, EmptySeq, Facts DEF W2Flow, TakenByW2
<1>9. EmptyInv' BY <1>1, <1>2 DEF EmptyInv
<1>. QED BY <1>4, <1>5, <1>6, <1>7, <1>8, <1>9 DEF IInv, FlowInv

LEMMA CreateIInv == ASSUME IInv, Create PROVE IInv'
<1>1. /\ mpc = "create" /\ mpc' = "join_S1" /\ pc' = [t \in Threads |-> "loop"]
      /\ UNCHANGED <<running, sem, ret, mq, b, count, loaded, sent, num1, num2, w2_dequeue_count>>
      /\ UNCHANGED <<get, total_sum, total_count, stopped, overlapped>>
  BY DEF Create, queueVars, s1Vars, w1Vars, w2Vars, history
<1>2. sent = 0 /\ pc["S1"] = "none" /\ pc["W1"] = "none" /\ pc["W2"] = "none"
  BY <1>1, Facts DEF IInv, EmptyInv, StopInv
<1>3. pc' \in [Threads -> PCs] /\ pc'["S1"] = "loop" /\ pc'["W1"] = "loop" /\ pc'["W2"] = "loop"
  BY <1>1, Facts DEF PCs, S1PCs
<1>4. TypeInv' BY <1>1, <1>3 DEF IInv, TypeInv, S1PCs, W1PCs, W2PCs
<1>5. S1Inv'
  <2>0. 0 < N /\ 0 <= N BY Facts
  <2>1. sent' = 0 /\ sent' < N /\ sent' <= N BY <1>1, <1>2, <2>0
  <2>2. count'["W1_Q"] <= sent' BY <1>1 DEF IInv, S1Inv
  <2>. QED BY <1>3, <2>1, <2>2 DEF S1Inv
<1>6. W1Inv' BY <1>1, <1>2, <1>3 DEF IInv, W1Inv
<1>7. StopInv' BY <1>1, <1>2, <1>3 DEF IInv, StopInv
<1>8. FlowInv'
  <2>1. Delivered' = Delivered /\ TakenByW1' = TakenByW1 BY <1>1, <1>2, <1>3 DEF Delivered, TakenByW1
  <2>2. TakenByW2' = TakenByW2 BY <1>1, <1>2, <1>3 DEF TakenByW2
  <2>. QED BY <1>1, <1>2, <1>3, <2>1, <2>2, W1FlowSame, W2FlowSame DEF IInv, FlowInv
<1>9. EmptyInv' BY <1>1 DEF EmptyInv
<1>. QED BY <1>4, <1>5, <1>6, <1>7, <1>8, <1>9 DEF IInv

\* main has joined S1 before it waits for anything else.
LEMMA JoinIInv == ASSUME IInv, Join \/ Dump PROVE IInv'
<1>1. /\ UNCHANGED <<running, sem, pc, ret, mq, b, count, loaded, sent, num1, num2, w2_dequeue_count>>
      /\ UNCHANGED <<get, total_sum, total_count, stopped, overlapped>>
  BY DEF Join, Dump, queueVars, s1Vars, w1Vars, w2Vars, history
<1>2. /\ mpc \notin {"flush", "create"} /\ mpc' \notin {"flush", "create"}
      /\ mpc' \in {"join_W2", "join_unset", "dump"} => pc["S1"] = "done"
  BY DEF Join, Dump, IInv, StopInv
<1>3. TypeInv' BY <1>1 DEF IInv, TypeInv
<1>4. S1Inv' /\ W1Inv' BY <1>1 DEF IInv, S1Inv, W1Inv
<1>5. StopInv' BY <1>1, <1>2 DEF IInv, StopInv
<1>6. FlowInv' /\ EmptyInv'
  BY <1>1, <1>2 DEF IInv, FlowInv, EmptyInv, W1Flow, W2Flow, Delivered, TakenByW1, TakenByW2
<1>. QED BY <1>3, <1>4, <1>5, <1>6 DEF IInv

LEMMA ReleaseIInv == ASSUME IInv, NEW t \in Threads, Release(t) PROVE IInv'
<1>1. /\ UNCHANGED <<running, mpc, pc, ret, mq, b, count, loaded, sent, num1, num2, w2_dequeue_count>>
      /\ UNCHANGED <<get, total_sum, total_count, stopped, overlapped>>
      /\ sem' = Released(t) \/ sem' = sem
  BY DEF Release, queueVars, s1Vars, w1Vars, w2Vars, history
<1>2. sem' \in [Semaphores -> Nat] /\ sem'["running_W1"] = sem["running_W1"]
  BY <1>1, ReleasedFacts DEF IInv, TypeInv
<1>3. TypeInv' BY <1>1, <1>2 DEF IInv, TypeInv
<1>4. S1Inv' /\ W1Inv' BY <1>1 DEF IInv, S1Inv, W1Inv
<1>5. StopInv' BY <1>1, <1>2 DEF IInv, StopInv
<1>6. FlowInv' /\ EmptyInv'
  BY <1>1 DEF IInv, FlowInv, EmptyInv, W1Flow, W2Flow, Delivered, TakenByW1, TakenByW2
<1>. QED BY <1>3, <1>4, <1>5, <1>6 DEF IInv

LEMMA CtrlCIInv == ASSUME IInv, CtrlC PROVE IInv'
<1>1. /\ UNCHANGED <<mpc, pc, ret, mq, b, count, loaded, sent, num1, num2, w2_dequeue_count>>
      /\ UNCHANGED <<get, total_sum, total_count, overlapped>>
      /\ running' = running \/ running' = FALSE
      /\ stopped' = TRUE
      /\ sem' = sem \/ \E t \in Threads : sem' = Released(t)
  BY Facts DEF CtrlC, queueVars, s1Vars, w1Vars, w2Vars
<1>2. sem' \in [Semaphores -> Nat] /\ sem'["running_W1"] = sem["running_W1"]
  BY <1>1, ReleasedFacts DEF IInv, TypeInv
<1>3. TypeInv' BY <1>1, <1>2 DEF IInv, TypeInv
<1>4. S1Inv' /\ W1Inv' BY <1>1 DEF IInv, S1Inv, W1Inv
<1>5. StopInv' BY <1>1, <1>2 DEF IInv, StopInv
<1>6. FlowInv' /\ EmptyInv' BY <1>1 DEF IInv, FlowInv, EmptyInv
<1>. QED BY <1>3, <1>4, <1>5, <1>6 DEF IInv

-----------------------------------------------------------------------------
(* The steps all three threads have in common.                             *)

LEMMA LoopIInv == ASSUME IInv, NEW t \in Threads, Loop(t) PROVE IInv'
<1>1. /\ UNCHANGED <<running, sem, mpc, ret, mq, b, count, loaded, sent, num1, num2, w2_dequeue_count>>
      /\ UNCHANGED <<get, total_sum, total_count, stopped, overlapped>>
  BY DEF Loop, ctlVars, queueVars, s1Vars, w1Vars, w2Vars, history
<1>2. /\ pc[t] = "loop" /\ mpc \notin {"flush", "create"}
      /\ Goto(t, IF running THEN "wait" ELSE "done")
  BY RunsFacts DEF Loop, IInv
<1>3. PICK at \in {"wait", "done"} : Goto(t, at) /\ (at = "wait" <=> running)
  BY <1>2 DEF IInv, TypeInv
<1>4. at \in PCs /\ at \in S1PCs /\ at \in W1PCs /\ at \in W2PCs
  BY DEF PCs, S1PCs, W1PCs, W2PCs
<1>5. pc' \in [Threads -> PCs] /\ pc'[t] = at /\ \A u \in Threads \ {t} : pc'[u] = pc[u]
  BY <1>3, <1>4, GotoFacts DEF IInv
<1>6. TypeInv' BY <1>1, <1>4, <1>5, Facts DEF IInv, TypeInv
<1>7. S1Inv'
  <2>1. CASE t = "S1" BY <1>1, <1>2, <1>3, <1>5, <2>1 DEF IInv, S1Inv
  <2>2. CASE t # "S1"
    <3>1. pc'["S1"] = pc["S1"] BY <1>5, <2>2, Facts
    <3>. QED BY <1>1, <3>1 DEF IInv, S1Inv
  <2>. QED BY <2>1, <2>2
<1>8. W1Inv'
  <2>1. pc'["W1"] # "done" => pc["W1"] # "done" BY <1>2, <1>5, Facts
  <2>2. pc'["W2"] = "store" => pc["W2"] = "store" BY <1>5, Facts
  <2>. QED BY <1>1, <2>1, <2>2 DEF IInv, W1Inv
<1>9. StopInv'
  <2>1. pc["W1"] = "done" => pc'["W1"] = "done" BY <1>2, <1>5, Facts
  <2>2. pc["S1"] = "done" => pc'["S1"] = "done" BY <1>2, <1>5, Facts
  <2>3. pc'["S1"] \in {"await_W2", "stop"} => pc["S1"] = pc'["S1"] BY <1>5, Facts
  <2>4. pc'["S1"] = "done" => pc["S1"] = "done" \/ ~running BY <1>3, <1>5, Facts
  <2>. QED BY <1>1, <1>2, <2>1, <2>2, <2>3, <2>4 DEF IInv, StopInv
<1>10. FlowInv'
  <2>1. Delivered' = Delivered /\ (pc'["S1"] = "send" => pc["S1"] = "send")
    BY <1>1, <1>2, <1>5, Facts DEF Delivered
  <2>2. TakenByW1' = TakenByW1 /\ (pc'["W1"] \in {"receive_2", "send"} => pc'["W1"] = pc["W1"])
    BY <1>1, <1>2, <1>5, Facts DEF TakenByW1
  <2>3. /\ TakenByW2' = TakenByW2
        /\ pc'["W2"] = "copy" => pc["W2"] = "copy"
        /\ pc'["W2"] = "add" => pc["W2"] = "add"
    BY <1>1, <1>2, <1>5, Facts DEF TakenByW2
  <2>. QED BY <1>1, <2>1, <2>2, <2>3, W1FlowSame, W2FlowSame DEF IInv, FlowInv
<1>11. EmptyInv' BY <1>1, <1>2 DEF EmptyInv
<1>. QED BY <1>6, <1>7, <1>8, <1>9, <1>10, <1>11 DEF IInv

\* What a thread does first, whether sem_wait returned 0 or EINTR.
LEMMA StartWorkFacts ==
    ASSUME IInv, NEW t \in Threads, pc[t] = "wait", mpc' = mpc, StartWork(t),
           UNCHANGED <<running, loaded, w2_dequeue_count>>
    PROVE  /\ pc' \in [Threads -> PCs] /\ \A u \in Threads \ {t} : pc'[u] = pc[u]
           /\ pc'["S1"] \in S1PCs /\ pc'["W1"] \in W1PCs /\ pc'["W2"] \in W2PCs
           /\ pc'[t] = (CASE t = "S1" -> "load" [] t = "W1" -> "receive_1" [] t = "W2" -> "dequeue")
           /\ sent' = (IF t = "S1" THEN sent + 1 ELSE sent) /\ sent' \in Nat
           /\ count' \in [Queues -> Int]
           /\ S1Inv' /\ W1Inv' /\ EmptyInv'
<1>. DEFINE at == CASE t = "S1" -> "load" [] t = "W1" -> "receive_1" [] t = "W2" -> "dequeue"
<1>1. /\ Goto(t, at) /\ sent' = (IF t = "S1" THEN sent + 1 ELSE sent)
      /\ count' = IF t = "W1" THEN [count EXCEPT !["W1_Q"] = @ - 1] ELSE count
  BY DEF StartWork
<1>2. /\ t = "S1" => at = "load"
      /\ t = "W1" => at = "receive_1"
      /\ t = "W2" => at = "dequeue"
  OBVIOUS
<1>. HIDE DEF at
<1>3. at \in PCs BY <1>2, Facts DEF PCs, S1PCs, W1PCs, W2PCs
<1>4. pc' \in [Threads -> PCs] /\ pc'[t] = at /\ \A u \in Threads \ {t} : pc'[u] = pc[u]
  BY <1>1, <1>3, GotoFacts DEF IInv
<1>5. pc'["S1"] \in S1PCs /\ pc'["W1"] \in W1PCs /\ pc'["W2"] \in W2PCs
  BY <1>2, <1>4, Facts DEF IInv, TypeInv, S1PCs, W1PCs, W2PCs
<1>6. sent' \in Nat BY <1>1 DEF IInv, TypeInv
<1>7. /\ count' \in [Queues -> Int] /\ count'["W1_Q"] <= count["W1_Q"]
      /\ t # "W1" => count' = count
      /\ count'["W2_Q"] = count["W2_Q"] /\ count["W1_Q"] \in Int
  BY <1>1, Facts DEF IInv, TypeInv
<1>8. S1Inv'
  <2>1. CASE t = "S1"
    <3>1. sent < N /\ count["W1_Q"] <= sent BY <2>1 DEF IInv, S1Inv
    <3>2. pc'["S1"] = "load" /\ sent' = sent + 1 /\ count' = count BY <1>1, <1>2, <1>4, <1>7, <2>1
    <3>3. sent' <= N /\ count'["W1_Q"] <= sent' - 1 /\ count'["W1_Q"] <= sent'
      BY <1>7, <3>1, <3>2, Facts DEF IInv, TypeInv
    <3>. QED BY <3>2, <3>3 DEF S1Inv
  <2>2. CASE t # "S1"
    <3>1. pc'["S1"] = pc["S1"] /\ sent' = sent BY <1>1, <1>4, <2>2, Facts
    <3>4. count["W1_Q"] \in Int /\ count'["W1_Q"] \in Int /\ sent \in Nat
      BY <1>7, Facts DEF IInv, TypeInv
    <3>2. count["W1_Q"] <= sent => count'["W1_Q"] <= sent BY <1>7, <3>4
    <3>3. count["W1_Q"] <= sent - 1 => count'["W1_Q"] <= sent - 1 BY <1>7, <3>4
    <3>. QED BY <3>1, <3>2, <3>3 DEF IInv, S1Inv
  <2>. QED BY <2>1, <2>2
<1>9. W1Inv'
  <2>1. pc'["W1"] # "done" => pc["W1"] # "done" BY <1>4, Facts
  <2>2. pc'["W2"] = "store" => pc["W2"] = "store" BY <1>2, <1>4, Facts
  <2>. QED BY <1>7, <2>1, <2>2 DEF IInv, W1Inv
<1>10. EmptyInv' BY DEF IInv, StopInv, EmptyInv
<1>. QED BY <1>1, <1>4, <1>5, <1>6, <1>7, <1>8, <1>9, <1>10 DEF at

LEMMA SemWaitIInv == ASSUME IInv, NEW t \in Threads, SemWait(t) PROVE IInv'
<1>1. /\ UNCHANGED <<running, mpc, mq, b, loaded, num1, num2, w2_dequeue_count>>
      /\ UNCHANGED <<get, total_sum, total_count, stopped, overlapped>>
      /\ sem' = [sem EXCEPT ![t] = @ - 1] /\ ret' = [ret EXCEPT ![t] = TRUE] /\ StartWork(t)
  BY DEF SemWait, w1Vars, w2Vars, history
<1>2. pc[t] = "wait" /\ ~Sleeps(t) /\ mpc \notin {"flush", "create"}
  BY RunsFacts DEF SemWait, IInv
<1>3. /\ pc' \in [Threads -> PCs] /\ \A u \in Threads \ {t} : pc'[u] = pc[u]
      /\ pc'["S1"] \in S1PCs /\ pc'["W1"] \in W1PCs /\ pc'["W2"] \in W2PCs
      /\ pc'[t] = (CASE t = "S1" -> "load" [] t = "W1" -> "receive_1" [] t = "W2" -> "dequeue")
      /\ sent' = (IF t = "S1" THEN sent + 1 ELSE sent) /\ sent' \in Nat
      /\ count' \in [Queues -> Int]
      /\ S1Inv' /\ W1Inv' /\ EmptyInv'
  BY <1>1, <1>2, StartWorkFacts
<1>4. /\ t = "S1" => pc'[t] = "load"
      /\ t = "W1" => pc'[t] = "receive_1"
      /\ t = "W2" => pc'[t] = "dequeue"
  BY <1>3
<1>5. sem' \in [Semaphores -> Nat] /\ sem'["running_W1"] = sem["running_W1"]
  <2>1. t \in Semaphores /\ t # "running_W1" /\ "running_W1" \in Semaphores BY Facts
  <2>2. sem[t] \in Nat \ {0} BY <1>2, <2>1 DEF Sleeps, SemOf, IInv, TypeInv
  <2>3. sem[t] - 1 \in Nat BY <2>2
  <2>. QED BY <1>1, <2>1, <2>3 DEF IInv, TypeInv
<1>6. ret' \in [Threads -> BOOLEAN] /\ \A u \in Threads : ret[u] => ret'[u]
  BY <1>1 DEF IInv, TypeInv
<1>7. TypeInv' BY <1>1, <1>3, <1>5, <1>6 DEF IInv, TypeInv
<1>8. StopInv'
  <2>1. pc["W1"] = "done" => pc'["W1"] = "done" BY <1>2, <1>3, Facts
  <2>2. pc["S1"] = "done" <=> pc'["S1"] = "done" BY <1>2, <1>3, <1>4, Facts
  <2>3. pc'["S1"] \in {"await_W2", "stop"} => pc["S1"] = pc'["S1"] BY <1>3, <1>4, Facts
  <2>. QED BY <1>1, <1>2, <1>5, <1>6, <2>1, <2>2, <2>3 DEF IInv, StopInv
<1>9. FlowInv'
  <2>1. Delivered' = Delivered /\ (pc'["S1"] = "send" => pc["S1"] = "send")
    <3>1. CASE t = "S1"
      <4>1. pc["S1"] = "wait" /\ pc'["S1"] = "load" /\ sent' = sent + 1 BY <1>2, <1>3, <1>4, <3>1
      <4>2. sent \in Nat BY DEF IInv, TypeInv
      <4>. QED BY <4>1, <4>2 DEF Delivered
    <3>2. CASE t # "S1"
      <4>1. pc'["S1"] = pc["S1"] /\ sent' = sent BY <1>3, <3>2, Facts
      <4>. QED BY <4>1 DEF Delivered
    <3>. QED BY <3>1, <3>2
  <2>2. TakenByW1' = TakenByW1 /\ (pc'["W1"] \in {"receive_2", "send"} => pc'["W1"] = pc["W1"])
    BY <1>1, <1>2, <1>3, <1>4, Facts DEF TakenByW1
  <2>3. /\ TakenByW2' = TakenByW2
        /\ pc'["W2"] = "copy" => pc["W2"] = "copy"
        /\ pc'["W2"] = "add" => pc["W2"] = "add"
    BY <1>1, <1>2, <1>3, <1>4, Facts DEF TakenByW2
  <2>4. W2Flow => W2Flow' BY <1>1, <2>3, W2FlowSame
  <2>5. W1Flow => W1Flow'
    <3>1. pc'["S1"] = "send" => sent' = sent BY <1>3, <1>4, Facts
    <3>. QED BY <1>1, <2>1, <2>2, <3>1 DEF W1Flow
  <2>. QED BY <1>1, <2>4, <2>5 DEF IInv, FlowInv
<1>. QED BY <1>3, <1>7, <1>8, <1>9 DEF IInv

\* A handler in a sleeping thread: from here on the program counts as stopped.
LEMMA InterruptIInv == ASSUME IInv, NEW t \in Threads, Interrupt(t) PROVE IInv'
<1>. DEFINE at == CASE pc[t] = "await_W1" -> "await_W2" [] pc[t] = "await_W2" -> "stop"
                    [] pc[t] = "receive_2" -> "send"
                    [] pc[t] = "receive_1" -> IF t = "W1" THEN "receive_2" ELSE "add"
<1>1. /\ UNCHANGED <<running, sem, mpc, mq, b, loaded, num1, num2, w2_dequeue_count>>
      /\ UNCHANGED <<total_sum, total_count, overlapped>> /\ stopped' = TRUE
      /\ ret' = [ret EXCEPT ![t] = pc[t] # "wait" /\ @]
      /\ get' \in {0, 1} \cup {get}
  BY DEF Interrupt, ctlVars, w1Vars
<1>2. Sleeps(t) /\ pc[t] # "none" BY DEF Interrupt, Sleeps, SemOf
<1>3. mpc \notin {"flush", "create"} BY <1>2 DEF IInv, StopInv
<1>4. ret' \in [Threads -> BOOLEAN] /\ get' \in Nat BY <1>1 DEF IInv, TypeInv
<1>5. /\ pc' \in [Threads -> PCs] /\ \A u \in Threads \ {t} : pc'[u] = pc[u]
      /\ pc'["S1"] \in S1PCs /\ pc'["W1"] \in W1PCs /\ pc'["W2"] \in W2PCs
      /\ sent' \in Nat /\ count' \in [Queues -> Int]
      /\ pc[t] # "done"
      /\ S1Inv' /\ W1Inv' /\ EmptyInv'
  <2>1. CASE pc[t] = "wait" /\ StartWork(t)
    BY <1>1, <2>1, StartWorkFacts
  <2>2. CASE /\ pc[t] # "wait" /\ Goto(t, at) /\ sent' = sent
             /\ count' = IF t = "W1" /\ pc[t] = "receive_1" THEN [count EXCEPT !["W1_Q"] = @ - 1] ELSE count
    <3>1. pc[t] \in {"await_W1", "await_W2", "receive_1", "receive_2"}
      BY <1>2, <2>2 DEF Sleeps, SemOf
    <3>2. /\ pc[t] = "await_W1" => at = "await_W2"
          /\ pc[t] = "await_W2" => at = "stop"
          /\ pc[t] = "receive_2" => at = "send"
          /\ pc[t] = "receive_1" /\ t = "W1" => at = "receive_2"
          /\ pc[t] = "receive_1" /\ t # "W1" => at = "add"
      OBVIOUS
    <3>. HIDE DEF at
    <3>3. /\ t = "S1" => pc[t] \in {"await_W1", "await_W2"} /\ at \in {"await_W2", "stop"}
          /\ t = "W1" => pc[t] \in {"receive_1", "receive_2"} /\ at \in {"receive_2", "send"}
          /\ t = "W2" => pc[t] = "receive_1" /\ at = "add"
      BY <3>1, <3>2 DEF IInv, TypeInv, S1PCs, W1PCs, W2PCs
    <3>4. at \in PCs BY <3>3, Facts DEF PCs, S1PCs, W1PCs, W2PCs
    <3>5. pc' \in [Threads -> PCs] /\ pc'[t] = at /\ \A u \in Threads \ {t} : pc'[u] = pc[u]
      BY <2>2, <3>4, GotoFacts DEF IInv
    <3>6. pc'["S1"] \in S1PCs /\ pc'["W1"] \in W1PCs /\ pc'["W2"] \in W2PCs
      BY <3>3, <3>5, Facts DEF IInv, TypeInv, S1PCs, W1PCs, W2PCs
    <3>7. /\ count' \in [Queues -> Int] /\ count'["W1_Q"] <= count["W1_Q"]
          /\ count'["W2_Q"] = count["W2_Q"] /\ count["W1_Q"] \in Int /\ count'["W1_Q"] \in Int
      <4>1. count \in [Queues -> Int] /\ "W1_Q" \in Queues /\ "W2_Q" \in Queues
        BY Facts DEF IInv, TypeInv
      <4>2. count' = [count EXCEPT !["W1_Q"] = count["W1_Q"] - 1] \/ count' = count BY <2>2
      <4>. QED BY <4>1, <4>2
    <3>8. S1Inv'
      <4>1. sent \in Nat /\ count["W1_Q"] <= sent BY DEF IInv, TypeInv, S1Inv
      <4>2. count'["W1_Q"] <= sent BY <3>7, <4>1
      <4>3. CASE t = "S1"
        <5>1. pc'["S1"] \notin {"loop", "wait", "load", "store"} BY <3>3, <3>5, <4>3
        <5>. QED BY <2>2, <4>2, <5>1 DEF IInv, S1Inv
      <4>4. CASE t # "S1"
        <5>1. pc'["S1"] = pc["S1"] BY <3>5, <4>4, Facts
        <5>2. count["W1_Q"] <= sent - 1 => count'["W1_Q"] <= sent - 1 BY <3>7, <4>1
        <5>. QED BY <1>1, <2>2, <4>2, <5>1, <5>2 DEF IInv, S1Inv
      <4>. QED BY <4>3, <4>4
    <3>9. W1Inv'
      <4>1. pc'["W1"] # "done" => pc["W1"] # "done" BY <3>3, <3>5, Facts
      <4>2. pc'["W2"] = "store" => pc["W2"] = "store" BY <3>3, <3>5, Facts
      <4>. QED BY <1>1, <3>7, <4>1, <4>2 DEF IInv, W1Inv
    <3>10. EmptyInv' BY <1>1, <1>3 DEF EmptyInv
    <3>11. sent' \in Nat BY <2>2 DEF IInv, TypeInv
    <3>. QED BY <3>1, <3>5, <3>6, <3>7, <3>8, <3>9, <3>10, <3>11
  <2>. QED BY <2>1, <2>2 DEF Interrupt
<1>6. TypeInv' BY <1>1, <1>4, <1>5 DEF IInv, TypeInv
<1>7. StopInv'
  <2>1. pc["W1"] = "done" => pc'["W1"] = "done" BY <1>5, Facts
  <2>2. pc["S1"] = "done" => pc'["S1"] = "done" BY <1>5, Facts
  <2>. QED BY <1>1, <1>3, <2>1, <2>2 DEF IInv, StopInv
<1>8. FlowInv' BY <1>1 DEF FlowInv
<1>. QED BY <1>5, <1>6, <1>7, <1>8 DEF IInv

-----------------------------------------------------------------------------
(* S1.                                                                     *)

\* Where S1 goes once a number is sent: back to its loop while there are more.
LEMMA SentFacts ==
    ASSUME TypeInv, sent <= N, Sent
    PROVE  /\ pc' \in [Threads -> PCs] /\ pc'["W1"] = pc["W1"] /\ pc'["W2"] = pc["W2"]
           /\ pc'["S1"] \in {"await_W1", "loop", "done"}
           /\ pc'["S1"] = "loop" => sent < N
           /\ ret["S1"] => pc'["S1"] # "done"
<1>1. PICK at \in {"await_W1", "loop", "done"} :
          Goto("S1", at) /\ (at = "loop" => sent # N) /\ (ret["S1"] => at # "done")
  BY DEF Sent
<1>2. at \in PCs BY DEF PCs, S1PCs
<1>3. /\ pc' \in [Threads -> PCs] /\ pc'["S1"] = at
      /\ pc'["W1"] = pc["W1"] /\ pc'["W2"] = pc["W2"]
  BY <1>1, <1>2, GotoFacts, Facts
<1>4. at = "loop" => sent < N
  <2>1. sent \in Nat /\ N \in Nat BY Facts DEF TypeInv
  <2>. QED BY <1>1, <2>1
<1>. QED BY <1>1, <1>3, <1>4

\* The sanity counter is below its limit, so the number is not refused.
LEMMA S1LoadIInv == ASSUME IInv, S1Load PROVE IInv'
<1>1. /\ UNCHANGED <<running, sem, mpc, ret, mq, b, count, sent, num1, num2, w2_dequeue_count>>
      /\ UNCHANGED <<get, total_sum, total_count, stopped, overlapped>>
      /\ loaded' = [loaded EXCEPT !["W1_Q"] = count["W1_Q"]]
  BY DEF S1Load, ctlVars, s1Vars, w1Vars, w2Vars, history
<1>2. pc["S1"] = "load" /\ mpc \notin {"flush", "create"} BY RunsFacts, Facts DEF S1Load, IInv
<1>3. count["W1_Q"] \in Int /\ sent \in Nat /\ count["W1_Q"] <= sent - 1 /\ sent <= N
  BY <1>2, Facts DEF IInv, TypeInv, S1Inv
<1>4. Goto("S1", "store")
  <2>1. count["W1_Q"] # QueueSize BY <1>3, Facts
  <2>. QED BY <2>1 DEF S1Load
<1>5. /\ pc' \in [Threads -> PCs] /\ pc'["S1"] = "store"
      /\ pc'["W1"] = pc["W1"] /\ pc'["W2"] = pc["W2"]
  <2>1. "store" \in PCs BY DEF PCs, S1PCs
  <2>. QED BY <1>4, <2>1, GotoFacts, Facts DEF IInv
<1>6. /\ loaded' \in [Queues -> Int] /\ loaded'["W1_Q"] = count["W1_Q"]
      /\ loaded'["W2_Q"] = loaded["W2_Q"]
  BY <1>1, <1>3, Facts DEF IInv, TypeInv
<1>7. TypeInv' BY <1>1, <1>5, <1>6 DEF IInv, TypeInv, S1PCs
<1>8. S1Inv' BY <1>1, <1>2, <1>3, <1>5, <1>6 DEF IInv, S1Inv
<1>9. W1Inv' BY <1>1, <1>5, <1>6 DEF IInv, W1Inv
<1>10. StopInv' BY <1>1, <1>2, <1>5 DEF IInv, StopInv
<1>11. FlowInv'
  <2>1. Delivered' = Delivered /\ TakenByW1' = TakenByW1 /\ TakenByW2' = TakenByW2
    BY <1>1, <1>2, <1>5 DEF Delivered, TakenByW1, TakenByW2
  <2>. QED BY <1>1, <1>5, <2>1, W1FlowSame, W2FlowSame DEF IInv, FlowInv
<1>12. EmptyInv' BY <1>1, <1>2 DEF EmptyInv
<1>. QED BY <1>7, <1>8, <1>9, <1>10, <1>11, <1>12 DEF IInv

LEMMA S1StoreIInv == ASSUME IInv, S1Store PROVE IInv'
<1>1. /\ UNCHANGED <<running, sem, mpc, ret, mq, loaded, sent, num1, num2, w2_dequeue_count>>
      /\ UNCHANGED <<get, total_sum, total_count, stopped, overlapped>>
      /\ count' = [count EXCEPT !["W1_Q"] = loaded["W1_Q"] + 1]
      /\ b' = [b EXCEPT !["W1_Q"] = sent]
      /\ Goto("S1", "send")
  BY DEF S1Store, ctlVars, s1Vars, w1Vars, w2Vars, history
<1>2. pc["S1"] = "store" /\ mpc \notin {"flush", "create"} BY RunsFacts, Facts DEF S1Store, IInv
<1>3. /\ pc' \in [Threads -> PCs] /\ pc'["S1"] = "send"
      /\ pc'["W1"] = pc["W1"] /\ pc'["W2"] = pc["W2"]
  <2>1. "send" \in PCs BY DEF PCs, S1PCs
  <2>. QED BY <1>1, <2>1, GotoFacts, Facts DEF IInv
<1>4. loaded["W1_Q"] \in Int /\ sent \in Nat /\ loaded["W1_Q"] <= sent - 1
  BY <1>2, Facts DEF IInv, TypeInv, S1Inv
<1>5. loaded["W1_Q"] + 1 \in Int /\ loaded["W1_Q"] + 1 <= sent BY <1>4
<1>6. /\ count' \in [Queues -> Int] /\ count'["W1_Q"] <= sent /\ count'["W2_Q"] = count["W2_Q"]
      /\ b' \in [Queues -> Nat] /\ b'["W1_Q"] = sent /\ b'["W2_Q"] = b["W2_Q"]
  BY <1>1, <1>4, <1>5, Facts DEF IInv, TypeInv
<1>7. TypeInv' BY <1>1, <1>3, <1>6 DEF IInv, TypeInv, S1PCs
<1>8. S1Inv' BY <1>1, <1>3, <1>6 DEF IInv, S1Inv
<1>9. W1Inv' BY <1>1, <1>3, <1>6 DEF IInv, W1Inv
<1>10. StopInv' BY <1>1, <1>2, <1>3 DEF IInv, StopInv
<1>11. FlowInv'
  <2>1. Delivered' = Delivered /\ TakenByW1' = TakenByW1 /\ TakenByW2' = TakenByW2
    BY <1>1, <1>2, <1>3 DEF Delivered, TakenByW1, TakenByW2
  <2>2. W1Flow => W1Flow' BY <1>1, <1>3, <1>6, <2>1 DEF W1Flow
  <2>. QED BY <1>1, <1>3, <1>6, <2>1, <2>2, W2FlowSame DEF IInv, FlowInv
<1>12. EmptyInv' BY <1>1, <1>2 DEF EmptyInv
<1>. QED BY <1>7, <1>8, <1>9, <1>10, <1>11, <1>12 DEF IInv

\* Unless the buffer was overwritten, what is sent is the number that was counted.
LEMMA S1SendIInv == ASSUME IInv, S1Send PROVE IInv'
<1>1. /\ UNCHANGED <<running, sem, mpc, ret, b, count, loaded, sent, num1, num2, w2_dequeue_count>>
      /\ UNCHANGED <<get, total_sum, total_count, stopped, overlapped>>
      /\ mq' = [mq EXCEPT !["W1_Q"] = Append(@, b["W1_Q"])]
      /\ Sent
  BY DEF S1Send, ctlVars, s1Vars, w1Vars, w2Vars, history
<1>2. pc["S1"] = "send" /\ mpc \notin {"flush", "create"} BY RunsFacts, Facts DEF S1Send, IInv
<1>3. /\ pc' \in [Threads -> PCs] /\ pc'["W1"] = pc["W1"] /\ pc'["W2"] = pc["W2"]
      /\ pc'["S1"] \in {"await_W1", "loop", "done"}
      /\ pc'["S1"] = "loop" => sent < N
      /\ ret["S1"] => pc'["S1"] # "done"
  BY <1>1, SentFacts DEF IInv, S1Inv
<1>4. mq["W1_Q"] \in Seq(Nat) /\ b["W1_Q"] \in Nat BY Facts DEF IInv, TypeInv
<1>5. /\ Append(mq["W1_Q"], b["W1_Q"]) \in Seq(Nat)
      /\ Len(Append(mq["W1_Q"], b["W1_Q"])) = Len(mq["W1_Q"]) + 1
      /\ \A i \in 1 .. Len(mq["W1_Q"]) : Append(mq["W1_Q"], b["W1_Q"])[i] = mq["W1_Q"][i]
      /\ Append(mq["W1_Q"], b["W1_Q"])[Len(mq["W1_Q"]) + 1] = b["W1_Q"]
      /\ Len(mq["W1_Q"]) \in Nat
  BY <1>4, AppendProperties
<1>6. /\ mq' \in [Queues -> Seq(Nat)] /\ mq'["W2_Q"] = mq["W2_Q"]
      /\ mq'["W1_Q"] = Append(mq["W1_Q"], b["W1_Q"])
  BY <1>1, <1>5, Facts DEF IInv, TypeInv
<1>7. TypeInv' BY <1>1, <1>3, <1>6 DEF IInv, TypeInv, S1PCs
<1>8. S1Inv' BY <1>1, <1>3 DEF IInv, S1Inv
<1>9. W1Inv' BY <1>1, <1>3 DEF IInv, W1Inv
<1>10. StopInv'
  <2>1. ~stopped => pc'["S1"] # "done" BY <1>3, Facts DEF IInv, StopInv
  <2>2. pc["S1"] # "done" BY <1>2
  <2>. QED BY <1>1, <1>2, <1>3, <2>1, <2>2 DEF IInv, StopInv
<1>11. ASSUME W1Flow PROVE W1Flow'
  <2>1. Delivered' = sent /\ Delivered = sent - 1 /\ TakenByW1' = TakenByW1
    BY <1>1, <1>2, <1>3 DEF Delivered, TakenByW1
  <2>6. w2_dequeue_count \in Nat /\ sent \in Nat BY DEF IInv, TypeInv
  <2>2. TakenByW1 \in Nat /\ sent \in Nat BY <2>6 DEF TakenByW1
  <2>3. Len(mq["W1_Q"]) = sent - 1 - TakenByW1 /\ b["W1_Q"] = sent
    BY <1>2, <1>11, <2>1 DEF W1Flow
  <2>4. Len(mq'["W1_Q"]) = sent - TakenByW1 BY <1>5, <1>6, <2>2, <2>3
  <2>5. ASSUME NEW i \in 1 .. Len(mq'["W1_Q"]) PROVE mq'["W1_Q"][i] = TakenByW1 + i
    <3>1. CASE i = Len(mq["W1_Q"]) + 1
      <4>1. mq'["W1_Q"][i] = sent BY <1>5, <1>6, <2>3, <3>1
      <4>. QED BY <2>2, <2>3, <3>1, <4>1
    <3>2. CASE i # Len(mq["W1_Q"]) + 1
      <4>1. i \in 1 .. Len(mq["W1_Q"]) BY <1>5, <1>6, <3>2
      <4>. QED BY <1>5, <1>6, <1>11, <4>1 DEF W1Flow
    <3>. QED BY <3>1, <3>2
  <2>. QED BY <1>1, <1>3, <1>11, <2>1, <2>4, <2>5 DEF W1Flow
<1>12. FlowInv'
  <2>1. TakenByW2' = TakenByW2 BY <1>1, <1>3 DEF TakenByW2
  <2>. QED BY <1>1, <1>2, <1>3, <1>6, <1>11, <2>1, W2FlowSame DEF IInv, FlowInv
<1>13. EmptyInv' BY <1>1, <1>2 DEF EmptyInv
<1>. QED BY <1>7, <1>8, <1>9, <1>10, <1>12, <1>13 DEF IInv

\* S1 passes running_W1 only when W1 has posted it.
LEMMA S1AwaitIInv == ASSUME IInv, S1Await PROVE IInv'
<1>1. /\ UNCHANGED <<running, mpc, ret, mq, b, count, loaded, sent, num1, num2, w2_dequeue_count>>
      /\ UNCHANGED <<get, total_sum, total_count, stopped, overlapped>>
      /\ sem' = [s \in Semaphores |-> IF s \in SemOf("S1") THEN sem[s] - 1 ELSE sem[s]]
  BY DEF S1Await, queueVars, s1Vars, w1Vars, w2Vars, history
<1>2. PICK at \in {"await_W2", "stop"} :
          /\ Goto("S1", at)
          /\ \/ Runs("S1", "await_W1") /\ at = "await_W2"
             \/ Runs("S1", "await_W2") /\ at = "stop"
  BY DEF S1Await
<1>3. /\ pc["S1"] \in {"await_W1", "await_W2"} /\ ~Sleeps("S1") /\ mpc \notin {"flush", "create"}
      /\ pc["S1"] = "await_W2" => at = "stop"
  <2>1. TypeInv /\ StopInv /\ "S1" \in Threads BY Facts DEF IInv
  <2>2. CASE Runs("S1", "await_W1") /\ at = "await_W2" BY <2>1, <2>2, RunsFacts
  <2>3. CASE Runs("S1", "await_W2") /\ at = "stop" BY <2>1, <2>3, RunsFacts
  <2>. QED BY <1>2, <2>2, <2>3
<1>4. /\ pc' \in [Threads -> PCs] /\ pc'["S1"] = at
      /\ pc'["W1"] = pc["W1"] /\ pc'["W2"] = pc["W2"]
  <2>1. at \in PCs BY DEF PCs, S1PCs
  <2>. QED BY <1>2, <2>1, GotoFacts, Facts DEF IInv
<1>5. \A s \in SemOf("S1") : sem[s] # 0 BY <1>3 DEF Sleeps
<1>6. SemOf("S1") = IF pc["S1"] = "await_W1" THEN {"running_W1"} ELSE {"running_W2"}
  BY <1>3 DEF SemOf
<1>7. sem' \in [Semaphores -> Nat]
  <2>1. ASSUME NEW s \in Semaphores PROVE (IF s \in SemOf("S1") THEN sem[s] - 1 ELSE sem[s]) \in Nat
    <3>1. sem[s] \in Nat BY DEF IInv, TypeInv
    <3>2. CASE s \in SemOf("S1") 
      <4>2. sem[s] # 0 BY <1>5, <3>2
      <4>1. sem[s] - 1 \in Nat BY <3>1, <4>2
      <4>. QED BY <3>2, <4>1
    <3>3. CASE s \notin SemOf("S1") BY <3>1, <3>3
    <3>. QED BY <3>2, <3>3
  <2>. QED BY <1>1, <2>1
<1>8. sem'["running_W1"] > 0 => sem["running_W1"] > 0
  <2>1. "running_W1" \in Semaphores BY Facts
  <2>2. sem["running_W1"] \in Nat BY <2>1 DEF IInv, TypeInv
  <2>3. sem'["running_W1"] = sem["running_W1"] - 1 \/ sem'["running_W1"] = sem["running_W1"]
    BY <1>1, <2>1
  <2>4. sem["running_W1"] - 1 > 0 => sem["running_W1"] > 0 BY <2>2
  <2>. QED BY <2>3, <2>4
<1>9. pc["S1"] = "await_W1" => pc["W1"] = "done"
  <2>1. ASSUME pc["S1"] = "await_W1" PROVE sem["running_W1"] > 0
    <3>1. sem["running_W1"] # 0 BY <1>5, <1>6, <2>1
    <3>2. sem["running_W1"] \in Nat BY Facts DEF IInv, TypeInv
    <3>3. \A n \in Nat : n # 0 => n > 0 OBVIOUS
    <3>. QED BY <3>1, <3>2, <3>3
  <2>. QED BY <2>1 DEF IInv, StopInv
<1>10. TypeInv' BY <1>1, <1>4, <1>7 DEF IInv, TypeInv, S1PCs
<1>11. S1Inv' BY <1>1, <1>4 DEF IInv, S1Inv
<1>12. W1Inv' BY <1>1, <1>4 DEF IInv, W1Inv
<1>13. StopInv'
  <2>1. ~stopped => pc["W1"] = "done" BY <1>3, <1>9 DEF IInv, StopInv
  <2>. QED BY <1>1, <1>3, <1>4, <1>8, <2>1 DEF IInv, StopInv
<1>14. FlowInv'
  <2>1. Delivered' = Delivered /\ TakenByW1' = TakenByW1 /\ TakenByW2' = TakenByW2
    BY <1>1, <1>3, <1>4 DEF Delivered, TakenByW1, TakenByW2
  <2>. QED BY <1>1, <1>4, <2>1, W1FlowSame, W2FlowSame DEF IInv, FlowInv
<1>15. EmptyInv' BY <1>1, <1>3 DEF EmptyInv
<1>. QED BY <1>10, <1>11, <1>12, <1>13, <1>14, <1>15 DEF IInv

LEMMA S1StopIInv == ASSUME IInv, S1Stop PROVE IInv'
<1>1. /\ UNCHANGED <<sem, mpc, ret, mq, b, count, loaded, sent, num1, num2, w2_dequeue_count>>
      /\ UNCHANGED <<get, total_sum, total_count, stopped, overlapped>> /\ running' = FALSE
  BY DEF S1Stop, queueVars, s1Vars, w1Vars, w2Vars, history
<1>2. PICK at \in {"loop", "done"} : Goto("S1", at) BY DEF S1Stop
<1>3. pc["S1"] = "stop" /\ mpc \notin {"flush", "create"} BY RunsFacts, Facts DEF S1Stop, IInv
<1>4. /\ pc' \in [Threads -> PCs] /\ pc'["S1"] = at
      /\ pc'["W1"] = pc["W1"] /\ pc'["W2"] = pc["W2"]
  <2>1. at \in PCs BY DEF PCs, S1PCs
  <2>. QED BY <1>2, <2>1, GotoFacts, Facts DEF IInv
<1>5. TypeInv' BY <1>1, <1>4 DEF IInv, TypeInv, S1PCs
<1>6. S1Inv' BY <1>1, <1>4 DEF IInv, S1Inv
<1>7. W1Inv' BY <1>1, <1>4 DEF IInv, W1Inv
<1>8. StopInv' BY <1>1, <1>3, <1>4 DEF IInv, StopInv
<1>9. FlowInv'
  <2>1. Delivered' = Delivered /\ TakenByW1' = TakenByW1 /\ TakenByW2' = TakenByW2
    BY <1>1, <1>3, <1>4 DEF Delivered, TakenByW1, TakenByW2
  <2>. QED BY <1>1, <1>4, <2>1, W1FlowSame, W2FlowSame DEF IInv, FlowInv
<1>10. EmptyInv' BY <1>1, <1>3 DEF EmptyInv
<1>. QED BY <1>5, <1>6, <1>7, <1>8, <1>9, <1>10 DEF IInv

-----------------------------------------------------------------------------
(* W1.                                                                     *)

LEMMA TailFacts ==
    ASSUME NEW s \in Seq(Nat), s # <<>>
    PROVE  /\ Head(s) = s[1] /\ Head(s) \in Nat /\ 1 \in 1 .. Len(s)
           /\ Tail(s) \in Seq(Nat) /\ Len(s) \in Nat \ {0} /\ Len(Tail(s)) = Len(s) - 1
           /\ \A i \in 1 .. Len(Tail(s)) : i + 1 \in 1 .. Len(s) /\ Tail(s)[i] = s[i + 1]
<1>1. /\ Head(s) \in Nat /\ Tail(s) \in Seq(Nat) /\ Len(Tail(s)) = Len(s) - 1
      /\ \A i \in 1 .. Len(Tail(s)) : Tail(s)[i] = s[i + 1]
  BY HeadTailProperties
<1>2. Len(s) \in Nat \ {0} /\ Head(s) = s[1] BY EmptySeq
<1>. DEFINE u == Tail(s)
<1>. HIDE DEF u
<1>3. \A i \in 1 .. Len(u) : Len(u) = Len(s) - 1 => i + 1 \in 1 .. Len(s) BY <1>2
<1>4. 1 \in 1 .. Len(s) BY <1>2
<1>. QED BY <1>1, <1>2, <1>3, <1>4 DEF u

\* The two numbers of a pair are received in the order in which S1 sent them.
LEMMA W1ReceiveIInv == ASSUME IInv, W1Receive PROVE IInv'
<1>1. /\ UNCHANGED <<running, sem, mpc, ret, loaded, sent, w2_dequeue_count>>
      /\ UNCHANGED <<get, total_sum, total_count, stopped>>
      /\ mq' = [mq EXCEPT !["W1_Q"] = Tail(@)]
      /\ b' = [b EXCEPT !["W1_Q"] = Head(mq["W1_Q"])]
      /\ overlapped' = (overlapped \/ pc["S1"] = "send")
  BY DEF W1Receive, ctlVars, s1Vars, w2Vars
<1>2. TypeInv /\ StopInv /\ "W1" \in Threads BY Facts DEF IInv
<1>3. PICK at \in {"receive_2", "send"} :
          \/ /\ Runs("W1", "receive_1") /\ Goto("W1", at) /\ at = "receive_2"
             /\ num1' = Head(mq["W1_Q"]) /\ num2' = num2
             /\ count' = [count EXCEPT !["W1_Q"] = @ - 1]
          \/ /\ Runs("W1", "receive_2") /\ Goto("W1", at) /\ at = "send"
             /\ num2' = Head(mq["W1_Q"]) /\ num1' = num1 /\ count' = count
  BY DEF W1Receive
<1>4. /\ pc["W1"] = (IF at = "send" THEN "receive_2" ELSE "receive_1")
      /\ ~Sleeps("W1") /\ mpc \notin {"flush", "create"}
  <2>1. CASE Runs("W1", "receive_1") /\ at = "receive_2" BY <1>2, <2>1, RunsFacts
  <2>2. CASE Runs("W1", "receive_2") /\ at = "send" BY <1>2, <2>2, RunsFacts
  <2>. QED BY <1>3, <2>1, <2>2
<1>5. mq["W1_Q"] \in Seq(Nat) /\ mq["W1_Q"] # <<>>
  BY <1>2, <1>4, Facts DEF TypeInv, Sleeps, Inbox
<1>6. /\ pc' \in [Threads -> PCs] /\ pc'["W1"] = at
      /\ pc'["S1"] = pc["S1"] /\ pc'["W2"] = pc["W2"]
  <2>1. at \in PCs BY DEF PCs, S1PCs, W1PCs
  <2>. QED BY <1>2, <1>3, <2>1, GotoFacts, Facts
<1>7. /\ Head(mq["W1_Q"]) \in Nat /\ Tail(mq["W1_Q"]) \in Seq(Nat) BY <1>5, TailFacts
<1>8. /\ mq' \in [Queues -> Seq(Nat)] /\ mq'["W1_Q"] = Tail(mq["W1_Q"]) /\ mq'["W2_Q"] = mq["W2_Q"]
      /\ b' \in [Queues -> Nat] /\ b'["W2_Q"] = b["W2_Q"]
  BY <1>1, <1>2, <1>7, Facts DEF TypeInv
<1>9. /\ count' \in [Queues -> Int] /\ count'["W2_Q"] = count["W2_Q"]
      /\ count["W1_Q"] \in Int /\ count'["W1_Q"] \in Int /\ count'["W1_Q"] <= count["W1_Q"]
  <2>1. count \in [Queues -> Int] BY <1>2 DEF TypeInv
  <2>2. count' = [count EXCEPT !["W1_Q"] = @ - 1] \/ count' = count BY <1>3
  <2>. QED BY <2>1, <2>2, Facts
<1>10. num1' \in Nat /\ num2' \in Nat /\ overlapped' \in BOOLEAN
  BY <1>1, <1>2, <1>3, <1>7 DEF TypeInv
<1>11. TypeInv' BY <1>1, <1>2, <1>6, <1>8, <1>9, <1>10 DEF TypeInv, W1PCs
<1>12. S1Inv'
  <2>1. sent \in Nat BY <1>2 DEF TypeInv
  <2>2. /\ count["W1_Q"] <= sent => count'["W1_Q"] <= sent
        /\ count["W1_Q"] <= sent - 1 => count'["W1_Q"] <= sent - 1
    BY <1>9, <2>1
  <2>. QED BY <1>1, <1>6, <2>2 DEF IInv, S1Inv
<1>13. W1Inv' BY <1>1, <1>4, <1>6, <1>9 DEF IInv, W1Inv
<1>14. StopInv'
  <2>1. pc["W1"] # "done" BY <1>4
  <2>. QED BY <1>1, <1>4, <1>6, <2>1 DEF IInv, StopInv
<1>15. ASSUME W1Flow, pc["S1"] # "send" PROVE W1Flow'
  <2>. DEFINE s == mq["W1_Q"]
              u == Tail(s)
  <2>1. /\ Head(s) = s[1] /\ 1 \in 1 .. Len(s) /\ Len(s) \in Nat /\ Len(u) = Len(s) - 1
        /\ \A i \in 1 .. Len(u) : i + 1 \in 1 .. Len(s) /\ u[i] = s[i + 1]
    BY <1>5, TailFacts
  <2>. HIDE DEF u
  <2>2. w2_dequeue_count \in Nat /\ sent \in Nat BY <1>2 DEF TypeInv
  <2>3. /\ TakenByW1 = w2_dequeue_count + (IF at = "send" THEN 1 ELSE 0)
        /\ TakenByW1' = w2_dequeue_count + (IF at = "send" THEN 2 ELSE 1)
    BY <1>1, <1>4, <1>6, <2>2 DEF TakenByW1
  <2>4. TakenByW1 \in Nat /\ TakenByW1' = TakenByW1 + 1 BY <2>2, <2>3
  <2>5. Delivered' = Delivered /\ Delivered \in Int BY <1>1, <1>6, <2>2 DEF Delivered
  <2>6. Len(s) = Delivered - TakenByW1 /\ \A i \in 1 .. Len(s) : s[i] = TakenByW1 + i
    BY <1>15 DEF W1Flow
  <2>7. Len(u) = Delivered' - TakenByW1' BY <2>1, <2>4, <2>5, <2>6
  <2>8. ASSUME NEW i \in 1 .. Len(u) PROVE u[i] = TakenByW1' + i
    <3>1. u[i] = TakenByW1 + (i + 1) BY <2>1, <2>6
    <3>. QED BY <2>4, <3>1
  <2>9. Head(s) = TakenByW1 + 1 BY <2>1, <2>6
  <2>10. mq'["W1_Q"] = u BY <1>8 DEF u
  <2>11. at = "receive_2" => num1' = w2_dequeue_count + 1 BY <1>3, <2>2, <2>3, <2>9
  <2>12. at = "send" => num1' = w2_dequeue_count + 1 /\ num2' = w2_dequeue_count + 2
    <3>1. ASSUME at = "send" PROVE num1' = num1 /\ num2' = Head(s) /\ pc["W1"] = "receive_2"
      BY <1>3, <1>4, <3>1
    <3>2. pc["W1"] = "receive_2" => num1 = w2_dequeue_count + 1 BY <1>15 DEF W1Flow
    <3>3. at = "send" => Head(s) = w2_dequeue_count + 2 BY <2>2, <2>3, <2>9
    <3>. QED BY <3>1, <3>2, <3>3
  <2>. QED BY <1>1, <1>6, <1>15, <2>7, <2>8, <2>10, <2>11, <2>12 DEF W1Flow
<1>16. FlowInv'
  <2>1. TakenByW2' = TakenByW2 BY <1>1, <1>6 DEF TakenByW2
  <2>. QED BY <1>1, <1>4, <1>6, <1>8, <1>15, <2>1, W2FlowSame DEF IInv, FlowInv
<1>17. EmptyInv' BY <1>1, <1>4 DEF EmptyInv
<1>. QED BY <1>11, <1>12, <1>13, <1>14, <1>16, <1>17 DEF IInv

\* The counter is below its limit, so the sum is sent; the last one ends W1.
LEMMA W1SendIInv == ASSUME IInv, W1Send PROVE IInv'
<1>1. /\ UNCHANGED <<running, mpc, ret, loaded, sent, num1, num2>>
      /\ UNCHANGED <<get, total_sum, total_count, stopped>>
      /\ w2_dequeue_count' = w2_dequeue_count + 2
      /\ SendSum
  BY DEF W1Send, s1Vars, w2Vars
<1>2. TypeInv /\ StopInv /\ "W1" \in Threads BY Facts DEF IInv
<1>3. pc["W1"] = "send" /\ mpc \notin {"flush", "create"} BY <1>2, RunsFacts DEF W1Send
<1>4. /\ w2_dequeue_count \in Nat /\ num1 \in Nat /\ num2 \in Nat /\ mq["W2_Q"] \in Seq(Nat)
      /\ count["W2_Q"] \in Int
  BY <1>2, Facts DEF TypeInv
<1>5. w2_dequeue_count <= N - 2 /\ count["W2_Q"] <= w2_dequeue_count BY <1>3 DEF IInv, W1Inv
<1>6. count["W2_Q"] # QueueSize BY <1>4, <1>5, Facts
<1>7. /\ count' = [count EXCEPT !["W2_Q"] = count["W2_Q"] + 1]
      /\ b' = [b EXCEPT !["W2_Q"] = num1 + num2]
      /\ mq' = [mq EXCEPT !["W2_Q"] = Append(mq["W2_Q"], num1 + num2)]
      /\ overlapped' = (overlapped \/ pc["W2"] = "copy")
  BY <1>1, <1>6 DEF SendSum
<1>8. PICK at \in {"loop", "done"} :
          /\ Goto("W1", at)
          /\ sem' = sem \/ (sem' = Posted("running_W1") /\ at = "done")
          /\ ret["W1"] /\ at = "loop" => ~(w2_dequeue_count' > N - 2)
          /\ at = "loop" => ret["W1"]
  BY DEF W1Send
<1>9. /\ pc' \in [Threads -> PCs] /\ pc'["W1"] = at
      /\ pc'["S1"] = pc["S1"] /\ pc'["W2"] = pc["W2"]
  <2>1. at \in PCs BY DEF PCs, S1PCs
  <2>. QED BY <1>2, <1>8, <2>1, GotoFacts, Facts
<1>10. sem' \in [Semaphores -> Nat] /\ (at # "done" => sem' = sem)
  <2>1. "running_W1" \in Semaphores BY Facts
  <2>2. sem["running_W1"] \in Nat BY <1>2, <2>1 DEF TypeInv
  <2>3. sem["running_W1"] + 1 \in Nat BY <2>2
  <2>4. Posted("running_W1") \in [Semaphores -> Nat] BY <1>2, <2>1, <2>3 DEF Posted, TypeInv
  <2>. QED BY <1>2, <1>8, <2>4 DEF TypeInv
<1>11. num1 + num2 \in Nat BY <1>4
<1>12. /\ Append(mq["W2_Q"], num1 + num2) \in Seq(Nat)
       /\ Len(Append(mq["W2_Q"], num1 + num2)) = Len(mq["W2_Q"]) + 1
       /\ \A i \in 1 .. Len(mq["W2_Q"]) : Append(mq["W2_Q"], num1 + num2)[i] = mq["W2_Q"][i]
       /\ Append(mq["W2_Q"], num1 + num2)[Len(mq["W2_Q"]) + 1] = num1 + num2
       /\ Len(mq["W2_Q"]) \in Nat
  BY <1>4, <1>11, AppendProperties
<1>13. /\ mq' \in [Queues -> Seq(Nat)] /\ mq'["W1_Q"] = mq["W1_Q"]
       /\ mq'["W2_Q"] = Append(mq["W2_Q"], num1 + num2)
       /\ b' \in [Queues -> Nat] /\ b'["W1_Q"] = b["W1_Q"]
  BY <1>2, <1>7, <1>11, <1>12, Facts DEF TypeInv
<1>14. /\ count' \in [Queues -> Int] /\ count'["W1_Q"] = count["W1_Q"]
       /\ count'["W2_Q"] = count["W2_Q"] + 1
  BY <1>2, <1>4, <1>7, Facts DEF TypeInv
<1>15. w2_dequeue_count' \in Nat /\ overlapped' \in BOOLEAN BY <1>1, <1>4, <1>7
<1>16. TypeInv' BY <1>1, <1>2, <1>9, <1>10, <1>13, <1>14, <1>15 DEF TypeInv, W1PCs
<1>17. S1Inv' BY <1>1, <1>9, <1>14 DEF IInv, S1Inv
<1>18. W1Inv'
  <2>1. count'["W2_Q"] <= w2_dequeue_count' BY <1>1, <1>4, <1>5, <1>14
  <2>2. at # "done" => w2_dequeue_count' <= N - 2
    <3>1. w2_dequeue_count' \in Nat /\ N \in Nat BY <1>15, Facts
    <3>2. at # "done" => ~(w2_dequeue_count' > N - 2) BY <1>8
    <3>. QED BY <3>1, <3>2
  <2>3. pc["W2"] = "store" => loaded["W2_Q"] <= w2_dequeue_count'
    <3>1. loaded["W2_Q"] \in Int BY <1>2, Facts DEF TypeInv
    <3>2. loaded["W2_Q"] <= w2_dequeue_count => loaded["W2_Q"] <= w2_dequeue_count'
      BY <1>1, <1>4, <3>1
    <3>. QED BY <3>2 DEF IInv, W1Inv
  <2>. QED BY <1>1, <1>9, <2>1, <2>2, <2>3 DEF W1Inv
<1>19. StopInv'
  <2>1. pc["W1"] # "done" BY <1>3
  <2>. QED BY <1>1, <1>3, <1>9, <1>10, <2>1 DEF IInv, StopInv
<1>20. ASSUME W1Flow PROVE W1Flow'
  <2>1. TakenByW1 = w2_dequeue_count + 2 BY <1>3 DEF TakenByW1
  <2>2. TakenByW1' = w2_dequeue_count'
    <3>1. pc'["W1"] # "receive_2" /\ pc'["W1"] # "send" BY <1>9
    <3>2. w2_dequeue_count' + 0 = w2_dequeue_count' BY <1>15, Arithmetic
    <3>. QED BY <3>1, <3>2 DEF TakenByW1
  <2>3. Delivered' = Delivered BY <1>1, <1>9 DEF Delivered
  <2>. QED BY <1>1, <1>9, <1>13, <1>20, <2>1, <2>2, <2>3 DEF W1Flow
<1>21. ASSUME W1Flow, W2Flow, pc["W2"] # "copy" PROVE W2Flow'
  <2>. DEFINE s == mq["W2_Q"]
              u == Append(s, num1 + num2)
  <2>1. TakenByW2' = TakenByW2 /\ TakenByW2 \in Nat
    BY <1>1, <1>2, <1>9 DEF TakenByW2, TypeInv
  <2>2. 2 * (TakenByW2 + Len(s)) = w2_dequeue_count BY <1>21 DEF W2Flow
  <2>3. num1 + num2 = 2 * w2_dequeue_count + 3
    <3>1. num1 = w2_dequeue_count + 1 /\ num2 = w2_dequeue_count + 2 BY <1>3, <1>21 DEF W1Flow
    <3>. QED BY <1>4, <3>1
  <2>. HIDE DEF u
  <2>4. /\ Len(u) = Len(s) + 1 /\ Len(s) \in Nat
        /\ \A i \in 1 .. Len(s) : u[i] = s[i]
        /\ u[Len(s) + 1] = num1 + num2
    BY <1>12 DEF u
  <2>5. 2 * (TakenByW2' + Len(u)) = w2_dequeue_count'
    <3>1. w2_dequeue_count' = w2_dequeue_count + 2 BY <1>1
    <3>2. 2 * (TakenByW2 + (Len(s) + 1)) = 2 * (TakenByW2 + Len(s)) + 2 BY <2>1, <2>4
    <3>. QED BY <2>1, <2>2, <2>4, <3>1, <3>2
  <2>6. ASSUME NEW i \in 1 .. Len(u) PROVE u[i] = 4 * (TakenByW2' + i) - 1
    <3>1. CASE i = Len(s) + 1 BY <1>4, <2>1, <2>2, <2>3, <2>4, <3>1
    <3>2. CASE i # Len(s) + 1
      <4>1. i \in 1 .. Len(s) BY <2>4, <3>2
      <4>. QED BY <1>21, <2>1, <2>4, <4>1 DEF W2Flow
    <3>. QED BY <3>1, <3>2
  <2>7. mq'["W2_Q"] = u BY <1>13 DEF u
  <2>. QED BY <1>1, <1>9, <1>21, <2>1, <2>5, <2>6, <2>7 DEF W2Flow
<1>22. FlowInv' BY <1>1, <1>3, <1>7, <1>20, <1>21 DEF IInv, FlowInv
<1>23. EmptyInv' BY <1>1, <1>3 DEF EmptyInv
<1>. QED BY <1>16, <1>17, <1>18, <1>19, <1>22, <1>23 DEF IInv

-----------------------------------------------------------------------------
(* W2.                                                                     *)

LEMMA W2DequeueIInv == ASSUME IInv, W2Dequeue PROVE IInv'
<1>1. /\ UNCHANGED <<running, sem, mpc, ret, mq, b, sent, num1, num2, w2_dequeue_count>>
      /\ UNCHANGED <<get, total_sum, total_count, stopped, overlapped>>
  BY DEF W2Dequeue, ctlVars, s1Vars, w1Vars, w2Vars, history
<1>2. TypeInv /\ StopInv /\ "W2" \in Threads BY Facts DEF IInv
<1>3. PICK at \in {"store", "receive_1"} :
          \/ /\ Runs("W2", "dequeue") /\ Goto("W2", at) /\ at = "store" /\ count' = count
             /\ loaded' = [loaded EXCEPT !["W2_Q"] = count["W2_Q"]]
          \/ /\ Runs("W2", "store") /\ Goto("W2", at) /\ at = "receive_1" /\ loaded' = loaded
             /\ count' = [count EXCEPT !["W2_Q"] = loaded["W2_Q"] - 1]
  BY DEF W2Dequeue
<1>4. pc["W2"] = (IF at = "store" THEN "dequeue" ELSE "store") /\ mpc \notin {"flush", "create"}
  <2>1. CASE Runs("W2", "dequeue") /\ at = "store" BY <1>2, <2>1, RunsFacts
  <2>2. CASE Runs("W2", "store") /\ at = "receive_1" BY <1>2, <2>2, RunsFacts
  <2>. QED BY <1>3, <2>1, <2>2
<1>5. /\ pc' \in [Threads -> PCs] /\ pc'["W2"] = at
      /\ pc'["S1"] = pc["S1"] /\ pc'["W1"] = pc["W1"]
  <2>1. at \in PCs BY DEF PCs, W2PCs
  <2>. QED BY <1>2, <1>3, <2>1, GotoFacts, Facts
<1>6. /\ count["W2_Q"] \in Int /\ loaded["W2_Q"] \in Int /\ loaded["W2_Q"] - 1 \in Int
      /\ w2_dequeue_count \in Nat
  BY <1>2, Facts DEF TypeInv
<1>7. /\ count' \in [Queues -> Int] /\ loaded' \in [Queues -> Int]
      /\ count'["W1_Q"] = count["W1_Q"] /\ loaded'["W1_Q"] = loaded["W1_Q"]
      /\ at = "store" => count'["W2_Q"] = count["W2_Q"] /\ loaded'["W2_Q"] = count["W2_Q"]
      /\ at # "store" => count'["W2_Q"] = loaded["W2_Q"] - 1
  BY <1>2, <1>3, <1>6, Facts DEF TypeInv
<1>8. TypeInv' BY <1>1, <1>2, <1>5, <1>7 DEF TypeInv, W2PCs
<1>9. S1Inv' BY <1>1, <1>5, <1>7 DEF IInv, S1Inv
<1>10. W1Inv'
  <2>1. count["W2_Q"] <= w2_dequeue_count BY DEF IInv, W1Inv
  <2>2. at # "store" => loaded["W2_Q"] <= w2_dequeue_count BY <1>4 DEF IInv, W1Inv
  <2>3. at # "store" => loaded["W2_Q"] - 1 <= w2_dequeue_count BY <1>6, <2>2
  <2>. QED BY <1>1, <1>5, <1>7, <2>1, <2>3 DEF IInv, W1Inv
<1>11. StopInv' BY <1>1, <1>4, <1>5 DEF IInv, StopInv
<1>12. FlowInv'
  <2>1. Delivered' = Delivered /\ TakenByW1' = TakenByW1 BY <1>1, <1>5 DEF Delivered, TakenByW1
  <2>2. TakenByW2' = TakenByW2 BY <1>1, <1>4, <1>5 DEF TakenByW2
  <2>. QED BY <1>1, <1>4, <1>5, <2>1, <2>2, W1FlowSame, W2FlowSame DEF IInv, FlowInv
<1>13. EmptyInv' BY <1>1, <1>4 DEF EmptyInv
<1>. QED BY <1>8, <1>9, <1>10, <1>11, <1>12, <1>13 DEF IInv

LEMMA W2ReceiveIInv == ASSUME IInv, W2Receive PROVE IInv'
<1>1. /\ UNCHANGED <<running, sem, mpc, ret, count, loaded, sent, num1, num2, w2_dequeue_count>>
      /\ UNCHANGED <<get, total_sum, total_count, stopped, overlapped>>
      /\ mq' = [mq EXCEPT !["W2_Q"] = Tail(@)]
      /\ b' = [b EXCEPT !["W2_Q"] = Head(mq["W2_Q"])]
      /\ Runs("W2", "receive_1") /\ Goto("W2", "copy")
  BY DEF W2Receive, ctlVars, s1Vars, w1Vars, w2Vars, history
<1>2. TypeInv /\ StopInv /\ "W2" \in Threads BY Facts DEF IInv
<1>3. pc["W2"] = "receive_1" /\ ~Sleeps("W2") /\ mpc \notin {"flush", "create"}
  BY <1>1, <1>2, RunsFacts
<1>4. /\ pc' \in [Threads -> PCs] /\ pc'["W2"] = "copy"
      /\ pc'["S1"] = pc["S1"] /\ pc'["W1"] = pc["W1"]
  <2>1. "copy" \in PCs BY DEF PCs, W2PCs
  <2>. QED BY <1>1, <1>2, <2>1, GotoFacts, Facts
<1>5. mq["W2_Q"] \in Seq(Nat) /\ mq["W2_Q"] # <<>>
  BY <1>2, <1>3, Facts DEF TypeInv, Sleeps, Inbox
<1>6. Head(mq["W2_Q"]) \in Nat /\ Tail(mq["W2_Q"]) \in Seq(Nat) BY <1>5, TailFacts
<1>7. /\ mq' \in [Queues -> Seq(Nat)] /\ mq'["W2_Q"] = Tail(mq["W2_Q"]) /\ mq'["W1_Q"] = mq["W1_Q"]
      /\ b' \in [Queues -> Nat] /\ b'["W1_Q"] = b["W1_Q"] /\ b'["W2_Q"] = Head(mq["W2_Q"])
  BY <1>1, <1>2, <1>6, Facts DEF TypeInv
<1>8. TypeInv' BY <1>1, <1>2, <1>4, <1>7 DEF TypeInv, W2PCs
<1>9. S1Inv' /\ W1Inv' BY <1>1, <1>4 DEF IInv, S1Inv, W1Inv
<1>10. StopInv' BY <1>1, <1>3, <1>4 DEF IInv, StopInv
<1>11. ASSUME W2Flow PROVE W2Flow'
  <2>. DEFINE s == mq["W2_Q"]
              u == Tail(s)
  <2>1. /\ Head(s) = s[1] /\ 1 \in 1 .. Len(s) /\ Len(s) \in Nat /\ Len(u) = Len(s) - 1
        /\ \A i \in 1 .. Len(u) : i + 1 \in 1 .. Len(s) /\ u[i] = s[i + 1]
    BY <1>5, TailFacts
  <2>. HIDE DEF u
  <2>2. total_count \in Nat BY <1>2 DEF TypeInv
  <2>3. TakenByW2 = total_count /\ TakenByW2' = total_count + 1
    <3>1. total_count + 0 = total_count BY <2>2
    <3>. QED BY <1>1, <1>3, <1>4, <3>1 DEF TakenByW2
  <2>4. /\ 2 * (total_count + Len(s)) = w2_dequeue_count
        /\ \A i \in 1 .. Len(s) : s[i] = 4 * (total_count + i) - 1
        /\ total_sum = total_count * (2 * total_count + 1)
    BY <1>11, <2>3 DEF W2Flow
  <2>5. 2 * (TakenByW2' + Len(u)) = w2_dequeue_count BY <2>1, <2>2, <2>3, <2>4, Arithmetic
  <2>6. ASSUME NEW i \in 1 .. Len(u) PROVE u[i] = 4 * (TakenByW2' + i) - 1
    <3>1. u[i] = 4 * (total_count + (i + 1)) - 1 BY <2>1, <2>4
    <3>. QED BY <2>2, <2>3, <3>1
  <2>7. Head(s) = 4 * TakenByW2' - 1 BY <2>1, <2>2, <2>3, <2>4
  <2>8. mq'["W2_Q"] = u BY <1>7 DEF u
  <2>. QED BY <1>1, <1>4, <1>7, <2>4, <2>5, <2>6, <2>7, <2>8 DEF W2Flow
<1>12. FlowInv'
  <2>1. Delivered' = Delivered /\ TakenByW1' = TakenByW1 BY <1>1, <1>4 DEF Delivered, TakenByW1
  <2>. QED BY <1>1, <1>3, <1>4, <1>7, <1>11, <2>1, W1FlowSame DEF IInv, FlowInv
<1>13. EmptyInv' BY <1>1, <1>3 DEF EmptyInv
<1>. QED BY <1>8, <1>9, <1>10, <1>12, <1>13 DEF IInv

\* Unless W1 overwrote it, W2 copies out of b the sum it has just received.
LEMMA W2CopyIInv == ASSUME IInv, W2Copy PROVE IInv'
<1>1. /\ UNCHANGED <<running, sem, mpc, ret, mq, b, count, loaded, sent, num1, num2, w2_dequeue_count>>
      /\ UNCHANGED <<total_sum, total_count, stopped, overlapped>>
      /\ get' = b["W2_Q"]
      /\ Runs("W2", "copy") /\ Goto("W2", "add")
  BY DEF W2Copy, ctlVars, queueVars, s1Vars, w1Vars, history
<1>2. TypeInv /\ StopInv /\ "W2" \in Threads BY Facts DEF IInv
<1>3. pc["W2"] = "copy" /\ mpc \notin {"flush", "create"} BY <1>1, <1>2, RunsFacts
<1>4. /\ pc' \in [Threads -> PCs] /\ pc'["W2"] = "add"
      /\ pc'["S1"] = pc["S1"] /\ pc'["W1"] = pc["W1"]
  <2>1. "add" \in PCs BY DEF PCs, W2PCs
  <2>. QED BY <1>1, <1>2, <2>1, GotoFacts, Facts
<1>5. get' \in Nat BY <1>1, <1>2, Facts DEF TypeInv
<1>6. TypeInv' BY <1>1, <1>2, <1>4, <1>5 DEF TypeInv, W2PCs
<1>7. S1Inv' /\ W1Inv' BY <1>1, <1>4 DEF IInv, S1Inv, W1Inv
<1>8. StopInv' BY <1>1, <1>3, <1>4 DEF IInv, StopInv
<1>9. FlowInv'
  <2>1. Delivered' = Delivered /\ TakenByW1' = TakenByW1 BY <1>1, <1>4 DEF Delivered, TakenByW1
  <2>2. TakenByW2' = TakenByW2 BY <1>1, <1>3, <1>4 DEF TakenByW2
  <2>3. W2Flow => W2Flow' BY <1>1, <1>3, <1>4, <2>2 DEF W2Flow
  <2>. QED BY <1>1, <1>3, <1>4, <2>1, <2>3, W1FlowSame DEF IInv, FlowInv
<1>10. EmptyInv' BY <1>1, <1>3 DEF EmptyInv
<1>. QED BY <1>6, <1>7, <1>8, <1>9, <1>10 DEF IInv

\* The sum of the first n pairs, and one pair more
LEMMA NextPair ==
    ASSUME NEW n \in Nat
    PROVE  n * (2 * n + 1) + (4 * (n + 1) - 1) = (n + 1) * (2 * (n + 1) + 1)
OBVIOUS

LEMMA W2AddIInv == ASSUME IInv, W2Add PROVE IInv'
<1>1. /\ UNCHANGED <<running, mpc, ret, mq, b, count, loaded, sent, num1, num2, w2_dequeue_count>>
      /\ UNCHANGED <<get, stopped, overlapped>>
      /\ total_sum' = total_sum + get /\ total_count' = total_count + 1
      /\ Runs("W2", "add")
  BY DEF W2Add, queueVars, s1Vars, w1Vars, history
<1>2. TypeInv /\ StopInv /\ "W2" \in Threads BY Facts DEF IInv
<1>3. pc["W2"] = "add" /\ mpc \notin {"flush", "create"} BY <1>1, <1>2, RunsFacts
<1>4. PICK at \in {"loop", "done"} : Goto("W2", at) /\ (sem' = sem \/ sem' = Posted("running_W2"))
  BY DEF W2Add
<1>5. /\ pc' \in [Threads -> PCs] /\ pc'["W2"] = at
      /\ pc'["S1"] = pc["S1"] /\ pc'["W1"] = pc["W1"]
  <2>1. at \in PCs BY DEF PCs, W2PCs
  <2>. QED BY <1>2, <1>4, <2>1, GotoFacts, Facts
<1>6. sem' \in [Semaphores -> Nat] /\ sem'["running_W1"] = sem["running_W1"]
  <2>1. "running_W2" \in Semaphores /\ "running_W1" \in Semaphores BY Facts
  <2>2. sem["running_W2"] \in Nat BY <1>2, <2>1 DEF TypeInv
  <2>3. sem["running_W2"] + 1 \in Nat BY <2>2
  <2>4. Posted("running_W2") \in [Semaphores -> Nat] /\ Posted("running_W2")["running_W1"] = sem["running_W1"]
    BY <1>2, <2>1, <2>3 DEF Posted, TypeInv
  <2>. QED BY <1>2, <1>4, <2>4 DEF TypeInv
<1>7. /\ total_sum \in Nat /\ total_count \in Nat /\ get \in Nat
      /\ total_sum' \in Nat /\ total_count' \in Nat
  BY <1>1, <1>2 DEF TypeInv
<1>8. TypeInv' BY <1>1, <1>2, <1>5, <1>6, <1>7 DEF TypeInv, W2PCs
<1>9. S1Inv' /\ W1Inv' BY <1>1, <1>5 DEF IInv, S1Inv, W1Inv
<1>10. StopInv' BY <1>1, <1>3, <1>5, <1>6 DEF IInv, StopInv
<1>11. ASSUME W2Flow PROVE W2Flow'
  <2>1. TakenByW2 = total_count + 1 BY <1>3 DEF TakenByW2
  <2>2. TakenByW2' = total_count'
    <3>1. pc'["W2"] # "copy" /\ pc'["W2"] # "add" BY <1>5
    <3>2. total_count' + 0 = total_count' BY <1>7, Arithmetic
    <3>. QED BY <3>1, <3>2 DEF TakenByW2
  <2>3. total_sum = total_count * (2 * total_count + 1) /\ get = 4 * (total_count + 1) - 1
    BY <1>3, <1>11, <2>1 DEF W2Flow
  <2>4. total_sum' = total_count' * (2 * total_count' + 1) BY <1>1, <1>7, <2>3, NextPair
  <2>. QED BY <1>1, <1>5, <1>11, <2>1, <2>2, <2>4 DEF W2Flow
<1>12. FlowInv'
  <2>1. Delivered' = Delivered /\ TakenByW1' = TakenByW1 BY <1>1, <1>5 DEF Delivered, TakenByW1
  <2>. QED BY <1>1, <1>3, <1>5, <1>11, <2>1, W1FlowSame DEF IInv, FlowInv
<1>13. EmptyInv' BY <1>1, <1>3 DEF EmptyInv
<1>. QED BY <1>8, <1>9, <1>10, <1>12, <1>13 DEF IInv

-----------------------------------------------------------------------------
LEMMA NextIInv == IInv /\ [Next]_vars => IInv'
<1>. SUFFICES ASSUME IInv, [Next]_vars PROVE IInv'
  OBVIOUS
<1>1. CASE Main BY <1>1, FlushIInv, CreateIInv, JoinIInv DEF Main
<1>2. CASE Handlers BY <1>2, ReleaseIInv DEF Handlers
<1>3. CASE S1
  BY <1>3, LoopIInv, SemWaitIInv, S1LoadIInv, S1StoreIInv, S1SendIInv, S1AwaitIInv, S1StopIInv, Facts DEF S1
<1>4. CASE W1 BY <1>4, LoopIInv, SemWaitIInv, W1ReceiveIInv, W1SendIInv, Facts DEF W1
<1>5. CASE W2
  BY <1>5, LoopIInv, SemWaitIInv, W2DequeueIInv, W2ReceiveIInv, W2CopyIInv, W2AddIInv, Facts DEF W2
<1>6. CASE CtrlC BY <1>6, CtrlCIInv
<1>7. CASE \E t \in Threads : Interrupt(t) BY <1>7, InterruptIInv
<1>8. CASE UNCHANGED vars
  <2>1. /\ UNCHANGED <<running, sem, mpc, pc, ret, mq, b, count, loaded, sent, num1, num2>>
        /\ UNCHANGED <<w2_dequeue_count, get, total_sum, total_count, stopped, overlapped>>
    BY <1>8 DEF vars, ctlVars, queueVars, s1Vars, w1Vars, w2Vars, history
  <2>2. TypeInv' BY <2>1 DEF IInv, TypeInv
  <2>3. S1Inv' /\ W1Inv' BY <2>1 DEF IInv, S1Inv, W1Inv
  <2>4. StopInv' BY <2>1 DEF IInv, StopInv
  <2>5. FlowInv' /\ EmptyInv'
    BY <2>1 DEF IInv, FlowInv, EmptyInv, W1Flow, W2Flow, Delivered, TakenByW1, TakenByW2
  <2>. QED BY <2>2, <2>3, <2>4, <2>5 DEF IInv
<1>. QED BY <1>1, <1>2, <1>3, <1>4, <1>5, <1>6, <1>7, <1>8 DEF Next

LEMMA Invariant == Spec => []IInv
BY InitIInv, NextIInv, PTL DEF Spec

\* For every even N the pipeline adds up 1 .. N, whatever the periods and whatever messages
\* an earlier run left, unless a buffer was overwritten in use or the program was stopped.
THEOREM OnlyOverlapSpoilsSumTheorem == Spec => []OnlyOverlapSpoilsSum
<1>1. IInv => OnlyOverlapSpoilsSum
  <2>. SUFFICES ASSUME IInv, total_count = N \div 2, pc["W2"] = "done", ~overlapped, ~stopped
                PROVE  total_sum = (N * (N + 1)) \div 2
    BY DEF OnlyOverlapSpoilsSum
  <2>1. mpc # "flush" BY Facts DEF IInv, StopInv
  <2>2. total_sum = total_count * (2 * total_count + 1) BY <2>1 DEF IInv, FlowInv, W2Flow
  <2>3. total_count \in Nat /\ N = 2 * total_count BY Exam2Assumption DEF IInv, TypeInv
  <2>4. N * (N + 1) = 2 * total_sum BY <2>2, <2>3
  <2>5. total_sum \in Nat BY DEF IInv, TypeInv
  <2>6. (2 * total_sum) \div 2 = total_sum BY <2>5
  <2>. QED BY <2>4, <2>6
<1>. QED BY Invariant, <1>1, PTL

\* The unlocked sanity counters err on the low side only: enqueue_P refuses nothing.
THEOREM NeverRefusedTheorem == Spec => []NeverRefused
<1>1. IInv => NeverRefused
  <2>. SUFFICES ASSUME IInv PROVE NeverRefused
    OBVIOUS
  <2>1. /\ count["W1_Q"] \in Int /\ count["W2_Q"] \in Int
        /\ sent \in Nat /\ w2_dequeue_count \in Nat
    BY Facts DEF IInv, TypeInv
  <2>2. ASSUME pc["S1"] = "load" PROVE count["W1_Q"] < QueueSize
    <3>1. count["W1_Q"] <= sent - 1 /\ sent <= N BY <2>2 DEF IInv, S1Inv
    <3>. QED BY <2>1, <3>1, Facts
  <2>3. ASSUME pc["W1"] = "send" PROVE count["W2_Q"] < QueueSize
    <3>1. count["W2_Q"] <= w2_dequeue_count /\ w2_dequeue_count <= N - 2 BY <2>3 DEF IInv, W1Inv
    <3>. QED BY <2>1, <3>1, Facts
  <2>. QED BY <2>2, <2>3 DEF NeverRefused
<1>. QED BY Invariant, <1>1, PTL

\* main joins S1, which waited for W1: so W1 has ended although nobody joins it.
THEOREM UnjoinedLogIsCompleteTheorem == Spec => []UnjoinedLogIsComplete
<1>1. IInv => UnjoinedLogIsComplete BY DEF IInv, StopInv, UnjoinedLogIsComplete
<1>. QED BY Invariant, <1>1, PTL
=============================================================================
