--------------------------- MODULE SequencerProofs ---------------------------
(***************************************************************************)
(* What module Sequencer promises for every set of threads, every pair of  *)
(* periods and every common multiple of them as the wrap of `sequence'.    *)
(* Ticks may overlap on any number of threads.  Two that do lose the       *)
(* schedule (run sequencer_overlap); OnSchedule says how far.              *)
(***************************************************************************)
EXTENDS Sequencer, TLAPS

-----------------------------------------------------------------------------
(* Division: what the handler's `%' does when `sequence' steps or wraps.   *)

LEMMA DivMod ==
    ASSUME NEW n \in Nat, NEW p \in Nat, p > 0
    PROVE  n % p \in 0 .. p - 1 /\ n = p * (n \div p) + (n % p) /\ n \div p \in Nat
  OBVIOUS

LEMMA MultipleGap ==
    ASSUME NEW p \in Nat, NEW a \in Int, NEW b \in Int, a < b
    PROVE  p * a + p <= p * b
  OBVIOUS

\* A remainder is the only one.
LEMMA RemainderUnique ==
    ASSUME NEW p \in Nat, p > 0, NEW n \in Nat, NEW q \in Nat, NEW r \in 0 .. p - 1,
           n = p * q + r
    PROVE  n % p = r
  <1> DEFINE q2 == n \div p
             r2 == n % p
  <1>1. r2 \in 0 .. p - 1 /\ n = p * q2 + r2 /\ q2 \in Nat
    BY DivMod
  <1> HIDE DEF q2, r2
  <1>2. ~ (q < q2)
    <2> SUFFICES ASSUME q < q2 PROVE FALSE
      OBVIOUS
    <2>1. p * q + p <= p * q2
      BY <1>1, MultipleGap
    <2> DEFINE x == p * q
               y == p * q2
    <2>2. x \in Int /\ y \in Int /\ x + p <= y /\ n = x + r /\ n = y + r2
      BY <1>1, <2>1
    <2> HIDE DEF x, y
    <2> QED BY <1>1, <2>2
  <1>3. ~ (q2 < q)
    <2> SUFFICES ASSUME q2 < q PROVE FALSE
      OBVIOUS
    <2>1. p * q2 + p <= p * q
      BY <1>1, MultipleGap
    <2> DEFINE x == p * q
               y == p * q2
    <2>2. x \in Int /\ y \in Int /\ y + p <= x /\ n = x + r /\ n = y + r2
      BY <1>1, <2>1
    <2> HIDE DEF x, y
    <2> QED BY <1>1, <2>2
  <1>4. q = q2
    BY <1>1, <1>2, <1>3
  <1>5. r = r2
    <2> DEFINE x == p * q
    <2>1. x \in Int /\ n = x + r /\ n = x + r2
      BY <1>1, <1>4
    <2> HIDE DEF x
    <2> QED BY <1>1, <2>1
  <1> QED BY <1>5 DEF r2

\* The remainder counts up to p - 1 and starts again.
LEMMA RemainderStep ==
    ASSUME NEW n \in Nat, NEW p \in Nat, p > 0
    PROVE  (n + 1) % p = IF n % p = p - 1 THEN 0 ELSE (n % p) + 1
  <1> DEFINE q == n \div p
             r == n % p
  <1>1. r \in 0 .. p - 1 /\ n = p * q + r /\ q \in Nat
    BY DivMod
  <1> HIDE DEF q, r
  <1>2. CASE r = p - 1
    <2>1. n + 1 = p * (q + 1) + 0
      BY <1>1, <1>2
    <2>2. (n + 1) % p = 0
      BY <1>1, <2>1, RemainderUnique
    <2> QED BY <1>2, <2>2 DEF r
  <1>3. CASE r # p - 1
    <2>1. n + 1 = p * q + (r + 1)
      BY <1>1
    <2>2. r + 1 \in 0 .. p - 1
      BY <1>1, <1>3
    <2>3. (n + 1) % p = r + 1
      BY <1>1, <2>1, <2>2, RemainderUnique
    <2> QED BY <1>3, <2>3 DEF r
  <1> QED BY <1>2, <1>3

LEMMA PeriodType ==
    ASSUME NEW s \in Services
    PROVE  Period[s] \in Nat /\ Period[s] > 0 /\ Wrap % Period[s] = 0
  BY PeriodAssumption DEF Period, Services

\* Folding what is past the wrap keeps both remainders.
LEMMA PastKeeps ==
    ASSUME NEW n \in 0 .. 2 * Wrap + 1, NEW s \in Services
    PROVE  Past(n) \in 0 .. 2 * Wrap /\ Past(n) % Period[s] = n % Period[s]
  <1>0. Wrap \in Nat /\ Wrap >= 1
    BY PeriodAssumption
  <1>1. CASE n # 2 * Wrap + 1
    BY <1>0, <1>1 DEF Past
  <1>2. CASE n = 2 * Wrap + 1
    <2>1. Period[s] \in Nat /\ Period[s] > 0 /\ Wrap % Period[s] = 0
      BY PeriodType
    <2> DEFINE p == Period[s]
               q == Wrap \div p
    <2>2. p \in Nat /\ p > 0 /\ q \in Nat /\ Wrap = p * q + 0
      BY <1>0, <2>1, DivMod
    <2> HIDE DEF p, q
    <2>3. 2 * Wrap = p * (q + q) + 0
      BY <2>2
    <2>4. 2 * Wrap \in Nat /\ q + q \in Nat /\ 0 \in 0 .. p - 1
      BY <1>0, <2>2
    <2>5. (2 * Wrap) % p = 0 /\ Wrap % p = 0
      BY <1>0, <2>2, <2>3, <2>4, RemainderUnique
    <2>6. /\ (2 * Wrap + 1) % p = (IF (2 * Wrap) % p = p - 1 THEN 0 ELSE ((2 * Wrap) % p) + 1)
          /\ (Wrap + 1) % p = (IF Wrap % p = p - 1 THEN 0 ELSE (Wrap % p) + 1)
      BY <1>0, <2>2, <2>4, RemainderStep
    <2>7. Past(n) = Wrap + 1
      BY <1>2 DEF Past
    <2>8. Past(n) % p = n % p
      BY <1>2, <2>5, <2>6, <2>7
    <2> QED BY <1>0, <2>7, <2>8 DEF p
  <1> QED BY <1>1, <1>2

LEMMA PostType ==
    ASSUME sem \in [Semaphores -> 0 .. SemMax], NEW S
    PROVE  Post(S) \in [Semaphores -> 0 .. SemMax]
  BY BoundAssumption DEF Post

LEMMA SettimeType ==
    ASSUME NEW it \in [value : {Tick}, interval : {0, Tick}]
    PROVE  Settime(it) \in {"idle", "oneshot", "periodic"}
  <1>1. it.value = 1 /\ it.interval \in {0, 1}
    BY DEF Tick
  <1> QED BY <1>1 DEF Settime

-----------------------------------------------------------------------------
(* Type correctness: TypeOK is inductive as it stands.                     *)

LEMMA TypeInit == Init => TypeOK
  <1> SUFFICES ASSUME Init PROVE TypeOK
    OBVIOUS
  <1>1. \A s \in Services : Period[s] \in Nat /\ Period[s] \in -1 .. Period[s] + 1
    BY PeriodType
  <1>2. gap \in [Services -> Int] /\ \A s \in Services : gap[s] \in Unknown .. Period[s] + 1
    BY <1>1 DEF Init, Period, Unknown
  <1>3. /\ sem \in [Semaphores -> 0 .. SemMax]
        /\ seqReg \in [Hosts -> 0 .. 2 * Wrap] /\ 0 \in 0 .. 2 * Wrap
    BY PeriodAssumption, BoundAssumption DEF Init
  <1>4. hpc \in [Hosts -> HandlerPC]
    BY DEF Init, HandlerPC
  <1>5. timer1_it \in [value : {Tick}, interval : {0, Tick}]
    BY DEF Init
  <1>6. running \in BOOLEAN /\ timer \in {"idle", "oneshot", "periodic"} /\ pending \in BOOLEAN
    BY DEF Init
  <1>7. sequence \in 0 .. 2 * Wrap
    BY <1>3 DEF Init
  <1> QED BY <1>2, <1>3, <1>4, <1>5, <1>6, <1>7 DEF TypeOK

LEMMA TypeStep == TypeOK /\ [Next]_seqVars => TypeOK'
  <1> SUFFICES ASSUME TypeOK, [Next]_seqVars PROVE TypeOK'
    OBVIOUS
  <1> USE DEF TypeOK
  <1>1. CASE TimerExpire
    BY <1>1 DEF TimerExpire
  <1>2. ASSUME NEW h \in Hosts, Deliver(h) PROVE TypeOK'
    <2>1. \A s \in Services : Unknown \in Int /\ Unknown \in Unknown .. Period[s] + 1
      BY PeriodType DEF Unknown
    <2>2. /\ gap' \in [Services -> Int]
          /\ \A s \in Services : gap'[s] \in Unknown .. Period[s] + 1
      BY <1>2, <2>1 DEF Deliver
    <2> QED BY <1>2, <2>2, PostType DEF Deliver, Goto, HandlerPC, Period
  <1>3. ASSUME NEW h \in Hosts, TestRunning(h) PROVE TypeOK'
    BY <1>3 DEF TestRunning, Goto, HandlerPC
  <1>4. ASSUME NEW h \in Hosts, NEW s \in Services, NEW next \in HandlerPC,
               Release(h, s, next)
        PROVE  TypeOK'
    <2>1. sem' \in [Semaphores -> 0 .. SemMax]
      BY <1>4, PostType DEF Release
    <2>2. \A r \in Services : {0, Unknown} \subseteq Int \cap (Unknown .. Period[r] + 1)
      BY PeriodType DEF Unknown
    <2>3. /\ gap' \in [Services -> Int]
          /\ \A r \in Services : gap'[r] \in Unknown .. Period[r] + 1
      BY <1>4, <2>2 DEF Release
    <2> QED BY <1>4, <2>1, <2>3 DEF Release, Goto, Period
  <1>5. ASSUME NEW h \in Hosts, LoadSequence(h) PROVE TypeOK'
    BY <1>5 DEF LoadSequence, Goto, HandlerPC
  <1>6. ASSUME NEW h \in Hosts, StoreSequence(h) PROVE TypeOK'
    <2>0. \A r \in Services : Period[r] \in Nat /\ gap[r] \in Int
      BY PeriodType
    <2>1. /\ gap' \in [Services -> Int]
          /\ \A r \in Services : gap'[r] \in Unknown .. Period[r] + 1
      BY <1>6, <2>0 DEF StoreSequence, Unknown
    <2>2. seqReg[h] \in 0 .. 2 * Wrap /\ Wrap \in Nat \ {0}
      BY PeriodAssumption
    <2>3. Past(seqReg[h] + 1) \in 0 .. 2 * Wrap /\ 0 \in 0 .. 2 * Wrap
      BY <2>2 DEF Past
    <2>4. sequence' \in 0 .. 2 * Wrap /\ seqReg' \in [Hosts -> 0 .. 2 * Wrap]
      BY <1>6, <2>3 DEF StoreSequence
    <2> QED BY <1>6, <2>1, <2>4 DEF StoreSequence, Goto, HandlerPC, Period
  <1>7. ASSUME NEW h \in Hosts, WrapSequence(h) PROVE TypeOK'
    BY <1>7, PeriodAssumption DEF WrapSequence, Goto, HandlerPC
  <1>8. ASSUME NEW h \in Hosts, DisarmTimer(h) PROVE TypeOK'
    <2>1. timer1_it' \in [value : {Tick}, interval : {0, Tick}]
      BY <1>8 DEF DisarmTimer
    <2>2. timer' \in {"idle", "oneshot", "periodic"}
      BY <1>8, <2>1, SettimeType DEF DisarmTimer
    <2> QED BY <1>8, <2>1, <2>2 DEF DisarmTimer, Goto, HandlerPC
  <1>9. ASSUME NEW h \in Hosts, UnblockEveryone(h) PROVE TypeOK'
    BY <1>9, PostType DEF UnblockEveryone, Unblock, Goto, HandlerPC
  <1>10. CASE ArmTimer
    BY <1>10, SettimeType DEF ArmTimer
  <1>11. ASSUME NEW s \in Semaphores, Take(s) PROVE TypeOK'
    BY <1>11, BoundAssumption DEF Take
  <1>12. CASE Stop
    BY <1>12 DEF Stop
  <1>13. CASE UNCHANGED seqVars
    BY <1>13 DEF seqVars
  <1> QED BY <1>1, <1>2, <1>3, <1>4, <1>5, <1>6, <1>7, <1>8, <1>9, <1>10, <1>11, <1>12,
             <1>13 DEF Next, Handler, ReleaseFrame, ReleaseProcessing, Services, HandlerPC

\* Every variable of the handler keeps its range, `sequence' included, for every number
\* of threads and however many ticks are handled at once.
THEOREM TypeCorrect == Spec => []TypeOK
  BY TypeInit, TypeStep, PTL DEF Spec
-----------------------------------------------------------------------------
(* The schedule.  ReleaseOnSchedule speaks of the moment a service is      *)
(* tested; for it to stay true, the distance since the last release must   *)
(* be known at every other point of the handler too: it is the remainder   *)
(* of `sequence' between the release and the step of `sequence', and the   *)
(* remainder or, where that is zero, a whole period everywhere else.  All  *)
(* of this holds while the distance is known, which it is again as soon as *)
(* a handler that is alone has released the service.                       *)

\* Where the handler is between the release of s and the store of `sequence'.
Passed(s) == (IF s = "framegrab" THEN {"processing"} ELSE {}) \cup {"load", "store"}

Known(s) == gap[s] # Unknown
Due(s) == gap[s] = IF sequence % Period[s] = 0 THEN Period[s] ELSE sequence % Period[s]
Counted(s) == gap[s] = sequence % Period[s]

OneHandler == \A g, h \in Hosts : hpc[g] # "out" /\ hpc[h] # "out" => g = h
StoreIsFresh == \A h \in Hosts : hpc[h] = "store" => seqReg[h] = sequence
Undisturbed == (\E s \in Services : Known(s)) => OneHandler /\ StoreIsFresh
DueOutside ==
    \A s \in Services :
        Known(s) /\ (\A h \in Hosts : hpc[h] \notin Passed(s)) => Due(s)
CountedInside ==
    \A s \in Services, h \in Hosts : Known(s) /\ hpc[h] \in Passed(s) => Counted(s)

ScheduleInv == TypeOK /\ Undisturbed /\ DueOutside /\ CountedInside

LEMMA ScheduleInit == Init => ScheduleInv
  <1> SUFFICES ASSUME Init PROVE ScheduleInv
    OBVIOUS
  <1>1. TypeOK
    BY TypeInit
  <1>2. Undisturbed /\ CountedInside
    BY DEF Init, Undisturbed, OneHandler, StoreIsFresh, CountedInside, Passed
  <1>3. \A s \in Services : 0 % Period[s] = 0
    BY PeriodType
  <1>4. DueOutside
    BY <1>3 DEF Init, DueOutside, Due
  <1> QED BY <1>1, <1>2, <1>4 DEF ScheduleInv

\* Where no distance is known nothing is claimed.
LEMMA NothingKnown ==
    ASSUME TypeOK', \A s \in Services : ~Known(s)'
    PROVE  ScheduleInv'
  <1>1. Undisturbed' /\ DueOutside' /\ CountedInside'
    BY DEF Undisturbed, DueOutside, CountedInside, Known
  <1> QED BY <1>1 DEF ScheduleInv

\* A step of no handler, or one that moves no count and passes no release.
LEMMA ScheduleKept ==
    ASSUME ScheduleInv, TypeOK', UNCHANGED <<sequence, seqReg, gap>>,
           (\E s \in Services : Known(s)) => OneHandler',
           \A h \in Hosts :
               \/ hpc'[h] = hpc[h]
               \/ /\ hpc'[h] # "store"
                  /\ \A s \in Services : hpc'[h] \in Passed(s) <=> hpc[h] \in Passed(s)
    PROVE  ScheduleInv'
  <1>1. Undisturbed'
    BY DEF ScheduleInv, Undisturbed, StoreIsFresh, Known
  <1>2. DueOutside'
    BY DEF ScheduleInv, DueOutside, Due, Known
  <1>3. CountedInside'
    BY DEF ScheduleInv, CountedInside, Counted, Known
  <1> QED BY <1>1, <1>2, <1>3 DEF ScheduleInv

\* A thread that moves alone inside the handler stays alone.
LEMMA OneMoves ==
    ASSUME hpc \in [Hosts -> HandlerPC],
           NEW h \in Hosts, Alone(h), NEW there, Goto(h, there)
    PROVE  /\ OneHandler'
           /\ \A g \in Hosts \ {h} : hpc[g] = "out" /\ hpc'[g] = "out"
           /\ hpc'[h] = there
  BY DEF OneHandler, Goto, Alone

LEMMA AloneWhenKnown ==
    ASSUME ScheduleInv, NEW s \in Services, Known(s), NEW h \in Hosts, hpc[h] # "out"
    PROVE  Alone(h) /\ StoreIsFresh
  BY DEF ScheduleInv, Undisturbed, OneHandler, Alone

LEMMA ReleaseKeeps ==
    ASSUME ScheduleInv, TypeOK', NEW h \in Hosts, NEW s \in Services, NEW next,
           Release(h, s, next),
           next = IF s = "framegrab" THEN "processing" ELSE "load"
    PROVE  ScheduleInv'
  <1> USE DEF ScheduleInv
  <1>1. /\ hpc[h] = s /\ s # "out" /\ hpc \in [Hosts -> HandlerPC]
        /\ gap \in [Services -> Int]
    BY DEF Release, Services, TypeOK
  <1>2. CASE ~Alone(h)
    <2>1. \A r \in Services : gap[r] = Unknown
      BY <1>1, <1>2, AloneWhenKnown DEF Known
    <2>2. \A r \in Services : gap'[r] = Unknown
      BY <1>1, <1>2, <2>1 DEF Release
    <2> QED BY <2>2, NothingKnown DEF Known
  <1>3. CASE Alone(h)
    <2>1. /\ OneHandler' /\ hpc'[h] = next
          /\ \A g \in Hosts \ {h} : hpc[g] = "out" /\ hpc'[g] = "out"
      BY <1>1, <1>3, OneMoves DEF Release
    <2>2. Undisturbed'
      BY <2>1 DEF StoreIsFresh, Undisturbed
    <2>3. ASSUME Known(s)' PROVE Counted(s)'
      <3>1. \A g \in Hosts : hpc[g] \notin Passed(s)
        BY <1>1, <2>1 DEF Passed, Services
      <3>2. Period' = Period
        BY DEF Period
      <3>3. CASE sequence % Period[s] = 0
        BY <1>1, <1>3, <3>2, <3>3 DEF Release, Counted
      <3>4. CASE sequence % Period[s] # 0
        <4>1. Known(s) /\ gap' = gap /\ sequence' = sequence
          BY <2>3, <3>4 DEF Release, Known
        <4>2. Due(s)
          BY <3>1, <4>1 DEF DueOutside
        <4> QED BY <3>2, <3>4, <4>1, <4>2 DEF Counted, Due
      <3> QED BY <3>3, <3>4
    <2>4. sequence' = sequence /\ \A r \in Services \ {s} : gap'[r] = gap[r]
      BY <1>1 DEF Release
    <2>5. ASSUME NEW r \in Services, NEW g \in Hosts, Known(r)', hpc'[g] \in Passed(r)
          PROVE  Counted(r)'
      <3>1. g = h
        BY <2>1, <2>5 DEF Passed
      <3>2. CASE r = s
        BY <2>3, <2>5, <3>2
      <3>3. CASE r # s
        <4>1. s = "processing" /\ r = "framegrab" /\ hpc[h] \in Passed(r)
          BY <3>1, <3>3, <1>1, <2>1, <2>5 DEF Passed, Services
        <4>2. Known(r)
          BY <2>4, <2>5, <3>3 DEF Known
        <4>3. Counted(r)
          BY <4>1, <4>2 DEF CountedInside
        <4> QED BY <4>3, <3>3, <2>4 DEF Counted, Period
      <3> QED BY <3>2, <3>3
    <2>6. ASSUME NEW r \in Services, Known(r)', \A g \in Hosts : hpc'[g] \notin Passed(r)
          PROVE  Due(r)'
      <3>1. s = "framegrab" /\ r = "processing"
        BY <2>1, <2>6 DEF Passed, Services
      <3>2. \A g \in Hosts : hpc[g] \notin Passed(r)
        BY <3>1, <1>1, <2>1 DEF Passed
      <3>3. Known(r)
        BY <2>4, <2>6, <3>1 DEF Known
      <3>4. Due(r)
        BY <3>2, <3>3 DEF DueOutside
      <3> QED BY <3>1, <3>4, <2>4 DEF Due, Period
    <2>7. DueOutside'
      BY <2>6 DEF DueOutside
    <2>8. CountedInside'
      BY <2>5 DEF CountedInside
    <2> QED BY <2>2, <2>7, <2>8
  <1> QED BY <1>2, <1>3

\* `sequence' and both distances step together, so what was counted becomes due.
LEMMA StoreKeeps ==
    ASSUME ScheduleInv, TypeOK', NEW h \in Hosts, StoreSequence(h)
    PROVE  ScheduleInv'
  <1> USE DEF ScheduleInv
  <1>1. hpc[h] = "store" /\ hpc \in [Hosts -> HandlerPC]
    BY DEF StoreSequence, TypeOK
  <1>2. ASSUME \A s \in Services : ~Known(s)
        PROVE  ScheduleInv'
    <2>1. \A s \in Services : Period[s] \in Nat /\ Unknown \notin 0 .. Period[s]
      BY PeriodType DEF Unknown
    <2>2. \A s \in Services : ~Known(s)'
      BY <1>2, <2>1 DEF StoreSequence, Known
    <2> QED BY <2>2, NothingKnown
  <1>3. ASSUME NEW k \in Services, Known(k)
        PROVE  ScheduleInv'
    <2>1. Alone(h) /\ StoreIsFresh
      BY <1>1, <1>3, AloneWhenKnown
    <2>2. /\ OneHandler' /\ hpc'[h] = "wrap"
          /\ \A g \in Hosts \ {h} : hpc[g] = "out" /\ hpc'[g] = "out"
      BY <1>1, <2>1, OneMoves DEF StoreSequence
    <2>3. sequence' = Past(sequence + 1) /\ sequence \in 0 .. 2 * Wrap
      BY <1>1, <2>1 DEF StoreSequence, StoreIsFresh, TypeOK
    <2>4. ASSUME NEW s \in Services, Known(s)' PROVE Due(s)'
      <3>1. Period[s] \in Nat /\ Period[s] > 0 /\ Wrap \in Nat
        BY PeriodType, PeriodAssumption
      <3>2. Known(s)
        BY <2>4 DEF StoreSequence, Known, Unknown
      <3>3. gap[s] = sequence % Period[s]
        BY <1>1, <3>2 DEF CountedInside, Counted, Passed
      <3>4. sequence \in Nat /\ sequence + 1 \in 0 .. 2 * Wrap + 1
        BY <2>3, <3>1
      <3> DEFINE p == Period[s]
                 r == sequence % p
      <3>5. r \in 0 .. p - 1
        BY <3>1, <3>4, DivMod
      <3>6. sequence' % p = (sequence + 1) % p
        BY <2>3, <3>4, PastKeeps
      <3>7. (sequence + 1) % p = IF r = p - 1 THEN 0 ELSE r + 1
        BY <3>1, <3>4, RemainderStep
      <3>8. gap'[s] = IF gap[s] \in 0 .. p THEN gap[s] + 1 ELSE gap[s]
        BY DEF StoreSequence
      <3>9. gap'[s] = r + 1
        <4>1. gap[s] = r /\ p \in Nat
          BY <3>1, <3>3
        <4> HIDE DEF p, r
        <4> QED BY <3>5, <3>8, <4>1
      <3>10. gap'[s] = IF sequence' % p = 0 THEN p ELSE sequence' % p
        <4>1. p \in Nat
          BY <3>1
        <4> HIDE DEF p, r
        <4> QED BY <3>5, <3>6, <3>7, <3>9, <4>1
      <3> QED BY <3>10 DEF Due, Period
    <2>5. DueOutside' /\ CountedInside' /\ Undisturbed'
      BY <2>2, <2>4 DEF DueOutside, CountedInside, Undisturbed, StoreIsFresh, Passed
    <2> QED BY <2>5
  <1> QED BY <1>2, <1>3

\* A common multiple of the periods is due exactly when zero is.
LEMMA WrapKeeps ==
    ASSUME ScheduleInv, TypeOK', NEW h \in Hosts, WrapSequence(h)
    PROVE  ScheduleInv'
  <1> USE DEF ScheduleInv
  <1>1. hpc[h] = "wrap" /\ hpc \in [Hosts -> HandlerPC] /\ gap' = gap
    BY DEF WrapSequence, TypeOK
  <1>2. CASE \A s \in Services : ~Known(s)
    BY <1>1, <1>2, NothingKnown DEF Known
  <1>3. ASSUME NEW k \in Services, Known(k)
        PROVE  ScheduleInv'
    <2>1. Alone(h)
      BY <1>1, <1>3, AloneWhenKnown
    <2>2. /\ OneHandler' /\ hpc'[h] = "out"
          /\ \A g \in Hosts \ {h} : hpc[g] = "out" /\ hpc'[g] = "out"
      BY <1>1, <2>1, OneMoves DEF WrapSequence
    <2>3. ASSUME NEW s \in Services, Known(s)' PROVE Due(s)'
      <3>1. Known(s)
        BY <1>1, <2>3 DEF Known
      <3>2. Due(s)
        BY <1>1, <2>2, <3>1 DEF DueOutside, Passed
      <3>3. Period[s] \in Nat /\ Period[s] > 0 /\ Wrap % Period[s] = 0
        BY PeriodType
      <3>4. 0 % Period[s] = 0
        BY <3>3
      <3> QED BY <3>2, <3>3, <3>4 DEF WrapSequence, Due, Period
    <2>4. DueOutside' /\ CountedInside' /\ Undisturbed'
      BY <2>2, <2>3 DEF DueOutside, CountedInside, Undisturbed, StoreIsFresh, Passed
    <2> QED BY <2>4
  <1> QED BY <1>2, <1>3

LEMMA ScheduleStep ==
    ASSUME ScheduleInv, [Next]_seqVars
    PROVE  ScheduleInv'
  <1> USE DEF ScheduleInv
  <1>0. TypeOK' /\ hpc \in [Hosts -> HandlerPC]
    BY TypeStep DEF TypeOK
  <1>1. ASSUME UNCHANGED <<hpc, sequence, seqReg, gap>> PROVE ScheduleInv'
    BY <1>0, <1>1, ScheduleKept DEF OneHandler, Undisturbed
  <1>2. ASSUME NEW h \in Hosts, Deliver(h) PROVE ScheduleInv'
    <2>1. CASE ~Alone(h)
      <3>1. \A s \in Services : ~Known(s)'
        BY <1>2, <2>1 DEF Deliver, Known
      <3> QED BY <1>0, <3>1, NothingKnown
    <2>2. CASE Alone(h)
      <3>1. /\ \A g \in Hosts : hpc[g] = "out"
            /\ hpc' = [hpc EXCEPT ![h] = "test"] /\ gap' = gap
        BY <1>2, <2>2 DEF Deliver, Goto, Alone
      <3>2. OneHandler'
        BY <1>0, <3>1 DEF OneHandler
      <3> QED BY <1>0, <1>2, <3>1, <3>2, ScheduleKept DEF Deliver, Passed
    <2> QED BY <2>1, <2>2
  <1>3. ASSUME NEW h \in Hosts, NEW there \in HandlerPC,
               there \notin {"processing", "load", "store"},
               hpc[h] \notin {"out", "processing", "load", "store"}, Goto(h, there),
               UNCHANGED <<sequence, seqReg, gap>>
        PROVE  ScheduleInv'
    <2>1. ASSUME NEW s \in Services, Known(s) PROVE OneHandler'
      <3>1. Alone(h)
        BY <1>3, <2>1, AloneWhenKnown
      <3> QED BY <1>0, <1>3, <3>1, OneMoves
    <2>2. \A g \in Hosts : hpc'[g] = IF g = h THEN there ELSE hpc[g]
      BY <1>0, <1>3 DEF Goto
    <2> QED BY <1>0, <1>3, <2>1, <2>2, ScheduleKept DEF Passed
  <1>4. ASSUME NEW h \in Hosts, LoadSequence(h) PROVE ScheduleInv'
    <2>1. hpc[h] = "load" /\ gap' = gap /\ sequence' = sequence
      BY <1>4 DEF LoadSequence
    <2>2. CASE \A s \in Services : ~Known(s)
      BY <1>0, <2>1, <2>2, NothingKnown DEF Known
    <2>3. ASSUME NEW k \in Services, Known(k) PROVE ScheduleInv'
      <3>1. Alone(h)
        BY <2>1, <2>3, AloneWhenKnown
      <3>2. /\ OneHandler' /\ hpc'[h] = "store"
            /\ \A g \in Hosts \ {h} : hpc[g] = "out" /\ hpc'[g] = "out"
        BY <1>0, <1>4, <3>1, OneMoves DEF LoadSequence
      <3>3. StoreIsFresh'
        BY <1>4, <3>2 DEF LoadSequence, StoreIsFresh, TypeOK
      <3>4. CountedInside' /\ DueOutside'
        BY <2>1, <3>2 DEF CountedInside, DueOutside, Counted, Due, Passed, Known
      <3> QED BY <1>0, <3>2, <3>3, <3>4 DEF Undisturbed
    <2> QED BY <2>2, <2>3
  <1>5. ASSUME NEW h \in Hosts, Handler(h) PROVE ScheduleInv'
    <2>1. CASE TestRunning(h)
      BY <1>3, <2>1 DEF TestRunning, HandlerPC
    <2>2. CASE ReleaseFrame(h)
      BY <1>0, <2>2, ReleaseKeeps DEF ReleaseFrame, Services
    <2>3. CASE ReleaseProcessing(h)
      BY <1>0, <2>3, ReleaseKeeps DEF ReleaseProcessing, Services
    <2>4. CASE LoadSequence(h)
      BY <1>4, <2>4
    <2>5. CASE StoreSequence(h)
      BY <1>0, <2>5, StoreKeeps
    <2>6. CASE WrapSequence(h)
      BY <1>0, <2>6, WrapKeeps
    <2>7. CASE DisarmTimer(h)
      BY <1>3, <2>7 DEF DisarmTimer, HandlerPC
    <2>8. ASSUME NEW s \in Semaphores,
                 NEW next \in {"unblock_processing", "unblock_writeout",
                               "unblock_teardown", "out"},
                 Unblock(h, s, next)
          PROVE  ScheduleInv'
      <3>1. Unblocking[s] \notin {"out", "processing", "load", "store"}
        BY DEF Unblocking, Semaphores
      <3> QED BY <1>3, <2>8, <3>1 DEF Unblock, HandlerPC
    <2>9. CASE UnblockEveryone(h)
      BY <2>8, <2>9 DEF UnblockEveryone, Semaphores
    <2> QED BY <1>5, <2>1, <2>2, <2>3, <2>4, <2>5, <2>6, <2>7, <2>9 DEF Handler
  <1>6. CASE TimerExpire
    BY <1>1, <1>6 DEF TimerExpire
  <1>7. CASE ArmTimer
    BY <1>1, <1>7 DEF ArmTimer
  <1>8. ASSUME NEW s \in Semaphores, Take(s) PROVE ScheduleInv'
    BY <1>1, <1>8 DEF Take
  <1>9. CASE Stop
    BY <1>1, <1>9 DEF Stop
  <1>10. CASE UNCHANGED seqVars
    BY <1>1, <1>10 DEF seqVars
  <1> QED BY <1>2, <1>5, <1>6, <1>7, <1>8, <1>9, <1>10 DEF Next

\* While the handler is at the test of s nobody is past it, so s is due: the test of the
\* remainder succeeds after exactly one period.
LEMMA ScheduleImplies == ScheduleInv => ReleaseOnSchedule
  <1> SUFFICES ASSUME ScheduleInv, NEW h \in Hosts, NEW s \in Services, hpc[h] = s,
                      gap[s] # Unknown
               PROVE  sequence % Period[s] = 0 <=> gap[s] = Period[s]
    BY DEF ReleaseOnSchedule
  <1> USE DEF ScheduleInv
  <1>1. \A g \in Hosts : hpc[g] \notin Passed(s)
    BY AloneWhenKnown DEF Alone, Known, Passed, Services
  <1>2. Due(s)
    BY <1>1 DEF DueOutside, Known
  <1>3. Period[s] \in Nat /\ Period[s] > 0 /\ sequence \in Nat
    BY PeriodType, PeriodAssumption DEF TypeOK
  <1>4. sequence % Period[s] < Period[s]
    BY <1>3, DivMod
  <1> QED BY <1>2, <1>3, <1>4 DEF Due

\* From each release of a service by a handler that is alone, and until two ticks are
\* handled at the same time, the frame grabber is released on every FramePeriod-th and
\* processing on every ProcPeriod-th tick, across the wrap of `sequence' and beyond it, for
\* every such pair of periods and every set of threads.
THEOREM OnSchedule == Spec => []ReleaseOnSchedule
  <1>1. ScheduleInv /\ [Next]_seqVars => ScheduleInv'
    BY ScheduleStep
  <1> QED BY <1>1, ScheduleInit, ScheduleImplies, PTL DEF Spec
=============================================================================
