---------------------------- MODULE ScanRingProofs ----------------------------
(***************************************************************************)
(* The tick detector for every pair of thresholds, zero included; then the *)
(* ring and the detector together, for every size of the ring and every    *)
(* pair of thresholds.                                                     *)
(***************************************************************************)
EXTENDS ScanRing, TLAPS

-----------------------------------------------------------------------------
(* The detector of module Motion.                                          *)

(* The detector keeps no record of what it has seen but its state and one  *)
(* counter; the invariant says what each state remembers: how long the     *)
(* picture has been still, and that it did change before.                  *)
Remembers ==
    /\ motion_state = "START" => still = good_frames_in_a_row /\ ~tick
    /\ motion_state = "BOOKEND" => still = 0 /\ moved /\ ~tick
    /\ motion_state = "COUNTING" => still = good_frames_in_a_row + 1 /\ moved /\ ~tick

DetectorInv == MotionTypeOK /\ Remembers /\ TickNeedsMotion

LEMMA DetectorInit == MotionInit => DetectorInv
  <1> SUFFICES ASSUME MotionInit PROVE DetectorInv
    OBVIOUS
  <1>1. 0 \in 0 .. StillMax /\ 0 <= StartGood
    BY ThresholdAssumption DEF StillMax
  <1>2. MotionTypeOK
    BY <1>1 DEF MotionInit, MotionTypeOK, States
  <1>3. Remembers /\ TickNeedsMotion
    BY DEF MotionInit, Remembers, TickNeedsMotion
  <1> QED BY <1>2, <1>3 DEF DetectorInv

\* What the history holds after a call.
LEMMA Observed ==
    ASSUME MotionTypeOK, NEW changed \in BOOLEAN, Observe(changed)
    PROVE  /\ still' \in 0 .. StillMax
           /\ moved' \in BOOLEAN
           /\ changed => still' = 0
           /\ ~changed /\ still < StillMax => still' = still + 1
           /\ changed /\ motion_state # "START" => moved'
           /\ ~changed /\ moved /\ ~tick => moved'
  <1>1. StillMax \in Nat /\ still \in 0 .. StillMax
    BY ThresholdAssumption DEF StillMax, MotionTypeOK
  <1>2. CASE changed
    <2>1. still' = 0
      BY <1>2 DEF Observe
    <2>2. moved' = (motion_state # "START")
      BY <1>2 DEF Observe
    <2>3. moved' \in BOOLEAN /\ (motion_state # "START" => moved')
      BY <2>2
    <2>4. still' \in 0 .. StillMax
      BY <1>1, <2>1
    <2> QED BY <1>2, <2>1, <2>3, <2>4
  <1>3. CASE ~changed
    <2>1. still' = IF still < StillMax THEN still + 1 ELSE still
      BY <1>3 DEF Observe
    <2>2. still' \in 0 .. StillMax /\ (still < StillMax => still' = still + 1)
      BY <1>1, <2>1
    <2>3. moved' = (moved /\ ~tick)
      BY <1>3 DEF Observe
    <2>4. moved' \in BOOLEAN /\ (moved /\ ~tick => moved')
      BY <2>3
    <2> QED BY <1>3, <2>2, <2>4
  <1> QED BY <1>2, <1>3

LEMMA DetectorStep == DetectorInv /\ [MotionNext]_motionVars => DetectorInv'
  <1> SUFFICES ASSUME DetectorInv, [MotionNext]_motionVars PROVE DetectorInv'
    OBVIOUS
  <1> USE DEF DetectorInv
  <1>1. ASSUME NEW changed \in BOOLEAN, NextMotionState(changed) PROVE DetectorInv'
    <2>0. /\ still' \in 0 .. StillMax /\ moved' \in BOOLEAN
          /\ changed => still' = 0
          /\ ~changed /\ still < StillMax => still' = still + 1
          /\ changed /\ motion_state # "START" => moved'
          /\ ~changed /\ moved /\ ~tick => moved'
      BY <1>1, Observed DEF NextMotionState
    <2>1. /\ StartGood \in Nat /\ GoodThreshold \in Nat
          /\ StillMax = StartGood + GoodThreshold + 3
          /\ good_frames_in_a_row \in Nat
      BY ThresholdAssumption DEF StillMax, MotionTypeOK
    <2>2. CASE Start(changed)
      <3>1. motion_state = "START" /\ ~tick' /\ tick' \in BOOLEAN
        BY <2>2 DEF Start
      <3> DEFINE good == IF changed THEN 0 ELSE good_frames_in_a_row + 1
      <3>2. still = good_frames_in_a_row /\ good_frames_in_a_row <= StartGood
        BY <3>1 DEF Remembers, MotionTypeOK
      <3>3. good \in Nat /\ still' = good
        BY <2>0, <2>1, <3>2
      <3>4. CASE good > StartGood
        <4>1. motion_state' = "SEARCHING" /\ good_frames_in_a_row' = 0
          BY <2>2, <3>4 DEF Start
        <4> QED BY <2>0, <3>1, <4>1 DEF MotionTypeOK, Remembers, TickNeedsMotion, States
      <3>5. CASE ~ (good > StartGood)
        <4>1. motion_state' = "START" /\ good_frames_in_a_row' = good
          BY <2>2, <3>1, <3>5 DEF Start
        <4>2. good_frames_in_a_row' \in Nat /\ good_frames_in_a_row' <= StartGood
          BY <2>1, <3>3, <3>5, <4>1
        <4>3. still' = good_frames_in_a_row'
          BY <3>3, <4>1
        <4> QED BY <2>0, <3>1, <4>1, <4>2, <4>3
                DEF MotionTypeOK, Remembers, TickNeedsMotion, States
      <3> QED BY <3>4, <3>5
    <2>3. CASE Searching(changed)
      <3>1. /\ motion_state = "SEARCHING" /\ good_frames_in_a_row' = 0
            /\ ~tick' /\ tick' \in BOOLEAN
        BY <2>3 DEF Searching, MotionTypeOK
      <3>2. motion_state' \in {"SEARCHING", "BOOKEND"}
        BY <2>3 DEF Searching
      <3>3. motion_state' = "BOOKEND" => still' = 0 /\ moved'
        BY <2>0, <2>3, <3>1 DEF Searching
      <3> QED BY <2>0, <3>1, <3>2, <3>3 DEF MotionTypeOK, Remembers, TickNeedsMotion, States
    <2>4. CASE Bookend(changed)
      <3>1. /\ motion_state = "BOOKEND" /\ good_frames_in_a_row' = 0
            /\ ~tick' /\ tick' \in BOOLEAN /\ still = 0 /\ moved /\ ~tick
        BY <2>4 DEF Bookend, MotionTypeOK, Remembers
      <3>2. CASE changed
        BY <2>0, <2>1, <2>4, <3>1, <3>2
           DEF Bookend, MotionTypeOK, Remembers, TickNeedsMotion, States
      <3>3. CASE ~changed
        <4>1. still' = 1 /\ moved' /\ motion_state' = "COUNTING"
          BY <2>0, <2>1, <2>4, <3>1, <3>3 DEF Bookend
        <4> QED BY <2>0, <2>1, <3>1, <4>1
                DEF MotionTypeOK, Remembers, TickNeedsMotion, States
      <3> QED BY <3>2, <3>3
    <2>5. CASE CountingChanged
      BY <2>0, <2>5 DEF CountingChanged, MotionTypeOK, Remembers, TickNeedsMotion, States
    <2>6. CASE ~changed /\ CountingStill
      <3>1. /\ motion_state = "COUNTING" /\ good_frames_in_a_row <= GoodThreshold
            /\ still = good_frames_in_a_row + 1 /\ moved /\ ~tick
        BY <2>6 DEF CountingStill, MotionTypeOK, Remembers
      <3>2. still' = good_frames_in_a_row + 2 /\ moved'
        BY <2>0, <2>1, <2>6, <3>1
      <3>3. CASE good_frames_in_a_row + 1 > GoodThreshold
        <4>1. tick' = TRUE
          BY <2>6, <3>3 DEF CountingStill
        <4>2. motion_state' = "SEARCHING" /\ good_frames_in_a_row' = 0
          BY <2>6, <4>1 DEF CountingStill
        <4>3. still' = GoodThreshold + 2
          BY <2>1, <3>1, <3>2, <3>3
        <4> QED BY <2>0, <3>2, <4>1, <4>2, <4>3
                DEF MotionTypeOK, Remembers, TickNeedsMotion, States
      <3>4. CASE ~ (good_frames_in_a_row + 1 > GoodThreshold)
        <4>1. tick' = FALSE
          BY <2>6, <3>4 DEF CountingStill
        <4>2. /\ motion_state' = "COUNTING"
              /\ good_frames_in_a_row' = good_frames_in_a_row + 1
          BY <2>6, <4>1 DEF CountingStill
        <4>3. /\ good_frames_in_a_row' \in Nat /\ good_frames_in_a_row' <= GoodThreshold
              /\ still' = good_frames_in_a_row' + 1
          BY <2>1, <3>2, <3>4, <4>2
        <4> QED BY <2>0, <3>2, <4>1, <4>2, <4>3
                DEF MotionTypeOK, Remembers, TickNeedsMotion, States
      <3> QED BY <3>3, <3>4
    <2> QED BY <1>1, <2>2, <2>3, <2>4, <2>5, <2>6 DEF NextMotionState
  <1>2. CASE UNCHANGED motionVars
    BY <1>2 DEF motionVars, MotionTypeOK, Remembers, TickNeedsMotion
  <1> QED BY <1>1, <1>2 DEF MotionNext

\* The detector's variables keep their ranges for every pair of thresholds.
THEOREM DetectorTypeCorrect == MotionSpec => []MotionTypeOK
  <1>1. DetectorInv => MotionTypeOK
    BY DEF DetectorInv
  <1> QED BY DetectorInit, DetectorStep, <1>1, PTL DEF MotionSpec

\* next_motion_state reports no tick but a change and exactly GoodThreshold + 2 unchanged
\* comparisons after it, and none twice, whatever the thresholds.
THEOREM TicksAreMotion == MotionSpec => []TickNeedsMotion
  <1>1. DetectorInv => TickNeedsMotion
    BY DEF DetectorInv
  <1> QED BY DetectorInit, DetectorStep, <1>1, PTL DEF MotionSpec

\* The detector leaves its first state at the end of a run of StartGood + 1 unchanged
\* comparisons, not before and not on any shorter evidence.
THEOREM SearchNeedsStill == MotionSpec => StartsStill
  <1>1. DetectorInv /\ [MotionNext]_motionVars =>
            [motion_state = "START" /\ motion_state' # "START"
                => still' = StartGood + 1]_motionVars
    <2> SUFFICES ASSUME DetectorInv, NEW changed \in BOOLEAN, NextMotionState(changed),
                        motion_state = "START", motion_state' # "START"
                 PROVE  still' = StartGood + 1
      BY DEF MotionNext
    <2>1. Start(changed) /\ Observe(changed)
      BY DEF NextMotionState, Searching, Bookend, CountingChanged, CountingStill
    <2> QED BY <2>1, ThresholdAssumption
            DEF Start, Observe, DetectorInv, MotionTypeOK, Remembers, StillMax
  <1> QED BY DetectorInit, DetectorStep, <1>1, PTL DEF MotionSpec, StartsStill

-----------------------------------------------------------------------------
(* The ring.                                                               *)

\* The slots processing compares are slots of the ring.
LEMMA NextSlotType == ASSUME NEW i \in Slots PROVE NextSlot(i) \in Slots
  <1>1. RingSize \in Nat /\ RingSize > 0 /\ i + 1 \in Nat
    BY RingAssumption DEF Slots
  <1> QED BY <1>1 DEF NextSlot, Slots

LEMMA RingTypeInit == Init => TypeOK
  <1> SUFFICES ASSUME Init PROVE TypeOK
    OBVIOUS
  <1>1. 0 \in Slots
    BY RingAssumption DEF Slots
  <1> QED BY <1>1 DEF Init, TypeOK

LEMMA RingTypeStep == TypeOK /\ [Next]_vars => TypeOK'
  <1> SUFFICES ASSUME TypeOK, [Next]_vars PROVE TypeOK'
    OBVIOUS
  <1> USE DEF TypeOK
  <1>1. CASE Grab
    BY <1>1, NextSlotType DEF Grab, scanVars
  <1>2. CASE Release
    BY <1>2, NextSlotType DEF Release
  <1>3. CASE CompareFrames
    BY <1>3 DEF CompareFrames
  <1>4. CASE IsMotion
    BY <1>4, NextSlotType DEF IsMotion
  <1>5. CASE UNCHANGED vars
    BY <1>5 DEF vars, scanVars
  <1> QED BY <1>1, <1>2, <1>3, <1>4, <1>5 DEF Next

\* Every variable of the ring keeps its range; processing compares neighbouring slots.
THEOREM RingTypeCorrect == Spec => []TypeOK
  BY RingTypeInit, RingTypeStep, PTL DEF Spec

(* The detector of ScanRing is module Motion's: whatever the two threads   *)
(* do to the ring, it makes a step of its own or none.                     *)
LEMMA DetectorMoves == TypeOK /\ [Next]_vars => [MotionNext]_motionVars
  <1> SUFFICES ASSUME TypeOK, [Next]_vars PROVE [MotionNext]_motionVars
    OBVIOUS
  <1>1. CASE IsMotion
    BY <1>1 DEF IsMotion, MotionNext
  <1>2. CASE ~IsMotion
    BY <1>2 DEF Next, Grab, Release, CompareFrames, vars
  <1> QED BY <1>1, <1>2

\* ScanRing implements the detector's specification, also where framegrab overwrites a slot
\* that is being compared.
THEOREM ImplementsDetector == Spec => MotionSpec
  <1>1. Init => MotionInit
    BY DEF Init
  <1> QED BY <1>1, RingTypeInit, RingTypeStep, DetectorMoves, PTL DEF Spec, MotionSpec

\* A tick found in the ring is a change and then exactly GoodThreshold + 2 unchanged
\* comparisons, also when framegrab overwrote what some of them read.
THEOREM RingTicksAreMotion == Spec => []TickNeedsMotion
  BY ImplementsDetector, TicksAreMotion

\* The search through the ring starts only at the end of a run of more than StartGood
\* unchanged comparisons.
THEOREM RingSearchNeedsStill == Spec => StartsStill
  BY ImplementsDetector, SearchNeedsStill
=============================================================================
