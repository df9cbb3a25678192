-------------------------------- MODULE Motion --------------------------------
(***************************************************************************)
(* The tick detector of simple-capture/motion.c: next_motion_state is      *)
(* called with the outcome of one comparison of two neighbouring frames,   *)
(* changed or not, and returns 1 when it takes what it saw for a tick of   *)
(* the clock in the picture.                                               *)
(***************************************************************************)
EXTENDS Naturals

CONSTANTS
    StartGood,     \* MOTION_START_GOOD_FRAMES (8)
    GoodThreshold  \* MOTION_GOOD_FRAMES_THRESHOLD (4)

ASSUME ThresholdAssumption == StartGood \in Nat /\ GoodThreshold \in Nat

VARIABLES
    motion_state,         \* the global of that name
    good_frames_in_a_row, \* the global of that name
    tick,                 \* the latest call returned 1
    still,                \* history: unchanged comparisons in a row, up to StillMax
    moved                 \* history: a change since the search began or the last tick

motionVars == <<motion_state, good_frames_in_a_row, tick, still, moved>>

States == {"START", "SEARCHING", "BOOKEND", "COUNTING"}

\* bound of `still': one more than any run of unchanged comparisons that matters
StillMax == StartGood + GoodThreshold + 3

MotionInit ==
    /\ motion_state = "START"
    /\ good_frames_in_a_row = 0
    /\ tick = FALSE
    /\ still = 0
    /\ moved = FALSE

\* What a call adds to the history, whatever the detector makes of it.
Observe(changed) ==
    /\ still' = CASE changed -> 0
                  [] ~changed /\ still < StillMax -> still + 1
                  [] OTHER -> still
    /\ moved' = IF changed THEN motion_state # "START" ELSE moved /\ ~tick

\* Mutant: a change does not start the run again.
StartNoReset(changed) ==
    /\ motion_state = "START"
    /\ LET good == IF changed THEN good_frames_in_a_row ELSE good_frames_in_a_row + 1
       IN  IF good > StartGood
           THEN motion_state' = "SEARCHING" /\ good_frames_in_a_row' = 0
           ELSE UNCHANGED motion_state /\ good_frames_in_a_row' = good
    /\ tick' = FALSE

\* A run of unchanged frames must come first.
Start(changed) ==
    /\ motion_state = "START"
    /\ LET good == IF changed THEN 0 ELSE good_frames_in_a_row + 1
       IN  IF good > StartGood
           THEN motion_state' = "SEARCHING" /\ good_frames_in_a_row' = 0
           ELSE UNCHANGED motion_state /\ good_frames_in_a_row' = good
    /\ tick' = FALSE

Searching(changed) ==
    /\ motion_state = "SEARCHING"
    /\ motion_state' = IF changed THEN "BOOKEND" ELSE "SEARCHING"
    /\ tick' = FALSE
    /\ UNCHANGED good_frames_in_a_row

\* Mutant: counting starts inside the burst.
BookendCounts(changed) ==
    /\ motion_state = "BOOKEND"
    /\ motion_state' = "COUNTING"
    /\ tick' = FALSE
    /\ UNCHANGED good_frames_in_a_row

\* A burst of changes; its first unchanged frame is not counted.
Bookend(changed) ==
    /\ motion_state = "BOOKEND"
    /\ motion_state' = IF changed THEN "BOOKEND" ELSE "COUNTING"
    /\ tick' = FALSE
    /\ UNCHANGED good_frames_in_a_row

\* Mutant: the count is kept.
CountingChangedKeeps ==
    /\ motion_state = "COUNTING"
    /\ motion_state' = "BOOKEND"
    /\ UNCHANGED good_frames_in_a_row
    /\ tick' = FALSE

\* A change sends the detector back to the search, which waits for another one.
CountingChanged ==
    /\ motion_state = "COUNTING"
    /\ motion_state' = "SEARCHING"
    /\ good_frames_in_a_row' = 0
    /\ tick' = FALSE

CountingStill ==
    /\ motion_state = "COUNTING"
    /\ tick' = (good_frames_in_a_row + 1 > GoodThreshold)
    /\ motion_state' = IF tick' THEN "SEARCHING" ELSE "COUNTING"
    /\ good_frames_in_a_row' = IF tick' THEN 0 ELSE good_frames_in_a_row + 1

\* next_motion_state
NextMotionState(changed) ==
    /\ Observe(changed)
    /\ \/ Start(changed)
       \/ Searching(changed)
       \/ Bookend(changed)
       \/ changed /\ CountingChanged
       \/ ~changed /\ CountingStill

MotionNext == \E changed \in BOOLEAN : NextMotionState(changed)

MotionSpec == MotionInit /\ [][MotionNext]_motionVars

-----------------------------------------------------------------------------
(* Properties                                                              *)

\* Every variable keeps its range; the count stays below the threshold of its state.
MotionTypeOK ==
    /\ motion_state \in States
    /\ good_frames_in_a_row \in Nat
    /\ motion_state = "START" => good_frames_in_a_row <= StartGood
    /\ motion_state \in {"SEARCHING", "BOOKEND"} => good_frames_in_a_row = 0
    /\ motion_state = "COUNTING" => good_frames_in_a_row <= GoodThreshold
    /\ tick \in BOOLEAN
    /\ still \in 0 .. StillMax
    /\ moved \in BOOLEAN

\* A tick is a change and then exactly two more unchanged frames than the threshold: no
\* change is reported twice, none while the picture still moves, none without a change.
TickNeedsMotion == tick => moved /\ still = GoodThreshold + 2

\* "At the start look for a bunch of same frames before we start": the detector leaves
\* its first state only at the end of a run of more than StartGood unchanged frames.
StartsStill ==
    [][motion_state = "START" /\ motion_state' # "START" => still' = StartGood + 1]_motionVars

=============================================================================
