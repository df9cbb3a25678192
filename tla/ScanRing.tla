------------------------------- MODULE ScanRing -------------------------------
(***************************************************************************)
(* The ring scan_buffer of simple-capture: framegrab (capture.c) copies    *)
(* each frame into the slot scan_buffer_index, processing (processing.c)   *)
(* compares neighbouring slots round and round, and feeds the tick         *)
(* detector of module Motion.  Nothing but the SCHED_FIFO priorities       *)
(* orders the two: framegrab preempts processing, also in the middle of    *)
(* frame_changes, and is never preempted by it.                            *)
(*                                                                         *)
(* What the slots show is left out.  frame_changes counts the luminance    *)
(* bytes that differ by more than MOTION_SENSITIVITY, is_motion asks       *)
(* whether there are more than MOTION_THRESHOLD, and neither is an         *)
(* equality of pictures: each comparison may come out either way.          *)
(***************************************************************************)
EXTENDS Motion

CONSTANT RingSize \* SCAN_BUF_SIZE (30)

ASSUME RingAssumption == RingSize \in Nat /\ RingSize >= 2

VARIABLES
    scan_buffer_index, \* where the next frame goes
    pc,                \* processing: "wait", "scan", "compare" or "found"
    last_buffer_index, \* the slots processing compares
    current_index

scanVars == <<pc, last_buffer_index, current_index>>
vars == <<scan_buffer_index, scanVars, motionVars>>

Slots == 0 .. RingSize - 1
\* Mutant: the index is reset one slot too late.
NextSlotLate(i) == (i + 1) % (RingSize + 1)

NextSlot(i) == (i + 1) % RingSize

Init ==
    /\ scan_buffer_index = 0
    /\ pc = "wait"
    /\ last_buffer_index = 0
    /\ current_index = 0
    /\ MotionInit

\* COPY_BUFFER and the step of scan_buffer_index, also into a slot being compared
Grab ==
    /\ scan_buffer_index' = NextSlot(scan_buffer_index)
    /\ UNCHANGED <<scanVars, motionVars>>

\* sem_wait returns: from the oldest slot on, unless a tick was found in an earlier round.
Release ==
    /\ pc \in {"wait", "found"}
    /\ last_buffer_index' = scan_buffer_index
    /\ current_index' = NextSlot(scan_buffer_index)
    /\ pc' = IF pc = "found" THEN "found" ELSE "scan"
    /\ UNCHANGED <<scan_buffer_index, motionVars>>

\* frame_changes begins
CompareFrames ==
    /\ pc = "scan"
    /\ pc' = "compare"
    /\ UNCHANGED <<scan_buffer_index, last_buffer_index, current_index, motionVars>>

\* frame_changes returns, is_motion looks at the count; a tick is sent to writeout (a
\* message of module PQueue) and ends the inner loop for good.
IsMotion ==
    /\ pc = "compare"
    /\ \E changed \in BOOLEAN : NextMotionState(changed)
    /\ last_buffer_index' = current_index
    /\ current_index' = NextSlot(current_index)
    /\ pc' = IF tick' THEN "found" ELSE "scan"
    /\ UNCHANGED scan_buffer_index

Next ==
    \/ Grab
    \/ Release
    \/ CompareFrames
    \/ IsMotion

Spec == Init /\ [][Next]_vars

-----------------------------------------------------------------------------
(* Properties                                                              *)

\* Every variable keeps its range; processing compares neighbouring slots of the ring.
TypeOK ==
    /\ scan_buffer_index \in Slots
    /\ pc \in {"wait", "scan", "compare", "found"}
    /\ last_buffer_index \in Slots
    /\ current_index \in Slots
    /\ pc # "wait" => current_index = NextSlot(last_buffer_index)
=============================================================================
