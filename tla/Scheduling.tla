------------------------------ MODULE Scheduling ------------------------------
(***************************************************************************)
(* What the repository shows of scheduling, in one specification: the      *)
(* priority inversion demonstrations of module Inversion, and the          *)
(* simulator and the feasibility tests of module Schedule.  They share     *)
(* nothing.  The initial state says which of them is run; the other one    *)
(* stays where it starts.                                                  *)
(***************************************************************************)
EXTENDS Inversion, Schedule

VARIABLE shown \* the one that is run: "inversion" or "simulation"

schedulingVars == <<shown, vars, scheduleVars>>

\* How the one starts that is not run does not matter.
SchedulingInit ==
    /\ shown \in {"inversion", "simulation"}
    /\ Init
    /\ shown = "simulation" => program = "pthread3ok_spins" /\ runInterference = 0
    /\ ScheduleInit
    /\ shown = "inversion" => set \in Examples /\ protocol = "RM"

Demonstration == shown = "inversion" /\ Next /\ UNCHANGED <<shown, scheduleVars>>
Simulation == shown = "simulation" /\ ScheduleNext /\ UNCHANGED <<shown, vars>>

SchedulingNext == Demonstration \/ Simulation

\* The fairness of module Inversion, when it is run.
SchedulingFairness ==
    /\ WF_schedulingVars(Demonstration /\ Service)
    /\ WF_schedulingVars(Demonstration /\ Compute)
    /\ \A c \in {"H", "L"} : WF_schedulingVars(Demonstration /\ Critical(c))

SchedulingSpec == SchedulingInit /\ [][SchedulingNext]_schedulingVars /\ SchedulingFairness
=============================================================================
