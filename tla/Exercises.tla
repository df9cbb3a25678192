------------------------------- MODULE Exercises -------------------------------
(***************************************************************************)
(* The two programs of the course that stand alone, in one specification:  *)
(* the lock exercises of module Deadlock and the Hamming memories of       *)
(* module Ecc.  They share nothing.  The initial state says which of them  *)
(* is run; the other one stays where it starts.                            *)
(***************************************************************************)
EXTENDS Deadlock, Ecc

VARIABLE exercise \* the one that is run: "locks" or "codes"

exercisesVars == <<exercise, vars, eccVars>>

\* Which lock exercise is not run when the codes are does not matter.
ExercisesInit ==
    /\ exercise \in {"locks", "codes"}
    /\ Init
    /\ exercise = "codes" => program = "simple"
    /\ EccInit

Locks == exercise = "locks" /\ Next /\ UNCHANGED <<exercise, eccVars>>
Codes == exercise = "codes" /\ EccNext /\ UNCHANGED <<exercise, vars>>

ExercisesNext == Locks \/ Codes

\* The fairness of module Deadlock, when it is run.
ExercisesFairness ==
    /\ WF_exercisesVars(Locks /\ (MainStep \/ SimpleMain))
    /\ \A t \in Threads : WF_exercisesVars(Locks /\ Thread(t))

ExercisesSpec == ExercisesInit /\ [][ExercisesNext]_exercisesVars /\ ExercisesFairness
=============================================================================
