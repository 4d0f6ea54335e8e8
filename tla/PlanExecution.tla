--------------------------- MODULE PlanExecution ---------------------------
(***************************************************************************)
(* What run() of mks_servo::Scheduler promises for one plan, without        *)
(* threads: a plan is composed, released once, every move starts when what  *)
(* it needs has happened, ends once, and the outcome is reported when all   *)
(* have ended.  Scheduler implements it (see PlanRefinement).               *)
(***************************************************************************)
EXTENDS Integers

CONSTANTS
    Moves,     \* numbers, in the order of submission
    Motors,
    NoMotor    \* motor of a move that is not part of the plan

VARIABLES
    motor,     \* the motor of each move
    needs,     \* the move each one refers to, and what must be true of it
    phase,     \* how far each move is
    report     \* what the client knows of the plan

vars == <<motor, needs, phase, report>>

Ended == {"succeeded", "failed"}
Needs == [what : {"nothing", "begun", "ended"}, of : {0} \cup Moves]

Init ==
    /\ motor = [i \in Moves |-> NoMotor]
    /\ needs = [i \in Moves |-> [what |-> "nothing", of |-> 0]]
    /\ phase = [i \in Moves |-> "waiting"]
    /\ report = "building"

\* The client composes the plan, and may throw it away once it was reported.
Compose ==
    /\ report # "executing"
    /\ motor' \in [Moves -> Motors \cup {NoMotor}]
    /\ needs' \in [Moves -> Needs]
    /\ UNCHANGED <<phase, report>>

Release ==
    /\ report = "building"
    /\ report' = "executing"
    /\ UNCHANGED <<motor, needs, phase>>

\* The moves of one motor run one after the other, in the order of submission.
PredecessorsEnded(i) ==
    \A j \in Moves : j < i /\ motor[j] = motor[i] => phase[j] \in Ended

NeedsMet(n) ==
    CASE n.what = "nothing" -> TRUE
      [] n.what = "begun" -> phase[n.of] # "waiting"
      [] n.what = "ended" -> phase[n.of] \in Ended

Start(i) ==
    /\ report = "executing"
    /\ motor[i] # NoMotor
    /\ phase[i] = "waiting"
    /\ PredecessorsEnded(i)
    /\ NeedsMet(needs[i])
    /\ phase' = [phase EXCEPT ![i] = "running"]
    /\ UNCHANGED <<motor, needs, report>>

End(i) ==
    /\ phase[i] = "running"
    /\ \E outcome \in Ended : phase' = [phase EXCEPT ![i] = outcome]
    /\ UNCHANGED <<motor, needs, report>>

InPlan == {i \in Moves : motor[i] # NoMotor}

Report ==
    /\ report = "executing"
    /\ \A i \in InPlan : phase[i] \in Ended
    /\ report' = IF \A i \in InPlan : phase[i] = "succeeded" THEN "OK" ELSE "TransportError"
    /\ UNCHANGED <<motor, needs, phase>>

Next ==
    \/ Compose \/ Release \/ Report
    \/ \E i \in Moves : Start(i) \/ End(i)

Spec == Init /\ [][Next]_vars
=============================================================================
