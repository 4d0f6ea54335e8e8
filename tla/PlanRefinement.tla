--------------------------- MODULE PlanRefinement --------------------------
(***************************************************************************)
(* The refinement mapping from Scheduler to PlanExecution, for the first    *)
(* plan of a scheduler and without abort().                                 *)
(***************************************************************************)
EXTENDS Scheduler

\* What a trigger needs of its leader.  A failed leader releases a move that
\* waits for its completion, so "ended" is all that AfterCompleted asks; a
\* threshold of zero asks nothing.
NeedsOf(t) ==
    [what |-> IF t.ref = 0 \/ (t.kind = "AtProgress" /\ t.val = 0) THEN "nothing"
              ELSE IF t.kind = "AfterCompleted" THEN "ended" ELSE "begun",
     of |-> t.ref]

PhaseOf(st) ==
    CASE st \in {"Pending", "WaitingDeps"} -> "waiting"
      [] st \in {"Dispatching", "Polling"} -> "running"
      [] st = "Completed" -> "succeeded"
      [] st = "Failed" -> "failed"

planMotor == [i \in Moves |-> IF i \in Pool THEN owner[i] ELSE NoMotor]
planNeeds == [i \in Moves |-> NeedsOf(trig[i])]
planPhase == [i \in Moves |-> PhaseOf(status[i])]
planReport ==
    IF runs = 0 THEN "building"
    ELSE IF main \in {"poll", "collect"} THEN "executing" ELSE result

Plan == INSTANCE PlanExecution WITH
            motor <- planMotor, needs <- planNeeds,
            phase <- planPhase, report <- planReport

\* The scheduler executes its first plan as PlanExecution says: every step of
\* its threads is a step of the plan or leaves the plan alone.
ImplementsPlan == Plan!Spec
=============================================================================
