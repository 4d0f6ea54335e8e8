----------------------------- MODULE MotorGroup -----------------------------
(***************************************************************************)
(* MotorGroup (src/include/mks_servo/motor_group.hpp): operations on several *)
(* motors, each on a bus of its own, one motor after the other from one      *)
(* thread, while the motors turn.                                            *)
(*                                                                         *)
(* The group uses Motor::write(), whose outcomes are those that the module  *)
(* Motor has (limits of speed have the outcomes of limits of position), and *)
(* reads encoders.  Angles are in counts from the origin of each motor.  An *)
(* enable_all() whose value is false has the result "NotEnabled".           *)
(***************************************************************************)
EXTENDS Integers

CONSTANTS
    N,                \* size()
    Angles,           \* what the client asks for, and where the motors start
    Lo, Hi,           \* the limits of position
    Policies,         \* policies of the motors, "None" for no limit
    Offsets,          \* origins of the motors
    Tolerance,        \* tolerance_counts
    Window,           \* consecutive_in_window
    MaxCalls,         \* bound: calls of the client
    MaxFaults         \* bound: transactions that fail, and stalls

Motors == 1..N

ASSUME SizeAssumption == N \in Nat
ASSUME AnglesAssumption == Angles \subseteq Int /\ Offsets \subseteq Int
ASSUME LimitsAssumption ==
    /\ Lo \in Int /\ Hi \in Int /\ Lo <= Hi
    /\ Policies \subseteq {"None", "Reject", "Clamp", "Warn"}
ASSUME WindowAssumption == Tolerance \in Nat /\ Window \in Nat \ {0}
ASSUME BoundsAssumption == MaxCalls \in Nat /\ MaxFaults \in Nat

VARIABLES
    \* configuration of the motors
    policy, offset,
    \* the group, in the call under way or the last one
    call,       \* its name
    at,         \* where it is
    k,          \* i: the motor whose turn it is
    on,         \* parameter of enable_all()
    specs,      \* angle_deg of the MoveSpecs, or the angles of target_counts
    inWindow,   \* in_window
    done,       \* the motors that have settled
    expired,    \* the deadline has passed
    worst, out, result,
    \* the motors
    enc, goal, moving, coil, latched,
    \* history, of the call
    accepted,   \* motors whose firmware accepted a MOVE
    held,       \* readings in a row that found the motor at its goal
    \* bounds
    calls, faults

config == <<policy, offset>>
args == <<call, on, specs>>
waitVars == <<inWindow, done, expired>>
motorVars == <<enc, goal, moving, coil, latched>>
vars == <<config, args, at, k, waitVars, worst, out, result, motorVars, accepted, held,
          calls, faults>>

Init ==
    /\ policy \in [Motors -> Policies] /\ offset \in [Motors -> Offsets]
    /\ call = "none" /\ at = "idle" /\ k = 1 /\ on = FALSE
    /\ specs = [i \in Motors |-> 0]
    /\ inWindow = [i \in Motors |-> 0] /\ done = {} /\ expired = FALSE
    /\ worst = "OK" /\ out = [i \in Motors |-> "OK"] /\ result = "OK"
    /\ \E a \in Angles : enc = [i \in Motors |-> a + offset[i]]
    /\ goal = enc
    /\ moving = [i \in Motors |-> FALSE] /\ latched = [i \in Motors |-> FALSE]
    /\ \E b \in BOOLEAN : coil = [i \in Motors |-> b]
    /\ accepted = {} /\ held = [i \in Motors |-> 0]
    /\ calls = 0 /\ faults = 0

----------------------------------------------------------------------------
(* Calls of the client.                                                     *)

\* The locals of wait_all_settled(), and the history of its readings.
NewWait ==
    /\ inWindow' = [i \in Motors |-> 0] /\ done' = {} /\ expired' = FALSE
    /\ held' = [i \in Motors |-> 0]

\* An operation with the parameters b and a, as far as it has them.
Call(name, b, a) ==
    /\ at = "idle" /\ calls < MaxCalls
    /\ call' = name /\ on' = b /\ specs' = a /\ calls' = calls + 1
    /\ k' = 1 /\ worst' = "OK" /\ accepted' = {}
    /\ NewWait

Return(status) == at' = "idle" /\ result' = status

\* The head of wait_all_settled().
BeginWait ==
    /\ at' = "polling" /\ k' = 1 /\ NewWait
    /\ out' = [i \in Motors |-> "OK"]

EnableAll(b) ==
    /\ Call("enable_all", b, [i \in Motors |-> 0])
    /\ at' = "enabling"
    /\ UNCHANGED <<config, out, result, motorVars, faults>>

\* dispatch_all() and, to begin with, move_all().
Dispatch(name, a) ==
    /\ Call(name, FALSE, a)
    /\ at' = "dispatching"
    /\ UNCHANGED <<config, out, result, motorVars, faults>>

WaitAllSettled(a) ==
    /\ Call("wait_all_settled", FALSE, a)
    /\ BeginWait
    /\ UNCHANGED <<config, result, motorVars, faults>>

----------------------------------------------------------------------------
(* enable_all()                                                             *)

Note(i, status) == out' = [out EXCEPT ![i] = status]

\* Fault: a transaction with a motor gets no answer.
Fault == faults < MaxFaults /\ faults' = faults + 1

SetCoil(i) == coil' = [coil EXCEPT ![i] = on]

Enabled ==
    /\ at = "enabling" /\ k \in Motors
    /\ SetCoil(k) /\ Note(k, "OK")
    /\ k' = k + 1
    /\ UNCHANGED <<config, args, at, waitVars, worst, result, enc, goal, moving, latched,
                   accepted, held, calls, faults>>

\* The firmware answers no, and the loop goes on.
NotEnabled ==
    /\ at = "enabling" /\ k \in Motors
    /\ Note(k, "NotEnabled") /\ worst' = "NotEnabled"
    /\ k' = k + 1
    /\ UNCHANGED <<config, args, at, waitVars, result, motorVars, accepted, held, calls,
                   faults>>

\* There is no answer, and the loop ends.
EnableFails ==
    /\ at = "enabling" /\ k \in Motors /\ Fault
    /\ SetCoil(k) \/ UNCHANGED coil
    /\ Note(k, "TransportError") /\ Return("TransportError")
    /\ UNCHANGED <<config, args, k, waitVars, worst, enc, goal, moving, latched, accepted,
                   held, calls>>

EnableEnds ==
    /\ at = "enabling" /\ k > N
    /\ Return(worst)
    /\ UNCHANGED <<config, args, k, waitVars, worst, out, motorVars, accepted, held, calls,
                   faults>>

----------------------------------------------------------------------------
(* dispatch_all(): Motor::write() with blocking=false, motor by motor.      *)

Within(i) == policy[i] = "None" \/ specs[i] \in Lo..Hi
Clamp(a) == IF a < Lo THEN Lo ELSE IF a > Hi THEN Hi ELSE a

\* The firmware starts a MOVE (with auto_clear_protection, after a release).
Starts(i) ==
    /\ coil[i]
    /\ LET a == IF ~Within(i) /\ policy[i] = "Clamp" THEN Clamp(specs[i]) ELSE specs[i]
       IN  goal' = [goal EXCEPT ![i] = a + offset[i]]
    /\ moving' = [moving EXCEPT ![i] = TRUE]
    /\ latched' = [latched EXCEPT ![i] = FALSE]
    /\ accepted' = accepted \cup {i}
    /\ UNCHANGED <<enc, coil>>

Ignores == UNCHANGED <<motorVars, accepted>>

\* What write() on motor i may return, and what the motor does.
Writes(i, status) ==
    \/ /\ ~Within(i) /\ policy[i] = "Reject"
       /\ status = "LimitExceeded"
       /\ Ignores /\ UNCHANGED faults
    \/ /\ Within(i) \/ policy[i] # "Reject"
       /\ \/ /\ status = IF ~Within(i) /\ policy[i] = "Warn" THEN "LimitWarned" ELSE "OK"
             /\ Starts(i) /\ UNCHANGED faults
          \/ /\ status = "NotEnabled"
             /\ ~coil[i] \/ latched[i]
             /\ Ignores /\ UNCHANGED faults
          \/ /\ status = "NotEnabled"     \* in truth the end of the move before
             /\ moving[i]
             /\ Starts(i) /\ UNCHANGED faults
          \/ /\ status = "TransportError" /\ Fault
             /\ Starts(i) \/ Ignores

Statuses == {"OK", "LimitWarned", "LimitExceeded", "NotEnabled", "Timeout", "TransportError"}
Success == {"OK", "LimitWarned"}

\* Mutants: dispatch_all() ends at the first failure; the last failure hides
\* behind a success.
DispatchNext_fast ==
    /\ at = "dispatching" /\ k \in Motors
    /\ \E status \in Statuses :
          /\ Writes(k, status)
          /\ Note(k, status)
          /\ worst' = IF worst = "OK" /\ status \notin Success THEN status ELSE worst
          /\ k' = IF status \in Success THEN k + 1 ELSE N + 1
    /\ UNCHANGED <<config, args, at, waitVars, result, held, calls>>
DispatchNext_last ==
    /\ at = "dispatching" /\ k \in Motors
    /\ \E status \in Statuses :
          /\ Writes(k, status)
          /\ Note(k, status)
          /\ worst' = IF status \in Success THEN "OK" ELSE status
    /\ k' = k + 1
    /\ UNCHANGED <<config, args, at, waitVars, result, held, calls>>

\* The first failure is kept, and the loop goes on.
DispatchNext ==
    /\ at = "dispatching" /\ k \in Motors
    /\ \E status \in Statuses :
          /\ Writes(k, status)
          /\ Note(k, status)
          /\ worst' = IF worst = "OK" /\ status \notin Success THEN status ELSE worst
    /\ k' = k + 1
    /\ UNCHANGED <<config, args, at, waitVars, result, held, calls>>

\* dispatch_all() returns, and so does move_all() unless all were dispatched.
DispatchEnds ==
    /\ at = "dispatching" /\ k > N
    /\ \/ /\ call = "dispatch_all" \/ worst # "OK"
          /\ Return(worst)
          /\ UNCHANGED <<k, waitVars, out, held>>
       \/ /\ call = "move_all" /\ worst = "OK"
          /\ BeginWait
          /\ UNCHANGED result
    /\ UNCHANGED <<config, args, worst, motorVars, accepted, calls, faults>>

----------------------------------------------------------------------------
(* wait_all_settled()                                                       *)

\* Mutant: the firmware's target is waited for.
Target_firmware(i) == specs[i]
\* target_counts, which move_all() takes from encoder_target_for().
Target(i) == specs[i] + offset[i]

Close(i, c) == (enc[i] - c) \in -Tolerance..Tolerance

\* The next motor of the round that has not settled.
NextToPoll(i) == i \in k..N \ done /\ \A j \in k..(i - 1) : j \in done

Reads(i) == \* history of a reading
    held' = [held EXCEPT ![i] = IF ~Close(i, goal[i]) THEN 0
                                ELSE IF @ < Window THEN @ + 1 ELSE @]

Settled(n) == n >= Window

PollNear(i) ==
    /\ at = "polling" /\ NextToPoll(i)
    /\ Close(i, Target(i))
    /\ inWindow' = [inWindow EXCEPT ![i] = @ + 1]
    /\ done' = IF Settled(inWindow'[i]) THEN done \cup {i} ELSE done
    /\ Reads(i)
    /\ k' = i + 1
    /\ UNCHANGED <<config, args, at, expired, worst, out, result, motorVars, accepted, calls,
                   faults>>

PollFar(i) ==
    /\ at = "polling" /\ NextToPoll(i)
    /\ ~Close(i, Target(i))
    /\ inWindow' = [inWindow EXCEPT ![i] = 0]
    /\ Reads(i)
    /\ k' = i + 1
    /\ UNCHANGED <<config, args, at, done, expired, worst, out, result, motorVars, accepted,
                   calls, faults>>

\* One reading that fails ends the wait for all.
PollFails(i) ==
    /\ at = "polling" /\ NextToPoll(i) /\ Fault
    /\ Note(i, "TransportError") /\ Return("TransportError")
    /\ UNCHANGED <<config, args, k, waitVars, worst, motorVars, accepted, held, calls>>

Expire ==
    /\ at = "polling" /\ ~expired
    /\ expired' = TRUE
    /\ UNCHANGED <<config, args, at, k, inWindow, done, worst, out, result, motorVars,
                   accepted, held, calls, faults>>

\* Mutants: the deadline waits for motors that are about to settle; the wait is
\* over when one has.
GivesUp_lenient == expired /\ \A i \in Motors : inWindow[i] = 0
AllSettled_any == done # {}
GivesUp == expired
AllSettled == done = Motors

\* The end of a round.  Before it returns, the group drains what the motors
\* have answered since.
RoundEnds ==
    /\ at = "polling" /\ \A i \in Motors : ~NextToPoll(i)
    /\ \/ /\ AllSettled
          /\ Return("OK")
          /\ UNCHANGED <<k, out>>
       \/ /\ ~AllSettled /\ GivesUp
          /\ out' = [i \in Motors |-> IF i \in done THEN out[i] ELSE "Timeout"]
          /\ Return("Timeout")
          /\ UNCHANGED k
       \/ /\ ~AllSettled /\ ~GivesUp
          /\ k' = 1
          /\ UNCHANGED <<at, out, result>>
    /\ UNCHANGED <<config, args, waitVars, worst, motorVars, accepted, held, calls, faults>>

----------------------------------------------------------------------------
(* The motors.                                                              *)

Turn(i) ==
    /\ moving[i] /\ enc[i] # goal[i]
    /\ enc' = [enc EXCEPT ![i] = IF @ < goal[i] THEN @ + 1 ELSE @ - 1]
    /\ UNCHANGED <<config, args, at, k, waitVars, worst, out, result, goal, moving, coil,
                   latched, accepted, held, calls, faults>>

Stops(i) == moving' = [moving EXCEPT ![i] = FALSE]

Arrives(i) ==
    /\ moving[i] /\ enc[i] = goal[i]
    /\ Stops(i)
    /\ UNCHANGED <<config, args, at, k, waitVars, worst, out, result, enc, goal, coil,
                   latched, accepted, held, calls, faults>>

Stall(i) ==
    /\ moving[i] /\ Fault
    /\ Stops(i) /\ latched' = [latched EXCEPT ![i] = TRUE]
    /\ UNCHANGED <<config, args, at, k, waitVars, worst, out, result, enc, goal, coil,
                   accepted, held, calls>>

----------------------------------------------------------------------------
Calls ==
    \/ \E b \in BOOLEAN : EnableAll(b)
    \/ \E a \in [Motors -> Angles] :
          Dispatch("dispatch_all", a) \/ Dispatch("move_all", a) \/ WaitAllSettled(a)

Group ==
    \/ Enabled \/ NotEnabled \/ EnableFails \/ EnableEnds
    \/ DispatchNext \/ DispatchEnds
    \/ \E i \in Motors : PollNear(i) \/ PollFar(i) \/ PollFails(i)
    \/ RoundEnds

Next ==
    \/ Calls \/ Group \/ Expire
    \/ \E i \in Motors : Turn(i) \/ Arrives(i) \/ Stall(i)

Spec == Init /\ [][Next]_vars

\* The thread of the caller runs, and time passes.
FairSpec == Spec /\ WF_vars(Group) /\ WF_vars(Expire)

----------------------------------------------------------------------------
(* Properties.                                                              *)

\* What the encoder reads at the angle asked for.
Asked(i) == specs[i] + offset[i]

Returned(names) == at = "idle" /\ call \in names

\* After dispatch_all() and move_all() a motor whose entry is a success has
\* accepted its MOVE in this call: every motor was dispatched, also behind one
\* that failed, and no entry is left from an earlier call.
EntriesAreTrue ==
    Returned({"dispatch_all", "move_all"}) =>
        \A i \in Motors : out[i] \in Success => i \in accepted

\* When a dispatch or a wait reports a failure, the entries say whose it is;
\* when dispatch_all() reports none, there is none.
FailureIsNamed ==
    /\ Returned({"dispatch_all", "wait_all_settled", "move_all"}) /\ result # "OK" =>
           \E i \in Motors : out[i] = result
    /\ Returned({"dispatch_all", "move_all"}) /\ result = "OK" => accepted = Motors

\* move_all() and wait_all_settled() that succeed leave every motor at its
\* target, unless the motor was on its way to another (a clamped one, or one
\* of an earlier call).
OkMeansSettled ==
    Returned({"wait_all_settled", "move_all"}) /\ result = "OK" =>
        \A i \in Motors : goal[i] = Asked(i) => Close(i, Asked(i))

\* A motor that is reported late was not seen at its goal Window times in a row,
\* unless that goal is not the target that is waited for.
TimeoutIsReal ==
    Returned({"wait_all_settled", "move_all"}) =>
        \A i \in Motors : out[i] = "Timeout" /\ goal[i] = Asked(i) => held[i] < Window

\* Every call returns.
CallReturns == at # "idle" ~> at = "idle"
=============================================================================
