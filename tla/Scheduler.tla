----------------------------- MODULE Scheduler -----------------------------
(***************************************************************************)
(* mks_servo::Scheduler (src/include/mks_servo/scheduler.hpp): one client  *)
(* thread that builds and runs plans of moves, one worker thread per       *)
(* registered motor, and a thread that may call abort().                   *)
(*                                                                         *)
(* A move is the number of its submission (the n-th call of move()), so a  *)
(* queue, which is only appended to and cleared, is a set of numbers read  *)
(* in increasing order.  Atomic loads and stores are steps of their own    *)
(* wherever another thread can tell the difference; bus transactions are   *)
(* steps with a chosen outcome; sleeps and the clock are abstracted: a     *)
(* sleeping thread takes no step, a deadline or an offset may pass at any  *)
(* moment from the one at which its clock starts.                          *)
(***************************************************************************)
EXTENDS Integers, FiniteSets

CONSTANTS
    Motors,           \* the motors the client may register
    NoMotor,          \* owner of a move not submitted yet
    Full,             \* progress 1.0, in steps of the encoder's fraction
    Window,           \* consecutive_in_window
    MaxConsecErrors,  \* MAX_CONSEC_ERRORS of process_move
    Operators,        \* the fluent operators the client uses
    ForwardRefs,      \* may a trigger name a move submitted later, or itself?
    ResetUsed,        \* does the client call reset()?
    MaxMoves,         \* bound: calls of move()
    MaxRuns,          \* bound: plans, and calls of run()
    MaxAborts         \* bound: calls of abort()

ASSUME MotorsAssumption == NoMotor \notin Motors
ASSUME OperatorsAssumption == Operators \subseteq
    {"AfterCompleted", "AtProgress", "AtTimeAfterStart", "AtTimeBeforeEnd"}
ASSUME FullAssumption == Full \in Nat \ {0}
ASSUME WindowAssumption == Window \in Nat \ {0}
ASSUME ErrorsAssumption == MaxConsecErrors \in Nat
ASSUME ClientAssumption == ForwardRefs \in BOOLEAN /\ ResetUsed \in BOOLEAN
ASSUME BoundsAssumption ==
    MaxMoves \in Nat /\ MaxRuns \in Nat /\ MaxAborts \in Nat

Moves == 1..MaxMoves

Kinds == {"None", "AfterCompleted", "AtProgress", "AtTimeAfterStart", "AtTimeBeforeEnd"}

\* A trigger: its kind, the move it refers to (0 is nullptr) and, for
\* AtProgress, the threshold.
Triggers == [kind : Kinds, ref : {0} \cup Moves, val : 0..Full]

NoTrigger == [kind |-> "None", ref |-> 0, val |-> 0]

Statuses ==
    {"Pending", "WaitingDeps", "Dispatching", "Polling", "Completed", "Failed"}
Terminal == {"Completed", "Failed"}

VARIABLES
    \* MoveState, per move
    submitted,   \* number of calls of move() so far
    freed,       \* moves 1..freed were destroyed by reset()
    owner,       \* MoveState::motor
    trig,        \* trigger_kind, trigger_ref, trigger_val
    status,      \* status
    progress,    \* progress, in 0..Full
    started,     \* t_start_us # 0
    plan,        \* history: the run() the move was submitted for
    sent,        \* history: MOVE commands issued for the move
    \* Scheduler members
    queue,       \* per_motor_queues_
    last,        \* per_motor_last_state_ (0 is nullptr)
    release,     \* release_
    shutdown,    \* shutdown_
    \* the client thread
    main,        \* where it is
    result,      \* what the last run() returned
    runs,        \* calls of run() so far
    \* the workers
    worker,      \* where each one is
    cur,         \* the move it processes (0: none yet)
    inWindow,    \* in_window
    errors,      \* consec_errors
    \* the thread in abort()
    aborter, toStop, victim, aborts

moveVars == <<submitted, freed, owner, trig, status, progress, started, plan, sent>>
schedVars == <<queue, last, release, shutdown>>
mainVars == <<main, result, runs>>
workerVars == <<worker, cur, inWindow, errors>>
abortVars == <<aborter, toStop, victim, aborts>>
vars == <<moveVars, schedVars, mainVars, workerVars, abortVars>>

\* The moves whose MoveState pool_ owns.
Pool == (freed + 1)..submitted

\* process_move() runs for cur[m]; in "done" it has returned, and the loop
\* has yet to read inter_move_rest_us from the MoveState.
InProcess == {"waiting", "reading", "sending", "polling", "settling"}
Processing(m) == worker[m] \in InProcess

Init ==
    /\ submitted = 0 /\ freed = 0
    /\ owner = [i \in Moves |-> NoMotor]
    /\ trig = [i \in Moves |-> NoTrigger]
    /\ status = [i \in Moves |-> "Pending"]
    /\ progress = [i \in Moves |-> 0]
    /\ started = [i \in Moves |-> FALSE]
    /\ plan = [i \in Moves |-> 0]
    /\ sent = [i \in Moves |-> 0]
    /\ queue = [m \in Motors |-> {}]
    /\ last = [m \in Motors |-> 0]
    /\ release = FALSE /\ shutdown = FALSE
    /\ main = "build" /\ result = "none" /\ runs = 0
    /\ worker = [m \in Motors |-> "absent"]
    /\ cur = [m \in Motors |-> 0]
    /\ inWindow = [m \in Motors |-> 0]
    /\ errors = [m \in Motors |-> 0]
    /\ aborter = "idle" /\ toStop = {} /\ victim = 0 /\ aborts = 0

----------------------------------------------------------------------------
(* The client thread.  It does not touch the plan while an abort() is under *)
(* way: pool_ has no lock, and abort() iterates over it.                    *)

Building == main = "build" /\ aborter = "idle"

\* add(): registers the motor and spawns its worker.
Add(m) ==
    /\ Building
    /\ worker[m] = "absent"
    /\ worker' = [worker EXCEPT ![m] = "idle"]
    /\ UNCHANGED <<moveVars, schedVars, mainVars, cur, inWindow, errors, abortVars>>

\* move(): the default trigger is the motor's previous move.
Move(m) ==
    /\ Building
    /\ worker[m] # "absent"
    /\ submitted < MaxMoves /\ runs < MaxRuns
    /\ LET s == submitted + 1 IN
         /\ submitted' = s
         /\ owner' = [owner EXCEPT ![s] = m]
         /\ plan' = [plan EXCEPT ![s] = runs + 1]
         /\ trig' = [trig EXCEPT ![s] =
                IF last[m] = 0
                THEN NoTrigger
                ELSE [kind |-> "AfterCompleted", ref |-> last[m], val |-> 0]]
         /\ queue' = [queue EXCEPT ![m] = @ \cup {s}]
         /\ last' = [last EXCEPT ![m] = s]
    /\ UNCHANGED <<freed, status, progress, started, sent, release, shutdown,
                   mainVars, workerVars, abortVars>>

\* after(), at_progress(), at_time_after_start(), at_time_before_end() on the
\* handle of a move of the plan being built: the MoveState, already in its
\* queue, is overwritten in place.
SetTrigger(i, t) ==
    /\ Building
    /\ i \in Pool /\ plan[i] = runs + 1
    /\ t.kind \in Operators
    /\ t.ref \in Pool
    /\ ForwardRefs \/ t.ref < i
    /\ t.kind # "AtProgress" => t.val = 0
    /\ trig' = [trig EXCEPT ![i] = t]
    /\ UNCHANGED <<submitted, freed, owner, status, progress, started, plan, sent,
                   schedVars, mainVars, workerVars, abortVars>>

\* run(): releases the workers and starts to look at the pool.
Run ==
    /\ Building
    /\ runs < MaxRuns
    /\ runs' = runs + 1
    /\ release' = TRUE
    /\ main' = "poll"
    /\ UNCHANGED <<moveVars, queue, last, shutdown, result, workerVars, abortVars>>

\* Mutants: run() returns at the first failure; the result looks at the last
\* move of each motor only.
SeesAllDone_early ==
    /\ main = "poll"
    /\ \/ \A i \in Pool : status[i] \in Terminal
       \/ \E i \in Pool : status[i] = "Failed"
    /\ release' = FALSE
    /\ main' = "collect"
    /\ UNCHANGED <<moveVars, queue, last, shutdown, result, runs, workerVars, abortVars>>
FailedMoves_last == {i \in Pool : status[i] = "Failed" /\ \E m \in Motors : last[m] = i}

\* A pass over the pool finds every move in a terminal state, and release_ is
\* reset.  (The loads of one pass are one step: but for abort(), a move seen in
\* a terminal state stays there.)
SeesAllDone ==
    /\ main = "poll"
    /\ \A i \in Pool : status[i] \in Terminal
    /\ release' = FALSE
    /\ main' = "collect"
    /\ UNCHANGED <<moveVars, queue, last, shutdown, result, runs, workerVars, abortVars>>

FailedMoves == {i \in Pool : status[i] = "Failed"}

\* The result is computed over the whole pool, the queues are cleared, the pool
\* is kept, and run() returns.
Collect ==
    /\ main = "collect"
    /\ result' = IF FailedMoves = {} THEN "OK" ELSE "TransportError"
    /\ queue' = [m \in Motors |-> {}]
    /\ last' = [m \in Motors |-> 0]
    /\ main' = "build"
    /\ UNCHANGED <<moveVars, release, shutdown, runs, workerVars, abortVars>>

\* reset(): destroys every MoveState.
Reset ==
    /\ Building /\ ResetUsed
    /\ freed' = submitted
    /\ queue' = [m \in Motors |-> {}]
    /\ last' = [m \in Motors |-> 0]
    /\ UNCHANGED <<submitted, owner, trig, status, progress, started, plan, sent,
                   release, shutdown, mainVars, workerVars, abortVars>>

\* ~Scheduler(): shutdown_ is stored first, then release_; then the workers
\* are joined.
Shutdown ==
    /\ Building
    /\ shutdown' = TRUE
    /\ main' = "shutdown"
    /\ UNCHANGED <<moveVars, queue, last, release, result, runs, workerVars,
                   abortVars>>

ReleaseAll ==
    /\ main = "shutdown"
    /\ release' = TRUE
    /\ main' = "join"
    /\ UNCHANGED <<moveVars, queue, last, shutdown, result, runs, workerVars,
                   abortVars>>

Join ==
    /\ main = "join"
    /\ \A m \in Motors : worker[m] \in {"absent", "stopped"}
    /\ main' = "dead"
    /\ UNCHANGED <<moveVars, schedVars, result, runs, workerVars, abortVars>>

----------------------------------------------------------------------------
(* The worker of motor m: worker_loop(), process_move(), wait_for_trigger() *)

Goto(m, pc) == worker' = [worker EXCEPT ![m] = pc]
SetStatus(i, st) == status' = [status EXCEPT ![i] = st]

\* Mutants: a worker that looks at release_ alone, and one that takes a
\* released scheduler for one that is not shut down.
Enter_released(m) ==
    /\ worker[m] = "idle"
    /\ release
    /\ Goto(m, "scan")
    /\ UNCHANGED <<moveVars, schedVars, mainVars, cur, inWindow, errors, abortVars>>
Leave_gated(m) ==
    /\ worker[m] = "idle"
    /\ shutdown /\ ~release
    /\ Goto(m, "stopped")
    /\ UNCHANGED <<moveVars, schedVars, mainVars, cur, inWindow, errors, abortVars>>

\* Outside process_move() the worker sleeps and loads release_ and shutdown_:
\* at its first gate, at the head of the outer and of the inner loop, at the
\* gate between runs.  From all of them it goes on to a scan or leaves.
Enter(m) ==
    /\ worker[m] = "idle"
    /\ release /\ ~shutdown
    /\ Goto(m, "scan")
    /\ UNCHANGED <<moveVars, schedVars, mainVars, cur, inWindow, errors, abortVars>>

Leave(m) ==
    /\ worker[m] = "idle"
    /\ shutdown
    /\ Goto(m, "stopped")
    /\ UNCHANGED <<moveVars, schedVars, mainVars, cur, inWindow, errors, abortVars>>

\* Mutant: a move that failed is tried again.
PendingOf_retry(m) == {i \in queue[m] : status[i] \in {"Pending", "Failed"}}
\* Mutant: the newest move is picked.
IsFirst_lifo(i, S) == i \in S /\ \A j \in S : j <= i

PendingOf(m) == {i \in queue[m] : status[i] = "Pending"}
IsFirst(i, S) == i \in S /\ \A j \in S : i <= j

\* The scan of the queue finds its first Pending move, and process_move() marks
\* it as picked up.  (A store of abort() between the two would be overwritten
\* here, as one that comes later is by BeginDispatch.)
Pickup(m) ==
    /\ worker[m] = "scan"
    /\ \E i \in Moves : /\ IsFirst(i, PendingOf(m))
                        /\ cur' = [cur EXCEPT ![m] = i]
                        /\ SetStatus(i, "WaitingDeps")
    /\ Goto(m, "waiting")
    /\ UNCHANGED <<submitted, freed, owner, trig, progress, started, plan, sent,
                   schedVars, mainVars, inWindow, errors, abortVars>>

\* The scan finds none.
ScanFindsNone(m) ==
    /\ worker[m] = "scan"
    /\ PendingOf(m) = {}
    /\ Goto(m, "idle")
    /\ UNCHANGED <<moveVars, schedVars, mainVars, cur, inWindow, errors, abortVars>>

\* Mutants: no wait at all; no release by a leader that failed; a leader that
\* has arrived but has not completed.
TriggerMet_always(t) == TRUE
TriggerMet_stubborn(t) ==
    \/ t.ref = 0
    \/ /\ t.ref # 0
       /\ \/ status[t.ref] = "Completed"
          \/ t.kind = "AtProgress" /\ progress[t.ref] >= t.val
          \/ t.kind \notin {"AfterCompleted", "AtProgress"} /\ started[t.ref]
TriggerMet_arrived(t) ==
    t.ref # 0 => progress[t.ref] >= t.val \/ status[t.ref] \in Terminal

\* wait_for_trigger() may return.  The two time triggers need the start of the
\* move they refer to and then a time that may have passed.  (The offset of
\* at_time_before_end also ends when that move completes, which it does only
\* after it started.)
TriggerMet(t) ==
    \/ t.kind = "None" \/ t.ref = 0
    \/ t.ref # 0 /\ status[t.ref] = "Failed"
    \/ /\ t.kind = "AfterCompleted"
       /\ status[t.ref] = "Completed"
    \/ /\ t.kind = "AtProgress"
       /\ progress[t.ref] >= t.val \/ status[t.ref] = "Completed"
    \/ /\ t.kind \in {"AtTimeAfterStart", "AtTimeBeforeEnd"}
       /\ started[t.ref]

BeginDispatch(m) ==
    /\ worker[m] = "waiting"
    /\ TriggerMet(trig[cur[m]])
    /\ SetStatus(cur[m], "Dispatching")
    /\ Goto(m, "reading")
    /\ UNCHANGED <<submitted, freed, owner, trig, progress, started, plan, sent,
                   schedVars, mainVars, cur, inWindow, errors, abortVars>>

\* The encoder is read; on success the move's clock starts.
ReadStart(m) ==
    /\ worker[m] = "reading"
    /\ started' = [started EXCEPT ![cur[m]] = TRUE]
    /\ Goto(m, "sending")
    /\ UNCHANGED <<submitted, freed, owner, trig, status, progress, plan, sent,
                   schedVars, mainVars, cur, inWindow, errors, abortVars>>

ReadStartFails(m) ==
    /\ worker[m] = "reading"
    /\ SetStatus(cur[m], "Failed")
    /\ Goto(m, "done")
    /\ UNCHANGED <<submitted, freed, owner, trig, progress, started, plan, sent,
                   schedVars, mainVars, cur, inWindow, errors, abortVars>>

\* move_relative_axis() is accepted, and the polling loop begins ...
Send(m) ==
    /\ worker[m] = "sending"
    /\ sent' = [sent EXCEPT ![cur[m]] = @ + 1]
    /\ SetStatus(cur[m], "Polling")
    /\ Goto(m, "polling")
    /\ inWindow' = [inWindow EXCEPT ![m] = 0]
    /\ errors' = [errors EXCEPT ![m] = 0]
    /\ UNCHANGED <<submitted, freed, owner, trig, progress, started, plan,
                   schedVars, mainVars, cur, abortVars>>

\* ... or it is refused, or its reply is lost (the motor may have started).
SendFails(m) ==
    /\ worker[m] = "sending"
    /\ sent' = [sent EXCEPT ![cur[m]] = @ + 1]
    /\ SetStatus(cur[m], "Failed")
    /\ Goto(m, "done")
    /\ UNCHANGED <<submitted, freed, owner, trig, progress, started, plan,
                   schedVars, mainVars, cur, inWindow, errors, abortVars>>

\* A read outside the tolerance publishes any progress: the shaft may
\* overshoot or be pushed back.
PollFar(m) ==
    /\ worker[m] = "polling"
    /\ \E p \in 0..Full : progress' = [progress EXCEPT ![cur[m]] = p]
    /\ inWindow' = [inWindow EXCEPT ![m] = 0]
    /\ errors' = [errors EXCEPT ![m] = 0]
    /\ UNCHANGED <<submitted, freed, owner, trig, status, started, plan, sent,
                   schedVars, mainVars, worker, cur, abortVars>>

\* Mutant: one read too many.
Arrived_off(n) == n > Window
Arrived(n) == n >= Window

\* A read within it counts; enough of them in a row end the loop.
PollNear(m) ==
    /\ worker[m] = "polling"
    /\ inWindow' = [inWindow EXCEPT ![m] = @ + 1]
    /\ errors' = [errors EXCEPT ![m] = 0]
    /\ IF Arrived(inWindow[m] + 1)
       THEN /\ progress' = [progress EXCEPT ![cur[m]] = Full]
            /\ Goto(m, "settling")
       ELSE /\ \E p \in 0..Full : progress' = [progress EXCEPT ![cur[m]] = p]
            /\ UNCHANGED worker
    /\ UNCHANGED <<submitted, freed, owner, trig, status, started, plan, sent,
                   schedVars, mainVars, cur, abortVars>>

\* A read that fails; in_window is left as it is.
PollError(m) ==
    /\ worker[m] = "polling"
    /\ errors' = [errors EXCEPT ![m] = @ + 1]
    /\ IF errors[m] + 1 > MaxConsecErrors
       THEN SetStatus(cur[m], "Failed") /\ Goto(m, "done")
       ELSE UNCHANGED <<status, worker>>
    /\ UNCHANGED <<submitted, freed, owner, trig, progress, started, plan, sent,
                   schedVars, mainVars, cur, inWindow, abortVars>>

\* The deadline, five seconds after the start.
PollTimeout(m) ==
    /\ worker[m] = "polling"
    /\ SetStatus(cur[m], "Failed")
    /\ Goto(m, "done")
    /\ UNCHANGED <<submitted, freed, owner, trig, progress, started, plan, sent,
                   schedVars, mainVars, cur, inWindow, errors, abortVars>>

\* The bus is drained before Completed is published.
Settle(m) ==
    /\ worker[m] = "settling"
    /\ SetStatus(cur[m], "Completed")
    /\ Goto(m, "done")
    /\ UNCHANGED <<submitted, freed, owner, trig, progress, started, plan, sent,
                   schedVars, mainVars, cur, inWindow, errors, abortVars>>

\* Back in worker_loop(): the rest time is read from the MoveState; the rest
\* itself is time spent before the next step.
Rest(m) ==
    /\ worker[m] = "done"
    /\ Goto(m, "idle")
    /\ UNCHANGED <<moveVars, schedVars, mainVars, cur, inWindow, errors, abortVars>>

----------------------------------------------------------------------------
(* abort(), called by another thread while run() blocks, or by the client   *)
(* between runs: an emergency stop on every bus, then one load and one      *)
(* store per move that is not in a terminal state.                          *)

AbortBegin ==
    /\ aborter = "idle" /\ aborts < MaxAborts
    /\ main \in {"build", "poll"}
    /\ aborter' = "stopping"
    /\ toStop' = {m \in Motors : worker[m] # "absent"}
    /\ victim' = freed + 1
    /\ aborts' = aborts + 1
    /\ UNCHANGED <<moveVars, schedVars, mainVars, workerVars>>

EmergencyStop(m) ==
    /\ aborter = "stopping"
    /\ m \in toStop
    /\ toStop' = toStop \ {m}
    /\ UNCHANGED <<moveVars, schedVars, mainVars, workerVars, aborter, victim, aborts>>

AbortLoad ==
    /\ \/ aborter = "stopping" /\ toStop = {}
       \/ aborter = "loading"
    /\ IF victim \notin Pool
       THEN aborter' = "idle" /\ victim' = 0
       ELSE IF status[victim] \in Terminal
            THEN aborter' = "loading" /\ victim' = victim + 1
            ELSE aborter' = "storing" /\ UNCHANGED victim
    /\ UNCHANGED <<moveVars, schedVars, mainVars, workerVars, toStop, aborts>>

AbortStore ==
    /\ aborter = "storing"
    /\ SetStatus(victim, "Failed")
    /\ aborter' = "loading"
    /\ victim' = victim + 1
    /\ UNCHANGED <<submitted, freed, owner, trig, progress, started, plan, sent,
                   schedVars, mainVars, workerVars, toStop, aborts>>

----------------------------------------------------------------------------
Terminated == main = "dead" /\ UNCHANGED vars

RunStep == SeesAllDone \/ Collect

DestroyStep == ReleaseAll \/ Join

Client ==
    \/ \E m \in Motors : Add(m) \/ Move(m)
    \/ \E i \in Moves, t \in Triggers : SetTrigger(i, t)
    \/ Run \/ RunStep
    \/ Reset
    \/ Shutdown \/ DestroyStep

Poll(m) == PollFar(m) \/ PollNear(m) \/ PollError(m)

Worker(m) ==
    \/ Enter(m) \/ Leave(m) \/ Pickup(m) \/ ScanFindsNone(m) \/ BeginDispatch(m)
    \/ ReadStart(m) \/ ReadStartFails(m) \/ Send(m) \/ SendFails(m)
    \/ Poll(m) \/ PollTimeout(m) \/ Settle(m)
    \/ Rest(m)

Abort ==
    \/ AbortBegin
    \/ \E m \in Motors : EmergencyStop(m)
    \/ AbortLoad \/ AbortStore

Next == Client \/ Abort \/ Terminated \/ \E m \in Motors : Worker(m)

Spec == Init /\ [][Next]_vars

(***************************************************************************)
(* Fairness.  Every thread keeps being scheduled, and a started run() or    *)
(* destructor keeps taking its own steps.  The polling loop reads a clock,  *)
(* so its deadline comes however many reads succeed or fail before it.      *)
(***************************************************************************)
Fairness ==
    /\ WF_vars(RunStep)
    /\ WF_vars(DestroyStep)
    /\ WF_vars(AbortLoad) /\ WF_vars(AbortStore)
    /\ \A m \in Motors : /\ WF_vars(Worker(m))
                         /\ WF_vars(PollTimeout(m))
                         /\ WF_vars(EmergencyStop(m))

FairSpec == Spec /\ Fairness

----------------------------------------------------------------------------
(* Properties.                                                              *)

\* Every variable has its type: the type invariant.
TypeOK ==
    /\ submitted \in 0..MaxMoves /\ freed \in 0..submitted
    /\ owner \in [Moves -> Motors \cup {NoMotor}]
    /\ trig \in [Moves -> Triggers]
    /\ status \in [Moves -> Statuses]
    /\ progress \in [Moves -> 0..Full]
    /\ started \in [Moves -> BOOLEAN]
    /\ plan \in [Moves -> 0..MaxRuns]
    /\ sent \in [Moves -> Nat]
    /\ queue \in [Motors -> SUBSET Moves]
    /\ last \in [Motors -> {0} \cup Moves]
    /\ release \in BOOLEAN /\ shutdown \in BOOLEAN
    /\ main \in {"build", "poll", "collect", "shutdown", "join", "dead"}
    /\ result \in {"none", "OK", "TransportError"}
    /\ runs \in 0..MaxRuns
    /\ worker \in [Motors -> InProcess \cup
            {"absent", "idle", "scan", "done", "stopped"}]
    /\ cur \in [Motors -> {0} \cup Moves]
    /\ inWindow \in [Motors -> 0..Window]
    /\ errors \in [Motors -> 0..(MaxConsecErrors + 1)]
    /\ aborter \in {"idle", "stopping", "loading", "storing"}
    /\ toStop \in SUBSET Motors
    /\ victim \in 0..(MaxMoves + 1)
    /\ aborts \in 0..MaxAborts

\* FIFO per motor, whatever triggers, aborts and further plans the client
\* uses: when the MOVE of a move has gone out, every move submitted before it
\* for the same motor has ended.  So no two moves of a motor overlap.
FifoPerMotor ==
    \A i, j \in Pool :
        i < j /\ owner[i] = owner[j] /\ sent[j] > 0 => status[i] \in Terminal

\* A move is sent to its motor at most once: moves are relative, so a second
\* MOVE would double the rotation.
SentAtMostOnce == \A i \in Moves : sent[i] <= 1

\* What a trigger promises of the move it refers to, once the move that
\* carries it has been dispatched: that move failed, or it is completed, or
\* moving, or started, as the kind asks.
LeaderAllows(t) ==
    \/ t.ref = 0 \/ status[t.ref] = "Failed"
    \/ /\ t.kind = "AfterCompleted"
       /\ status[t.ref] = "Completed"
    \/ /\ t.kind = "AtProgress"
       /\ t.val > 0 => status[t.ref] \in {"Polling", "Completed"}
    \/ /\ t.kind \in {"AtTimeAfterStart", "AtTimeBeforeEnd"}
       /\ started[t.ref]

\* In the first plan (the workers are at their first gate while it is built)
\* and without abort(), no MOVE goes out before the move its trigger names
\* allows it, and it stays allowed.
TriggerRespected ==
    \A j \in Moves : sent[j] > 0 /\ plan[j] = 1 /\ aborts = 0 => LeaderAllows(trig[j])

\* A plan that was built and never run moves nothing, not even when the
\* destructor opens the gates to join the workers (first plan; a later plan
\* is the subject of NothingSentBeforeRun).
UnrunPlanStaysPut == \A j \in Moves : sent[j] > 0 /\ plan[j] = 1 => runs >= 1

\* Once run() has seen the plan end, and without abort(), every move of the
\* plans run so far has ended and no worker processes one of them.
RunLeavesNothingBehind ==
    main # "poll" /\ aborts = 0 =>
        /\ \A i \in Pool : plan[i] <= runs => status[i] \in Terminal
        /\ \A m \in Motors : Processing(m) /\ cur[m] \in Pool => plan[cur[m]] > runs

\* run() returned OK: every move of the pool that was run is Completed.
OkMeansCompleted ==
    main = "build" /\ result = "OK" /\ aborts = 0 =>
        \A i \in Pool : plan[i] <= runs => status[i] = "Completed"

\* reset() between plans destroys no move that a worker processes: of the first
\* plan, without abort(), a worker may only have the rest of one left, whose
\* length it then reads from a MoveState that is gone (scheduler.hpp:522).
ResetSparesProcessed ==
    \A m \in Motors : Processing(m) /\ plan[cur[m]] = 1 /\ aborts = 0 => cur[m] > freed

\* Without abort(), a move that has ended keeps its outcome: handles stay good
\* for inspection, and a dependent sees what run() will report.
OutcomeIsFinal ==
    [][\A i \in Moves :
          aborts = 0 /\ status[i] \in Terminal => status'[i] = status[i]]_vars

\* run() returns, whatever fails, when triggers name earlier moves only.
RunReturns == main \in {"poll", "collect"} ~> main = "build"

\* The destructor joins its workers and returns.
DestructorReturns == main = "shutdown" ~> main = "dead"

----------------------------------------------------------------------------
(* What the repository says of the scheduler, and the code does not do.     *)

\* scheduler.hpp:440-441: abort() marks the moves in flight as failed.
FailedIsFinal ==
    [][\A i \in Moves : status[i] = "Failed" => status'[i] = "Failed"]_vars

\* scheduler.hpp:10-15: submit, then run; a plan moves nothing before its run().
NothingSentBeforeRun == \A j \in Moves : sent[j] > 0 => plan[j] <= runs
=============================================================================
