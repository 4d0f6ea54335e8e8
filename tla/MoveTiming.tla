----------------------------- MODULE MoveTiming -----------------------------
(***************************************************************************)
(* What Scheduler (src/include/mks_servo/scheduler.hpp) computes with       *)
(* angles, counts and the clock: MotorProfile and its measurement by        *)
(* probe_motor(), the expected duration of a move, the two triggers on      *)
(* time, and process_move() as a relative move from a reading of the        *)
(* encoder.  Module Scheduler has the threads that execute it; here a plan  *)
(* is built once, and a worker takes the moves of its motor in order.       *)
(*                                                                         *)
(* Time is in ticks, an angle in quarter turns.  The firmware (external)    *)
(* moves by the requested counts from its own goal, wherever the encoder is.*)
(***************************************************************************)
EXTENDS Integers, Sequences, FiniteSets, TLC

CONSTANTS
    Motors,
    Angles,     \* quarter turns of a move, either way
    Quarter,    \* encoder counts of a quarter turn: 4096
    Origins,    \* origin_offset_counts of the motors
    Tolerance,  \* tol_counts
    Window,     \* consecutive_in_window
    Default,    \* ticks of a quarter turn without a profile: 45 ms
    Times,      \* values of t_90deg_ms, measured or given; 0 is unknown
    Durations,  \* ticks the client gives to with_expected_duration_ms()
    Delays,     \* ticks of the triggers on time
    Uptime,     \* now_us() when the plan is built
    Word,       \* 2^64
    Deadline,   \* ticks until process_move() gives up: 5 s
    Samples,    \* samples of probe_motor()
    MaxMoves,   \* bound: moves of the plan
    MaxTunings, \* bound: calls that change a profile
    MaxClock,   \* bound: now_us()
    MaxFaults   \* bound: transactions that fail

ASSUME TimingAssumption ==
    /\ Motors # {} /\ Angles \subseteq Int /\ Origins \subseteq Int /\ Quarter \in Nat \ {0}
    /\ Tolerance \in Nat /\ Window \in Nat \ {0} /\ Samples \in Nat
    /\ Default \in Nat \ {0} /\ Times \subseteq Nat /\ Durations \subseteq Nat
    /\ Delays \subseteq Nat /\ Uptime \in Nat \ {0} /\ Deadline \in Nat \ {0}
ASSUME TimingBounds ==
    MaxMoves \in Nat /\ MaxTunings \in Nat /\ MaxClock \in Nat /\ MaxFaults \in Nat
\* No duration, delay or deadline reaches beyond 2^64 microseconds of the clock.
ASSUME ClockAssumption ==
    /\ Word \in Nat /\ Uptime <= MaxClock
    /\ \A d \in Delays \cup Durations \cup {Deadline} : MaxClock + d < Word
    /\ \A a \in Angles, t \in Times \cup {Default} :
         MaxClock + (IF a < 0 THEN -a ELSE a) * t < Word

VARIABLES
    t90,       \* per_motor_profile_[m].t_90deg_ms
    pool,      \* the moves, in the order of their submission
    released,  \* release_
    now,       \* now_us()
    origin,    \* origin_offset_counts of each motor
    enc, goal, \* encoder of each motor, and where its firmware drives it
    probe,     \* probe_motor() under way
    tunings, faults

settings == <<t90, tunings>>
firmware == <<enc, goal>>
vars == <<t90, pool, released, now, origin, enc, goal, probe, tunings, faults>>

Never == -1
NoProbe == [motor |-> CHOOSE m \in Motors : TRUE, i |-> Samples, seen |-> {}, turned |-> 0, failed |-> 0]
Terminal == {"Completed", "Failed"}
Abs(n) == IF n < 0 THEN -n ELSE n

Init ==
    /\ t90 = [m \in Motors |-> 0] /\ pool = <<>> /\ released = FALSE /\ now = Uptime
    /\ origin \in [Motors -> Origins]
    /\ enc = [m \in Motors |-> 0] /\ goal = enc
    /\ probe = NoProbe /\ tunings = 0 /\ faults = 0

----------------------------------------------------------------------------
(* Profiles.                                                                *)

Tuning == ~released /\ probe.i = Samples /\ tunings < MaxTunings /\ tunings' = tunings + 1

SetMotorProfile(m, t) ==
    /\ Tuning /\ t90' = [t90 EXCEPT ![m] = t]
    /\ UNCHANGED <<pool, released, now, origin, firmware, probe, faults>>

ProbeMotor(m) ==
    /\ Tuning /\ probe' = [NoProbe EXCEPT !.motor = m, !.i = 0]
    /\ UNCHANGED <<t90, pool, released, now, origin, firmware, faults>>

\* Mutant: every sample turns the same way.
ProbeDelta_one_way(i) == Quarter
\* The direction of a sample alternates, whatever became of the ones before it.
ProbeDelta(i) == IF i % 2 = 0 THEN Quarter ELSE -Quarter

\* One sample: its MOVE is executed or not, and its arrival is seen or not.
Sample(executed, seen) ==
    LET delta == IF executed THEN ProbeDelta(probe.i) ELSE 0 IN
    /\ probe.i < Samples
    /\ (executed /\ seen # {}) \/ faults < MaxFaults
    /\ faults' = faults + IF executed /\ seen # {} THEN 0 ELSE 1
    /\ goal' = [goal EXCEPT ![probe.motor] = @ + delta]
    /\ enc' = goal'
    /\ probe' = [probe EXCEPT !.i = @ + 1, !.seen = @ \cup seen, !.turned = @ + delta,
                              !.failed = @ + IF executed THEN 0 ELSE 1]
    \* the mean of the samples that arrived, and no change without one
    /\ IF probe'.i = Samples /\ probe'.seen # {}
         THEN \E mean \in Times :
                /\ \E a, b \in probe'.seen : a <= mean /\ mean <= b
                /\ t90' = [t90 EXCEPT ![probe.motor] = mean]
         ELSE t90' = t90
    /\ UNCHANGED <<pool, released, now, origin, tunings>>

----------------------------------------------------------------------------
(* The plan.                                                                *)

Scaled(angle, t) == Abs(angle) * t

\* The previous move of the motor, or 0.
LastOf(m) == LET I == {i \in DOMAIN pool : pool[i].motor = m} IN
             IF I = {} THEN 0 ELSE CHOOSE i \in I : \A j \in I : j <= i

\* move().  "meant" is history: what the client may expect of the duration.
Move(m, angle) ==
    /\ ~released /\ probe.i = Samples /\ Len(pool) < MaxMoves
    /\ pool' = Append(pool,
         [motor |-> m, angle |-> angle, expected |-> Scaled(angle, t90[m]),
          kind |-> IF LastOf(m) = 0 THEN "None" ELSE "AfterCompleted", ref |-> LastOf(m), val |-> 0,
          status |-> "Pending", e0 |-> 0, target |-> 0, near |-> 0,
          start |-> 0, end |-> Never, firm |-> 0,
          meant |-> Scaled(angle, IF t90[m] > 0 THEN t90[m] ELSE Default)])
    /\ UNCHANGED <<settings, released, now, origin, firmware, probe, faults>>

\* with_expected_duration_ms(), set_expected_duration()
WithExpectedDuration(i, t) ==
    /\ ~released /\ probe.i = Samples
    /\ tunings < MaxTunings /\ tunings' = tunings + 1
    /\ pool' = [pool EXCEPT ![i].expected = t,
                  ![i].meant = IF t > 0 THEN t ELSE Scaled(pool[i].angle, Default)]
    /\ UNCHANGED <<t90, released, now, origin, firmware, probe, faults>>

\* at_time_after_start(), at_time_before_end(), on a move submitted earlier
AtTime(i, kind, ref, ticks) ==
    /\ ~released /\ probe.i = Samples
    /\ pool[i].kind \in {"None", "AfterCompleted"} /\ ref < i
    /\ pool' = [pool EXCEPT ![i].kind = kind, ![i].ref = ref, ![i].val = ticks]
    /\ UNCHANGED <<settings, released, now, origin, firmware, probe, faults>>

\* run(): a move without a duration gets the default.
Filled(p) == IF p.expected <= 0 THEN Scaled(p.angle, Default) ELSE p.expected

Run ==
    /\ ~released /\ probe.i = Samples /\ pool # <<>>
    /\ released' = TRUE /\ probe' = NoProbe
    /\ pool' = [i \in DOMAIN pool |-> [pool[i] EXCEPT !.expected = Filled(pool[i])]]
    /\ UNCHANGED <<settings, now, origin, firmware, faults>>

----------------------------------------------------------------------------
(* wait_for_trigger().                                                      *)

\* static_cast<std::uint64_t> of a double: out of range it is undefined, and
\* wraps (x86) or saturates (ARM).
U64(n) == IF n >= 0 THEN {n} ELSE {Word + n, 0}

\* The values the time to wait for may have.
Due(p) ==
    LET leader == pool[p.ref]
        offset == IF p.kind = "AtTimeAfterStart" THEN p.val ELSE leader.expected - p.val
    IN  {(leader.start + u) % Word : u \in U64(offset)}

\* Mutant: the leader need not have started.
Waited_unstarted(p) ==
    p.kind # "None" =>
        LET leader == pool[p.ref] IN
        \/ leader.status \in Terminal
        \/ p.kind # "AfterCompleted" /\ \E due \in Due(p) : now >= due
\* The trigger of a move is resolved.  A leader that failed releases all; one
\* that completed, all but a move that counts from its start.
Waited(p) ==
    p.kind # "None" =>
        LET leader == pool[p.ref] IN
        \/ leader.status = "Failed"
        \/ leader.status = "Completed" /\ p.kind # "AtTimeAfterStart"
        \/ p.kind # "AfterCompleted" /\ leader.start # 0 /\ \E due \in Due(p) : now >= due

----------------------------------------------------------------------------
(* process_move().                                                          *)

Busy == {"Dispatching", "Polling"}

\* worker_loop() and the trigger: the first pending move of a motor whose worker
\* is free goes on when its trigger is resolved.
Ready(i) ==
    /\ released /\ pool[i].status = "Pending" /\ Waited(pool[i])
    /\ \A j \in DOMAIN pool : pool[j].motor = pool[i].motor =>
         pool[j].status \notin Busy /\ (j < i => pool[j].status # "Pending")

\* angle_to_counts()
AngleToCounts(m, angle) == angle * Quarter - origin[m]
Delta(p) == AngleToCounts(p.motor, p.angle)

\* The encoder is read, and what it should read at the end computed.
Begin(i) ==
    /\ Ready(i)
    /\ LET e == enc[pool[i].motor] IN
       pool' = [pool EXCEPT ![i].status = "Dispatching", ![i].e0 = e,
                  ![i].target = e + Delta(pool[i])]
    /\ UNCHANGED <<settings, released, now, origin, firmware, probe, faults>>

\* MOVE_REL.  "firm" is history: where the firmware drives the motor.
Dispatch(i) ==
    LET m == pool[i].motor IN
    /\ pool[i].status = "Dispatching"
    /\ goal' = [goal EXCEPT ![m] = @ + Delta(pool[i])]
    /\ pool' = [pool EXCEPT ![i].status = "Polling", ![i].start = now, ![i].firm = goal'[m]]
    /\ UNCHANGED <<settings, released, now, origin, enc, probe, faults>>

Failed(i, start) == pool' = [pool EXCEPT ![i].status = "Failed", ![i].start = start, ![i].end = now]

\* The read before the move fails, or too many reads of the polling loop.
ReadFails(i) ==
    /\ Ready(i) \/ pool[i].status = "Polling"
    /\ faults < MaxFaults /\ faults' = faults + 1
    /\ Failed(i, pool[i].start)
    /\ UNCHANGED <<settings, released, now, origin, firmware, probe>>

\* The MOVE is refused or lost, or executed and only its answer is lost.
DispatchFails(i) ==
    /\ pool[i].status = "Dispatching"
    /\ faults < MaxFaults /\ faults' = faults + 1
    /\ Failed(i, now)
    /\ \E d \in {0, Delta(pool[i])} : goal' = [goal EXCEPT ![pool[i].motor] = @ + d]
    /\ UNCHANGED <<settings, released, now, origin, enc, probe>>

\* Mutant: a motor that has yet to come is taken for one that has arrived.
Near_signed(p) == enc[p.motor] - p.target <= Tolerance
Near(p) == Abs(enc[p.motor] - p.target) <= Tolerance

Poll(i) ==
    /\ pool[i].status = "Polling"
    /\ pool' = IF ~Near(pool[i]) THEN [pool EXCEPT ![i].near = 0]
               ELSE IF pool[i].near + 1 < Window THEN [pool EXCEPT ![i].near = @ + 1]
               ELSE [pool EXCEPT ![i].status = "Completed", ![i].end = now]
    /\ UNCHANGED <<settings, released, now, origin, firmware, probe, faults>>

TimesOut(i) ==
    /\ pool[i].status = "Polling" /\ now >= pool[i].start + Deadline
    /\ Failed(i, pool[i].start)
    /\ UNCHANGED <<settings, released, now, origin, firmware, probe, faults>>

\* The motor turns towards the goal of its firmware.
Turn(m) ==
    /\ enc[m] # goal[m]
    /\ \E e \in (IF enc[m] < goal[m] THEN enc[m] + 1 .. goal[m] ELSE goal[m] .. enc[m] - 1) :
         enc' = [enc EXCEPT ![m] = e]
    /\ UNCHANGED <<settings, pool, released, now, origin, goal, probe, faults>>

Tick ==
    /\ released /\ now < MaxClock /\ now' = now + 1
    /\ UNCHANGED <<settings, pool, released, origin, firmware, probe, faults>>

Next ==
    \/ \E m \in Motors :
         \/ Turn(m) \/ ProbeMotor(m)
         \/ \E t \in Times : SetMotorProfile(m, t)
         \/ \E a \in Angles : Move(m, a) \/ Move(m, -a)
    \/ \E executed \in BOOLEAN : Sample(executed, {})
    \/ \E t \in Times \ {0} : Sample(TRUE, {t})
    \/ \E i \in DOMAIN pool :
         \/ \E t \in Durations : WithExpectedDuration(i, t)
         \/ \E j \in DOMAIN pool, t \in Delays, kind \in {"AtTimeAfterStart", "AtTimeBeforeEnd"} :
              AtTime(i, kind, j, t)
         \/ Begin(i) \/ ReadFails(i) \/ Dispatch(i) \/ DispatchFails(i)
         \/ Poll(i) \/ TimesOut(i)
    \/ Run \/ Tick

Spec == Init /\ [][Next]_vars

Symmetry == Permutations(Motors)

----------------------------------------------------------------------------
(* Properties.                                                              *)

Earlier(i) == {j \in DOMAIN pool : j < i /\ pool[j].motor = pool[i].motor}

\* A move with a trigger on time is not started before its offset from the
\* start of the leader, nor before the offset from the end the client may
\* expect of it: the duration it was given, that of the profile at the time it
\* was submitted, or the default.  It is earlier only if the leader has failed,
\* or completed before its time.
NotBeforeOffset ==
    \A i \in DOMAIN pool :
        LET p == pool[i]
            leader == pool[p.ref]
            offset == IF p.kind = "AtTimeAfterStart" THEN p.val ELSE leader.meant - p.val
        IN  p.kind \in {"AtTimeAfterStart", "AtTimeBeforeEnd"} /\ p.start # 0 =>
              \/ leader.start # 0 /\ p.start >= leader.start + offset
              \/ leader.status = "Failed" /\ leader.end <= p.start
              \/ p.kind = "AtTimeBeforeEnd" /\ leader.status = "Completed" /\ leader.end <= p.start

\* probe_motor() keeps the shaft within a quarter turn of where it was, and a
\* quarter turn more for each of its MOVEs that was not executed: the direction
\* of a sample does not depend on those before it.
ProbeStaysNear == Abs(probe.turned) <= Quarter * (1 + probe.failed)

\* However a motor lags behind at the moment a move completes, and however the
\* next move starts from there, no rotation is lost without a failure: where the
\* firmware drives the motor and where the scheduler expects it differ by no
\* more than the tolerance of each earlier move.
NoRotationLost ==
    \A i \in DOMAIN pool :
        pool[i].status = "Completed" /\ (\A j \in Earlier(i) : pool[j].status = "Completed") =>
          Abs(pool[i].firm - pool[i].target) <= Tolerance * Cardinality(Earlier(i))

\* A move that completes turns its motor by the angle that was asked for.
\* process_move() takes the counts of the move from angle_to_counts(), which
\* subtracts the origin.
RotatesByAngle ==
    \A i \in DOMAIN pool :
        pool[i].status = "Completed" /\ (\A j \in Earlier(i) : pool[j].status = "Completed") =>
          Abs(pool[i].firm - (pool[i].e0 + pool[i].angle * Quarter)) <= Tolerance * Cardinality(Earlier(i))
=============================================================================
