-------------------------- MODULE MoveTimingProofs --------------------------
(***************************************************************************)
(* What holds of module MoveTiming for all values of its constants.         *)
(***************************************************************************)
EXTENDS MoveTiming, SequenceTheorems, FiniteSetTheorems, WellFoundedInduction, TLAPS

\* Away(p) is how far a probe is from where its samples that were executed
\* alternately would have left it: nothing after an even number of them, a
\* quarter turn after an odd one.
Away(p) == p.turned - IF p.i % 2 = 0 THEN 0 ELSE Quarter

ProbeType ==
    probe \in [motor : Motors, i : Nat, seen : SUBSET Times, turned : Int, failed : Nat]

\* Each sample that was not executed moves it by no more than a quarter turn.
ProbeInv ==
    /\ ProbeType
    /\ \/ probe.i = Samples /\ probe.turned = 0
       \/ -(Quarter * probe.failed) <= Away(probe) /\ Away(probe) <= Quarter * probe.failed

LEMMA ProbeInit == Init => ProbeInv
PROOF
<1> SUFFICES ASSUME Init PROVE ProbeInv
    OBVIOUS
<1>1. NoProbe \in [motor : Motors, i : Nat, seen : SUBSET Times, turned : Int, failed : Nat]
      BY TimingAssumption DEF NoProbe
<1> QED BY <1>1 DEF Init, NoProbe, ProbeInv, ProbeType

LEMMA ProbeMotorKeeps ==
    ASSUME ProbeInv, NEW m \in Motors, ProbeMotor(m)
    PROVE  ProbeInv'
PROOF
<1>1. probe' = [motor |-> m, i |-> 0, seen |-> {}, turned |-> 0, failed |-> 0]
      BY DEF ProbeMotor, NoProbe
<1>2. 0 % 2 = 0 /\ Quarter * 0 = 0
      BY TimingAssumption
<1> QED BY <1>1, <1>2 DEF ProbeInv, ProbeType, Away

LEMMA SampleKeeps ==
    ASSUME ProbeInv, NEW executed \in BOOLEAN, NEW seen \in SUBSET Times, Sample(executed, seen)
    PROVE  ProbeInv'
PROOF
<1> DEFINE delta == IF executed THEN ProbeDelta(probe.i) ELSE 0
           lost == IF executed THEN 0 ELSE 1
           k == Quarter * probe.failed
<1>1. Quarter \in Nat /\ Samples \in Nat /\ ProbeType
      BY TimingAssumption DEF ProbeInv
<1>2. probe.i \in Nat /\ probe.turned \in Int /\ probe.failed \in Nat /\ probe.i < Samples
      BY <1>1 DEF ProbeType, Sample
<1>3. k \in Int /\ Quarter * (probe.failed + 1) = k + Quarter /\ Quarter * (probe.failed + 0) = k
      BY <1>1, <1>2
<1>4. probe' = [probe EXCEPT !.i = @ + 1, !.seen = @ \cup seen, !.turned = @ + delta,
                             !.failed = @ + lost]
      BY DEF Sample
<1>5. delta \in Int /\ lost \in Nat
      BY <1>1, <1>2 DEF ProbeDelta
<1>6. ProbeType'
  <2>1. /\ probe.i + 1 \in Nat /\ probe.turned + delta \in Int /\ probe.failed + lost \in Nat
        /\ probe.seen \cup seen \in SUBSET Times
        BY <1>1, <1>2, <1>5 DEF ProbeType
  <2> HIDE DEF delta, lost
  <2> QED BY <1>1, <1>4, <2>1 DEF ProbeType
<1>7. probe'.i = probe.i + 1 /\ probe'.turned = probe.turned + delta
      /\ probe'.failed = probe.failed + lost
      BY <1>1, <1>4 DEF ProbeType
<1>8. -k <= Away(probe) /\ Away(probe) <= k
      BY <1>2 DEF ProbeInv
<1>9. -(Quarter * probe'.failed) <= Away(probe') /\ Away(probe') <= Quarter * probe'.failed
  <2>1. CASE executed
    <3>1. Quarter * probe'.failed = k
          BY <1>3, <1>7, <2>1
    <3>2. Away(probe') = Away(probe)
          BY <1>1, <1>2, <1>7, <2>1 DEF Away, ProbeDelta
    <3> QED BY <1>8, <3>1, <3>2
  <2>2. CASE ~executed
    <3>1. Quarter * probe'.failed = k + Quarter
          BY <1>3, <1>7, <2>2
    <3>2. Away(probe') = Away(probe) + Quarter \/ Away(probe') = Away(probe) - Quarter
          BY <1>1, <1>2, <1>7, <2>2 DEF Away
    <3>3. Away(probe) \in Int
          BY <1>1, <1>2 DEF Away
    <3> QED BY <1>1, <1>3, <1>8, <3>1, <3>2, <3>3
  <2> QED BY <2>1, <2>2
<1> QED BY <1>6, <1>9 DEF ProbeInv

LEMMA RunKeeps ==
    ASSUME ProbeInv, Run
    PROVE  ProbeInv'
PROOF
<1>1. probe' = NoProbe
      BY DEF Run
<1>2. NoProbe.motor \in Motors
      BY DEF ProbeInv, ProbeType, NoProbe
<1> QED BY <1>1, <1>2, TimingAssumption DEF NoProbe, ProbeInv, ProbeType

LEMMA ProbeNext == ProbeInv /\ [Next]_vars => ProbeInv'
PROOF
<1> SUFFICES ASSUME ProbeInv, [Next]_vars PROVE ProbeInv'
    OBVIOUS
<1>1. ASSUME NEW m \in Motors, ProbeMotor(m) PROVE ProbeInv'
      BY <1>1, ProbeMotorKeeps
<1>2. ASSUME NEW executed \in BOOLEAN, Sample(executed, {}) PROVE ProbeInv'
      BY <1>2, SampleKeeps
<1>3. ASSUME NEW t \in Times \ {0}, Sample(TRUE, {t}) PROVE ProbeInv'
      BY <1>3, SampleKeeps
<1>4. CASE Run
      BY <1>4, RunKeeps
<1>5. ASSUME probe' = probe PROVE ProbeInv'
      BY <1>5 DEF ProbeInv, ProbeType, Away
<1>6. ASSUME NEW m \in Motors,
             \/ Turn(m)
             \/ \E t \in Times : SetMotorProfile(m, t)
             \/ \E a \in Angles : Move(m, a) \/ Move(m, -a)
      PROVE  ProbeInv'
      BY <1>5, <1>6 DEF Turn, SetMotorProfile, Move
<1>7. ASSUME NEW i \in DOMAIN pool,
             \/ \E t \in Durations : WithExpectedDuration(i, t)
             \/ \E j \in DOMAIN pool, t \in Delays, kind \in {"AtTimeAfterStart", "AtTimeBeforeEnd"} :
                   AtTime(i, kind, j, t)
             \/ Begin(i) \/ ReadFails(i) \/ Dispatch(i) \/ DispatchFails(i)
             \/ Poll(i) \/ TimesOut(i)
      PROVE  ProbeInv'
      BY <1>5, <1>7 DEF WithExpectedDuration, AtTime, Begin, ReadFails, Dispatch, DispatchFails, Poll, TimesOut
<1>8. CASE Tick
      BY <1>5, <1>8 DEF Tick
<1>9. CASE UNCHANGED vars
      BY <1>5, <1>9 DEF vars
<1> QED BY <1>1, <1>2, <1>3, <1>4, <1>6, <1>7, <1>8, <1>9 DEF Next

LEMMA ProbeImplies == ProbeInv => ProbeStaysNear
PROOF
<1> SUFFICES ASSUME ProbeInv PROVE ProbeStaysNear
    OBVIOUS
<1> DEFINE k == Quarter * probe.failed
<1>1. Quarter \in Nat /\ probe.failed \in Nat /\ probe.turned \in Int
      BY TimingAssumption DEF ProbeInv, ProbeType
<1>2. k \in Nat /\ Quarter * (1 + probe.failed) = Quarter + k
      BY <1>1
<1>3. -(Quarter + k) <= probe.turned /\ probe.turned <= Quarter + k
  <2>1. CASE probe.turned = 0
        BY <1>1, <1>2, <2>1
  <2>2. CASE -k <= Away(probe) /\ Away(probe) <= k
        BY <1>1, <1>2, <2>2 DEF Away
  <2> QED BY <2>1, <2>2 DEF ProbeInv
<1> QED BY <1>1, <1>2, <1>3 DEF ProbeStaysNear, Abs

\* probe_motor() (scheduler.hpp:290-329) leaves the shaft within a quarter turn
\* of where it was, and a quarter turn more for each of its MOVEs that was not
\* executed, for any number of samples, any resolution, and whichever of the
\* samples fail.
THEOREM ProbingStaysNear == Spec => []ProbeStaysNear
PROOF BY ProbeInit, ProbeNext, ProbeImplies, PTL DEF Spec

----------------------------------------------------------------------------
(* The moves of a plan.                                                     *)

OnTime == {"AtTimeAfterStart", "AtTimeBeforeEnd"}

MoveType ==
    [motor : Motors, angle : Int, expected : Nat, kind : {"None", "AfterCompleted"} \cup OnTime,
     ref : Nat, val : Nat, status : {"Pending"} \cup Busy \cup Terminal,
     e0 : Int, target : Int, near : Nat, start : Nat, end : Int, firm : Int, meant : Nat]

PoolType ==
    /\ t90 \in [Motors -> Times \cup {0}] /\ pool \in Seq(MoveType) /\ released \in BOOLEAN
    /\ now \in Nat \ {0} /\ now <= MaxClock
    /\ origin \in [Motors -> Int] /\ enc \in [Motors -> Int] /\ goal \in [Motors -> Int]

\* What a move of the plan is like, whoever works on it.
Asked(angle) == \E a \in Angles : angle = a \/ angle = -a
Sane(p) ==
    /\ Asked(p.angle)
    /\ p.expected + MaxClock < Word /\ p.val + MaxClock < Word
    /\ IF released THEN p.expected = p.meant ELSE Filled(p) = p.meant /\ p.status = "Pending"
    /\ p.start <= now /\ p.end <= now
    /\ p.status \in {"Pending", "Dispatching"} => p.start = 0

\* Moves refer to moves before them; the moves of a motor are taken in order.
OrderInv ==
    \A i \in DOMAIN pool :
       /\ Sane(pool[i])
       /\ pool[i].kind # "None" => pool[i].ref \in 1..(i - 1)
       /\ pool[i].status # "Pending" => \A j \in Earlier(i) : pool[j].status \in Terminal

----------------------------------------------------------------------------
(* Triggers on time.                                                        *)

Offset(p) == IF p.kind = "AtTimeAfterStart" THEN p.val ELSE pool[p.ref].meant - p.val

\* At time t the trigger of p is resolved.
ResolvedAt(p, t) ==
    LET leader == pool[p.ref] IN
    \/ leader.start # 0 /\ t >= leader.start + Offset(p)
    \/ leader.status = "Failed" /\ leader.end <= t
    \/ p.kind = "AtTimeBeforeEnd" /\ leader.status = "Completed" /\ leader.end <= t

\* It is when the move is started, and from the reading of the encoder on.
TriggerInv ==
    \A i \in DOMAIN pool :
       pool[i].kind \in OnTime =>
          /\ pool[i].start # 0 => ResolvedAt(pool[i], pool[i].start)
          /\ pool[i].status = "Dispatching" => ResolvedAt(pool[i], now)

----------------------------------------------------------------------------
(* Encoders that lag behind.                                                *)

DoneOf(m) == {j \in DOMAIN pool : pool[j].motor = m /\ pool[j].status = "Completed"}

\* A motor that no move has failed, and none is under way for, lags behind its goal
\* by no more than the tolerance of each move that was completed.
LagInv ==
    \A m \in Motors :
       (\A j \in DOMAIN pool : pool[j].motor = m => pool[j].status \in {"Pending", "Completed"})
          => Abs(goal[m] - enc[m]) <= Tolerance * Cardinality(DoneOf(m))

\* And so does the goal of a move, from the reading of the encoder to its end.
ChaseInv ==
    \A i \in DOMAIN pool :
       LET p == pool[i]
           lag == Tolerance * Cardinality(Earlier(i))
       IN (\A j \in Earlier(i) : pool[j].status = "Completed") =>
             /\ p.status = "Dispatching" =>
                  p.target = p.e0 + Delta(p) /\ Abs(goal[p.motor] - p.e0) <= lag
             /\ p.status = "Polling" => p.firm = goal[p.motor]
             /\ p.status \in {"Polling", "Completed"} => Abs(p.firm - p.target) <= lag
----------------------------------------------------------------------------
(* How the steps of a plan change it.                                       *)

\* What the pool holds once one of its moves was changed.
LEMMA Updated ==
    ASSUME PoolType, NEW i \in DOMAIN pool, NEW q \in MoveType, pool' = [pool EXCEPT ![i] = q]
    PROVE  /\ pool' \in Seq(MoveType) /\ DOMAIN pool' = DOMAIN pool /\ Len(pool') = Len(pool)
           /\ pool'[i] = q /\ \A j \in DOMAIN pool : j # i => pool'[j] = pool[j]
PROOF
<1>1. pool \in Seq(MoveType) /\ i \in 1..Len(pool)
      BY LenProperties DEF PoolType
<1>2. pool' \in Seq(MoveType) /\ Len(pool') = Len(pool)
      BY <1>1, ExceptSeq
<1> QED BY <1>1, <1>2

LEMMA MoveOf == ASSUME PoolType, NEW i \in DOMAIN pool PROVE pool[i] \in MoveType
PROOF BY ElementOfSeq, LenProperties DEF PoolType

LEMMA DeltaType == ASSUME PoolType, NEW p \in MoveType PROVE Delta(p) \in Int
PROOF
<1>1. p.angle \in Int /\ p.motor \in Motors /\ Quarter \in Int
      BY TimingAssumption DEF MoveType
<1>2. origin[p.motor] \in Int
      BY <1>1 DEF PoolType
<1>3. p.angle * Quarter \in Int
      BY <1>1
<1> QED BY <1>2, <1>3 DEF Delta, AngleToCounts

\* A move is only worked on once the plan runs, and keeps what the client asked for.
Kept(i) ==
    /\ released /\ UNCHANGED <<released, now, origin, t90, enc>>
    /\ pool' \in Seq(MoveType) /\ DOMAIN pool' = DOMAIN pool
    /\ \A j \in DOMAIN pool : j # i => pool'[j] = pool[j]
    /\ pool'[i].motor = pool[i].motor /\ pool'[i].angle = pool[i].angle
    /\ pool'[i].expected = pool[i].expected /\ pool'[i].meant = pool[i].meant
    /\ pool'[i].kind = pool[i].kind /\ pool'[i].ref = pool[i].ref /\ pool'[i].val = pool[i].val

Begins(i) ==
    /\ Ready(i) /\ UNCHANGED goal /\ pool'[i].status = "Dispatching"
    /\ pool'[i].e0 = enc[pool[i].motor] /\ pool'[i].target = enc[pool[i].motor] + Delta(pool[i])
    /\ pool'[i].start = pool[i].start /\ pool'[i].end = pool[i].end

LEMMA BeginKind ==
    ASSUME PoolType, NEW i \in DOMAIN pool, Begin(i)
    PROVE  Kept(i) /\ Begins(i)
PROOF
<1> DEFINE p == pool[i]
           e == enc[pool[i].motor]
           q == [pool[i] EXCEPT !.status = "Dispatching", !.e0 = e, !.target = e + Delta(pool[i])]
<1>1. p \in MoveType
      BY MoveOf
<1>2. e \in Int /\ e + Delta(p) \in Int
  <2>1. e \in Int
        BY <1>1 DEF PoolType, MoveType
  <2> QED BY <1>1, <2>1, DeltaType
<1>3. q \in MoveType
      BY <1>1, <1>2 DEF MoveType, Busy
<1>4. pool' = [pool EXCEPT ![i] = q]
      BY <1>1 DEF Begin, PoolType, MoveType
<1>5. /\ pool' \in Seq(MoveType) /\ DOMAIN pool' = DOMAIN pool
      /\ pool'[i] = q /\ \A j \in DOMAIN pool : j # i => pool'[j] = pool[j]
      BY <1>3, <1>4, Updated
<1> QED BY <1>1, <1>5 DEF Begin, Kept, Begins, Ready, firmware, settings, MoveType
Dispatches(i) ==
    LET m == pool[i].motor IN
    /\ pool[i].status = "Dispatching" /\ pool'[i].status = "Polling"
    /\ goal' = [goal EXCEPT ![m] = @ + Delta(pool[i])]
    /\ pool'[i].e0 = pool[i].e0 /\ pool'[i].target = pool[i].target
    /\ pool'[i].start = now /\ pool'[i].end = pool[i].end /\ pool'[i].firm = goal'[m]

LEMMA DispatchKind ==
    ASSUME PoolType, OrderInv, NEW i \in DOMAIN pool, Dispatch(i)
    PROVE  Kept(i) /\ Dispatches(i) /\ goal' \in [Motors -> Int]
PROOF
<1> DEFINE p == pool[i]
           m == pool[i].motor
           q == [pool[i] EXCEPT !.status = "Polling", !.start = now, !.firm = goal'[m]]
<1>1. p \in MoveType
      BY MoveOf
<1>2. goal' \in [Motors -> Int] /\ goal'[m] \in Int
  <2>1. Delta(p) \in Int /\ m \in Motors /\ goal[m] \in Int
        BY <1>1, DeltaType DEF PoolType, MoveType
  <2> QED BY <2>1 DEF Dispatch, PoolType
<1>3. q \in MoveType
      BY <1>1, <1>2 DEF MoveType, Busy, PoolType
<1>4. pool' = [pool EXCEPT ![i] = q]
      BY <1>1 DEF Dispatch, PoolType, MoveType
<1>5. /\ pool' \in Seq(MoveType) /\ DOMAIN pool' = DOMAIN pool
      /\ pool'[i] = q /\ \A j \in DOMAIN pool : j # i => pool'[j] = pool[j]
      BY <1>3, <1>4, Updated
<1>6. released
      BY DEF OrderInv, Sane, Dispatch
<1> QED BY <1>1, <1>2, <1>5, <1>6 DEF Dispatch, Kept, Dispatches, settings, MoveType

\* The move fails: its start is the time of the step or what it was.
Fails(i) ==
    /\ pool'[i].status = "Failed" /\ pool'[i].end = now
    /\ \/ (Ready(i) \/ pool[i].status = "Polling") /\ pool'[i].start = pool[i].start /\ UNCHANGED goal
       \/ /\ pool[i].status = "Dispatching" /\ pool'[i].start = now
          /\ \A k \in Motors : k # pool[i].motor => goal'[k] = goal[k]

LEMMA FailedKind ==
    ASSUME PoolType, NEW i \in DOMAIN pool, NEW start \in Nat, Failed(i, start), released,
           UNCHANGED <<released, now, origin, t90, enc>>
    PROVE  Kept(i) /\ pool'[i].status = "Failed" /\ pool'[i].end = now /\ pool'[i].start = start
PROOF
<1> DEFINE q == [pool[i] EXCEPT !.status = "Failed", !.start = start, !.end = now]
<1>1. pool[i] \in MoveType /\ now \in Int
      BY MoveOf DEF PoolType
<1>2. q \in MoveType
      BY <1>1 DEF MoveType, Terminal
<1>3. pool' = [pool EXCEPT ![i] = q]
      BY <1>1 DEF Failed, PoolType, MoveType
<1>4. /\ pool' \in Seq(MoveType) /\ DOMAIN pool' = DOMAIN pool
      /\ pool'[i] = q /\ \A j \in DOMAIN pool : j # i => pool'[j] = pool[j]
      BY <1>2, <1>3, Updated
<1> QED BY <1>1, <1>4 DEF Kept, MoveType

LEMMA FailsKind ==
    ASSUME PoolType, OrderInv, NEW i \in DOMAIN pool,
           ReadFails(i) \/ DispatchFails(i) \/ TimesOut(i)
    PROVE  Kept(i) /\ Fails(i) /\ goal' \in [Motors -> Int]
PROOF
<1>1. pool[i] \in MoveType /\ pool[i].start \in Nat /\ now \in Nat
      BY MoveOf DEF MoveType, PoolType
<1>2. released /\ UNCHANGED <<released, now, origin, t90, enc>>
  <2>1. pool[i].status # "Pending" => released
        BY DEF OrderInv, Sane
  <2> QED BY <2>1 DEF ReadFails, DispatchFails, TimesOut, Ready, settings, firmware
<1>3. CASE ReadFails(i) \/ TimesOut(i)
  <2>1. Failed(i, pool[i].start) /\ UNCHANGED goal /\ (Ready(i) \/ pool[i].status = "Polling")
        BY <1>3 DEF ReadFails, TimesOut, firmware
  <2> QED BY <1>1, <1>2, <2>1, FailedKind DEF Fails, PoolType
<1>4. CASE DispatchFails(i)
  <2>1. PICK d \in {0, Delta(pool[i])} : goal' = [goal EXCEPT ![pool[i].motor] = @ + d]
        BY <1>4 DEF DispatchFails
  <2>2. d \in Int /\ pool[i].motor \in Motors
        BY <1>1, <2>1, DeltaType DEF MoveType
  <2>3. goal' \in [Motors -> Int] /\ \A k \in Motors : k # pool[i].motor => goal'[k] = goal[k]
        BY <2>1, <2>2 DEF PoolType
  <2>4. Failed(i, now) /\ pool[i].status = "Dispatching"
        BY <1>4 DEF DispatchFails
  <2> QED BY <1>1, <1>2, <2>3, <2>4, FailedKind DEF Fails
<1> QED BY <1>3, <1>4

\* A reading of the encoder does not end the move, or completes it.
Polls(i) ==
    /\ pool[i].status = "Polling" /\ UNCHANGED goal
    /\ pool'[i].start = pool[i].start /\ pool'[i].firm = pool[i].firm
    /\ pool'[i].target = pool[i].target
    /\ \/ pool'[i].status = "Polling" /\ pool'[i].end = pool[i].end
       \/ pool'[i].status = "Completed" /\ pool'[i].end = now /\ Near(pool[i])

LEMMA PollKind ==
    ASSUME PoolType, OrderInv, NEW i \in DOMAIN pool, Poll(i)
    PROVE  Kept(i) /\ Polls(i)
PROOF
<1>1. pool[i] \in MoveType /\ pool[i].status = "Polling" /\ now \in Nat
      BY MoveOf DEF Poll, PoolType
<1>2. released /\ UNCHANGED <<released, now, origin, t90, enc, goal>>
      BY <1>1 DEF OrderInv, Sane, Poll, settings, firmware
<1>3. ASSUME NEW q \in MoveType, pool' = [pool EXCEPT ![i] = q],
             \/ \E n \in Nat : q = [pool[i] EXCEPT !.near = n]
             \/ q = [pool[i] EXCEPT !.status = "Completed", !.end = now] /\ Near(pool[i])
      PROVE  Kept(i) /\ Polls(i)
  <2>1. /\ pool' \in Seq(MoveType) /\ DOMAIN pool' = DOMAIN pool
        /\ pool'[i] = q /\ \A j \in DOMAIN pool : j # i => pool'[j] = pool[j]
        BY <1>3, Updated
  <2> QED BY <1>1, <1>2, <1>3, <2>1 DEF Kept, Polls, MoveType
<1>4. CASE pool' = [pool EXCEPT ![i].near = 0]
  <2> DEFINE q == [pool[i] EXCEPT !.near = 0]
  <2>1. q \in MoveType /\ pool' = [pool EXCEPT ![i] = q]
        BY <1>1, <1>4 DEF MoveType, PoolType
  <2> QED BY <1>3, <2>1
<1>5. CASE pool' = [pool EXCEPT ![i].near = @ + 1]
  <2> DEFINE q == [pool[i] EXCEPT !.near = pool[i].near + 1]
  <2>1. pool[i].near + 1 \in Nat
        BY <1>1 DEF MoveType
  <2>2. q \in MoveType
        BY <1>1, <2>1 DEF MoveType
  <2>3. pool' = [pool EXCEPT ![i] = q]
        BY <1>1, <1>5 DEF MoveType, PoolType
  <2> QED BY <1>3, <2>1, <2>2, <2>3
<1>6. CASE Near(pool[i]) /\ pool' = [pool EXCEPT ![i].status = "Completed", ![i].end = now]
  <2> DEFINE q == [pool[i] EXCEPT !.status = "Completed", !.end = now]
  <2>1. now \in Int
        BY DEF PoolType
  <2>2. q \in MoveType
        BY <1>1, <2>1 DEF MoveType, Terminal
  <2>3. pool' = [pool EXCEPT ![i] = q]
        BY <1>1, <1>6 DEF MoveType, PoolType
  <2> QED BY <1>3, <1>6, <2>2, <2>3
<1> QED BY <1>4, <1>5, <1>6 DEF Poll

----------------------------------------------------------------------------
(* Types and order.                                                         *)

LEMMA ScaledType == ASSUME NEW a \in Int, NEW t \in Nat PROVE Abs(a) \in Nat /\ Scaled(a, t) \in Nat
PROOF
<1>1. Abs(a) \in Nat
      BY DEF Abs
<1>2. \A n \in Nat : n * t \in Nat
      OBVIOUS
<1> QED BY <1>1, <1>2 DEF Scaled

\* No duration reaches beyond the clock's word.
LEMMA ScaledFits ==
    ASSUME NEW a, Asked(a), NEW t \in Times \cup {0, Default}
    PROVE  /\ a \in Int /\ t \in Nat /\ Scaled(a, t) \in Nat /\ Scaled(a, t) + MaxClock < Word
PROOF
<1>1. /\ Angles \subseteq Int /\ Times \subseteq Nat /\ Default \in Nat /\ Deadline \in Nat
      /\ MaxClock \in Nat /\ Word \in Nat /\ MaxClock + Deadline < Word
      BY TimingAssumption, TimingBounds, ClockAssumption
<1>2. t \in Nat
      BY <1>1
<1>3. PICK b \in Angles : a = b \/ a = -b
      BY DEF Asked
<1>4. b \in Int /\ a \in Int /\ Scaled(a, t) \in Nat /\ Abs(a) \in Nat
      BY <1>1, <1>2, <1>3, ScaledType
<1>5. CASE t = 0
  <2>1. \A n \in Nat : n * 0 = 0
        OBVIOUS
  <2>2. Scaled(a, t) = 0
        BY <1>4, <1>5, <2>1 DEF Scaled
  <2> QED BY <1>1, <1>2, <1>4, <2>2
<1>6. CASE t \in Times \cup {Default}
  <2>1. Abs(a) = IF b < 0 THEN -b ELSE b
        BY <1>3, <1>4 DEF Abs
  <2>2. MaxClock + (IF b < 0 THEN -b ELSE b) * t < Word
        BY <1>6, ClockAssumption
  <2>3. MaxClock + Scaled(a, t) < Word
        BY <2>1, <2>2 DEF Scaled
  <2> QED BY <1>1, <1>2, <1>3, <1>4, <2>3
<1> QED BY <1>5, <1>6

\* A step that leaves the pool alone.
LEMMA IdleOrder ==
    ASSUME PoolType, OrderInv, UNCHANGED <<pool, released>>, now' \in Nat, now <= now'
    PROVE  OrderInv'
PROOF
<1>1. ASSUME NEW i \in DOMAIN pool PROVE pool[i].start <= now' /\ pool[i].end <= now'
  <2>1. pool[i].start \in Int /\ pool[i].end \in Int
        BY MoveOf DEF MoveType
  <2>2. pool[i].start <= now /\ pool[i].end <= now
        BY DEF OrderInv, Sane
  <2>3. now \in Int
        BY DEF PoolType
  <2> QED BY <2>1, <2>2, <2>3
<1>2. \A i \in DOMAIN pool : Sane(pool[i])'
      BY <1>1 DEF OrderInv, Sane, Filled, Scaled, Abs
<1> QED BY <1>2 DEF OrderInv, Earlier

\* A move is worked on: it is the first one of its motor that is not at its end.
LEMMA WorkedOn ==
    ASSUME PoolType, OrderInv, NEW i \in DOMAIN pool, Ready(i) \/ pool[i].status \in Busy
    PROVE  \A j \in Earlier(i) : pool[j].status \in Terminal
PROOF
<1>1. CASE pool[i].status \in Busy
      BY <1>1 DEF OrderInv, Busy
<1>2. CASE Ready(i)
  <2> SUFFICES ASSUME NEW j \in Earlier(i) PROVE pool[j].status \in Terminal
      OBVIOUS
  <2>1. /\ j \in DOMAIN pool /\ pool[j].motor = pool[i].motor /\ j < i
        BY DEF Earlier
  <2>2. pool[j].status \notin Busy /\ pool[j].status # "Pending"
        BY <1>2, <2>1 DEF Ready
  <2>3. pool[j].status \in {"Pending"} \cup Busy \cup Terminal
        BY <2>1, MoveOf DEF MoveType
  <2> QED BY <2>2, <2>3
<1> QED BY <1>1, <1>2

LEMMA KeptOrder ==
    ASSUME PoolType, OrderInv, NEW i \in DOMAIN pool, Kept(i),
           Ready(i) \/ pool[i].status \in Busy,
           pool'[i].start <= now, pool'[i].end <= now,
           pool'[i].status \in {"Pending", "Dispatching"} => pool'[i].start = 0
    PROVE  OrderInv'
PROOF
<1>1. /\ DOMAIN pool' = DOMAIN pool /\ UNCHANGED <<released, now>> /\ released
      /\ \A j \in DOMAIN pool : j # i => pool'[j] = pool[j]
      /\ \A j \in DOMAIN pool : pool'[j].motor = pool[j].motor /\ pool'[j].kind = pool[j].kind
                                /\ pool'[j].ref = pool[j].ref
      BY DEF Kept
<1>2. \A k \in DOMAIN pool : Earlier(k)' = Earlier(k)
      BY <1>1 DEF Earlier
<1>3. \A k \in DOMAIN pool' : Sane(pool[k])'
  <2>1. Sane(pool[i]) /\ \A k \in DOMAIN pool : Sane(pool[k])
        BY DEF OrderInv
  <2>2. Sane(pool[i])'
        BY <1>1, <2>1 DEF Kept, Sane
  <2> QED BY <1>1, <2>1, <2>2 DEF Sane
<1>4. ASSUME NEW k \in DOMAIN pool, pool'[k].status # "Pending", NEW j \in Earlier(k)
      PROVE  pool'[j].status \in Terminal
  <2>1. j \in DOMAIN pool /\ j < k /\ pool[j].motor = pool[k].motor /\ j # k
    <3>1. \A n \in DOMAIN pool : n \in Int
          BY LenProperties DEF PoolType
    <3> QED BY <1>4, <3>1 DEF Earlier
  <2>2. CASE k = i
    <3>1. pool[j].status \in Terminal
          BY <1>4, <2>2, WorkedOn
    <3> QED BY <1>1, <2>1, <2>2, <3>1
  <2>3. CASE k # i
    <3>1. pool[j].status \in Terminal
          BY <1>1, <1>4, <2>3 DEF OrderInv
    <3>2. j # i
          BY <3>1 DEF Ready, Busy, Terminal
    <3> QED BY <1>1, <2>1, <3>1, <3>2
  <2> QED BY <2>2, <2>3
<1> QED BY <1>1, <1>2, <1>3, <1>4 DEF OrderInv

----------------------------------------------------------------------------
(* The client builds the plan.                                              *)

\* A set of numbers up to n that is not empty has a greatest one.
LEMMA GreatestExists ==
    ASSUME NEW n \in Nat, NEW T, T \subseteq 1..n, T # {}
    PROVE  \E x \in T : \A y \in T : y <= x
PROOF
<1> DEFINE Less == {ss \in Nat \X Nat : ss[1] < ss[2]}
           D == {d \in Nat : n - d \in T}
<1>1. IsWellFoundedOn(Less, Nat)
  <2>1. OpToRel(<, Nat) = Less
        BY DEF OpToRel
  <2> QED BY <2>1, NatLessThanWellFounded, Zenon
<1>2. D \subseteq Nat /\ D # {}
  <2>1. PICK y \in T : TRUE
        OBVIOUS
  <2>2. n - y \in Nat /\ n - (n - y) = y
        OBVIOUS
  <2> QED BY <2>1, <2>2
<1> HIDE DEF Less
<1>3. PICK d \in D : \A e \in D : <<e, d>> \notin Less
      BY <1>1, <1>2, WFMin, Zenon
<1>4. ASSUME NEW y \in T PROVE y <= n - d
  <2>1. y \in Int /\ n - y \in Nat /\ n - (n - y) = y /\ d \in Nat
        BY <1>2
  <2>2. n - y \in D
        BY <2>1
  <2>3. <<n - y, d>> \in Less <=> n - y < d
        BY <2>1 DEF Less
  <2>4. ~(n - y < d)
        BY <1>3, <2>2, <2>3
  <2> QED BY <2>1, <2>4
<1>5. n - d \in T
      OBVIOUS
<1> QED BY <1>4, <1>5

\* The previous move of a motor is one of the pool.
LEMMA LastType ==
    ASSUME PoolType, NEW m
    PROVE  LastOf(m) = 0 \/ LastOf(m) \in DOMAIN pool
PROOF
<1> DEFINE I == {i \in DOMAIN pool : pool[i].motor = m}
<1>1. Len(pool) \in Nat /\ I \subseteq 1..Len(pool)
      BY LenProperties DEF PoolType
<1>2. CASE I = {}
      BY <1>2 DEF LastOf
<1>3. CASE I # {}
  <2>1. \E i \in I : \A j \in I : j <= i
        BY <1>1, <1>3, GreatestExists
  <2>2. LastOf(m) = CHOOSE i \in I : \A j \in I : j <= i
        BY <1>3 DEF LastOf
  <2>3. LastOf(m) \in I
    <3> HIDE DEF I
    <3> QED BY <2>1, <2>2, Zenon
  <2> QED BY <2>3
<1> QED BY <1>2, <1>3

LEMMA MoveKeeps ==
    ASSUME PoolType, OrderInv, NEW m \in Motors, NEW angle, Asked(angle), Move(m, angle)
    PROVE  PoolType' /\ OrderInv'
PROOF
<1> DEFINE meant == Scaled(angle, IF t90[m] > 0 THEN t90[m] ELSE Default)
           r == [motor |-> m, angle |-> angle, expected |-> Scaled(angle, t90[m]),
                 kind |-> IF LastOf(m) = 0 THEN "None" ELSE "AfterCompleted", ref |-> LastOf(m),
                 val |-> 0, status |-> "Pending", e0 |-> 0, target |-> 0, near |-> 0,
                 start |-> 0, end |-> Never, firm |-> 0, meant |-> meant]
<1>1. t90[m] \in Times \cup {0} /\ t90[m] \in Nat
  <2>1. t90[m] \in Times \cup {0}
        BY DEF PoolType
  <2>2. Times \cup {0} \subseteq Nat
        BY TimingAssumption
  <2> HIDE DEF r, meant
  <2> QED BY <2>1, <2>2, Zenon
<1>2. /\ angle \in Int /\ Scaled(angle, t90[m]) \in Nat /\ Scaled(angle, t90[m]) + MaxClock < Word
      /\ Scaled(angle, Default) \in Nat /\ meant \in Nat
      BY <1>1, ScaledFits
<1>3. pool \in Seq(MoveType) /\ Len(pool) \in Nat /\ DOMAIN pool = 1..Len(pool)
      BY LenProperties DEF PoolType
<1>4. (LastOf(m) = 0 \/ LastOf(m) \in 1..Len(pool)) /\ LastOf(m) \in Nat
      BY <1>3, LastType
<1>5. r \in MoveType
  <2>1. (IF LastOf(m) = 0 THEN "None" ELSE "AfterCompleted") \in {"None", "AfterCompleted"}
        OBVIOUS
  <2>2. Never \in Int
        BY DEF Never
  <2> HIDE DEF meant
  <2> QED BY <1>2, <1>4, <2>1, <2>2 DEF MoveType, Busy, Terminal
<1>6. pool' = Append(pool, r)
      BY DEF Move
<1>7. /\ r.motor = m /\ r.angle = angle /\ r.expected = Scaled(angle, t90[m]) /\ r.meant = meant
      /\ r.status = "Pending" /\ r.start = 0 /\ r.end = -1 /\ r.val = 0 /\ r.ref = LastOf(m)
      /\ r.kind # "None" => LastOf(m) # 0
      BY DEF Never
<1>8. Filled(r) = meant
  <2>1. CASE t90[m] > 0 /\ Scaled(angle, t90[m]) <= 0
    <3>1. Scaled(angle, t90[m]) = 0
          BY <1>2, <2>1
    <3>2. Abs(angle) \in Nat
          BY <1>2 DEF Abs
    <3>3. \A a, b \in Nat : a * b = 0 => a = 0 \/ b = 0
          OBVIOUS
    <3>4. Abs(angle) = 0
          BY <1>1, <2>1, <3>1, <3>2, <3>3 DEF Scaled
    <3>5. \A b \in Nat : 0 * b = 0
          OBVIOUS
    <3>6. Scaled(angle, Default) = 0
          BY <3>4, <3>5, TimingAssumption DEF Scaled
    <3> QED BY <1>7, <2>1, <3>1, <3>6 DEF Filled
  <2>2. CASE t90[m] > 0 /\ ~(Scaled(angle, t90[m]) <= 0)
        BY <1>7, <2>2 DEF Filled
  <2>3. CASE ~(t90[m] > 0)
    <3>1. t90[m] = 0
          BY <1>1, <2>3
    <3>2. \A a \in Nat : a * 0 = 0
          OBVIOUS
    <3>3. Scaled(angle, t90[m]) = 0
          BY <1>2, <3>1, <3>2 DEF Scaled, Abs
    <3> QED BY <1>7, <2>3, <3>3 DEF Filled
  <2> QED BY <2>1, <2>2, <2>3
<1> HIDE DEF r, meant
<1>9. /\ pool' \in Seq(MoveType) /\ DOMAIN pool' = 1..(Len(pool) + 1)
      /\ \A i \in DOMAIN pool : pool'[i] = pool[i]
      /\ pool'[Len(pool) + 1] = r
  <2>1. pool' \in Seq(MoveType) /\ Len(pool') = Len(pool) + 1
        BY <1>3, <1>5, <1>6, AppendProperties
  <2> QED BY <1>3, <1>5, <1>6, <2>1, AppendProperties, LenProperties
<1>10. ~released /\ UNCHANGED <<t90, released, now, origin, enc, goal>>
       BY DEF Move, settings, firmware
<1>11. PoolType'
       BY <1>9, <1>10 DEF PoolType
<1>12. Sane(r)
  <2>1. now \in Nat /\ MaxClock \in Nat /\ MaxClock < Word
    <3>1. MaxClock + Deadline < Word /\ Deadline \in Nat /\ MaxClock \in Nat /\ Word \in Nat
          BY ClockAssumption, TimingAssumption, TimingBounds
    <3> QED BY <3>1 DEF PoolType
  <2> QED BY <1>2, <1>7, <1>8, <1>10, <2>1 DEF Sane
<1>13. OrderInv'
  <2> SUFFICES ASSUME NEW i \in DOMAIN pool'
               PROVE  /\ Sane(pool'[i])
                      /\ pool'[i].kind # "None" => pool'[i].ref \in 1..(i - 1)
                      /\ pool'[i].status = "Pending"
      BY <1>10 DEF OrderInv, Sane, Filled, Scaled, Abs
  <2>1. CASE i \in DOMAIN pool
        BY <1>9, <1>10, <2>1 DEF OrderInv, Sane
  <2>2. CASE i = Len(pool) + 1
    <3>1. pool'[i] = r
          BY <1>9, <2>2
    <3>2. r.kind # "None" => r.ref \in 1..(i - 1)
          BY <1>3, <1>4, <1>7, <2>2
    <3> QED BY <1>7, <1>12, <3>1, <3>2
  <2> QED BY <1>3, <1>9, <2>1, <2>2
<1> QED BY <1>11, <1>13

\* The client changes a move that has no worker yet.
LEMMA ChangeKeeps ==
    ASSUME PoolType, OrderInv, ~released, NEW i \in DOMAIN pool, NEW q \in MoveType,
           pool' = [pool EXCEPT ![i] = q], UNCHANGED <<t90, released, now, origin, enc, goal>>,
           Sane(q), q.motor = pool[i].motor, q.kind # "None" => q.ref \in 1..(i - 1)
    PROVE  PoolType' /\ OrderInv'
PROOF
<1>1. /\ pool' \in Seq(MoveType) /\ DOMAIN pool' = DOMAIN pool
      /\ pool'[i] = q /\ \A j \in DOMAIN pool : j # i => pool'[j] = pool[j]
      BY Updated
<1>2. PoolType'
      BY <1>1 DEF PoolType
<1>3. \A j \in DOMAIN pool : Sane(pool[j]) /\ pool[j].status = "Pending"
      BY DEF OrderInv, Sane
<1>4. \A j \in DOMAIN pool' : Sane(pool[j])' /\ pool'[j].status = "Pending"
      BY <1>1, <1>3 DEF Sane, Filled, Scaled, Abs
<1>5. \A j \in DOMAIN pool' : pool'[j].kind # "None" => pool'[j].ref \in 1..(j - 1)
      BY <1>1 DEF OrderInv
<1> QED BY <1>2, <1>4, <1>5 DEF OrderInv

LEMMA WithExpectedDurationKeeps ==
    ASSUME PoolType, OrderInv, NEW i \in DOMAIN pool, NEW t \in Durations, WithExpectedDuration(i, t)
    PROVE  PoolType' /\ OrderInv'
PROOF
<1> DEFINE p == pool[i]
           meant == IF t > 0 THEN t ELSE Scaled(p.angle, Default)
           q == [pool[i] EXCEPT !.expected = t, !.meant = meant]
<1>1. p \in MoveType /\ Sane(p)
      BY MoveOf DEF OrderInv
<1>2. Scaled(p.angle, Default) \in Nat
      BY <1>1, ScaledFits DEF Sane
<1>3. t \in Nat /\ meant \in Nat /\ t + MaxClock < Word
  <2>1. t \in Nat /\ MaxClock \in Nat /\ MaxClock + t < Word
        BY TimingAssumption, TimingBounds, ClockAssumption
  <2> QED BY <1>2, <2>1
<1>4. ~released /\ UNCHANGED <<t90, released, now, origin, enc, goal>>
      BY DEF WithExpectedDuration, firmware
<1> HIDE DEF meant
<1>5. q \in MoveType
      BY <1>1, <1>3 DEF MoveType
<1>6. pool' = [pool EXCEPT ![i] = q]
  <2>1. pool' = [pool EXCEPT ![i].expected = t, ![i].meant = meant]
        BY DEF WithExpectedDuration, meant
  <2> QED BY <1>1, <2>1 DEF PoolType, MoveType
<1>7. /\ q.expected = t /\ q.meant = meant /\ q.angle = p.angle /\ q.val = p.val /\ q.motor = p.motor
      /\ q.status = p.status /\ q.start = p.start /\ q.end = p.end /\ q.kind = p.kind /\ q.ref = p.ref
      BY <1>1 DEF MoveType
<1>8. Filled(q) = meant
  <2>1. t <= 0 <=> ~(t > 0)
        BY <1>3
  <2> QED BY <1>7, <2>1 DEF Filled, meant
<1> HIDE DEF q
<1>9. Sane(q)
      BY <1>1, <1>3, <1>4, <1>7, <1>8 DEF Sane
<1>10. q.kind # "None" => q.ref \in 1..(i - 1)
       BY <1>7 DEF OrderInv
<1> QED BY <1>4, <1>5, <1>6, <1>7, <1>9, <1>10, ChangeKeeps

LEMMA AtTimeKeeps ==
    ASSUME PoolType, OrderInv, NEW i \in DOMAIN pool, NEW j \in DOMAIN pool, NEW t \in Delays,
           NEW kind \in OnTime, AtTime(i, kind, j, t)
    PROVE  PoolType' /\ OrderInv'
PROOF
<1> DEFINE p == pool[i]
           q == [pool[i] EXCEPT !.kind = kind, !.ref = j, !.val = t]
<1>1. p \in MoveType /\ Sane(p)
      BY MoveOf DEF OrderInv
<1>2. i \in 1..Len(pool) /\ j \in 1..Len(pool) /\ j < i /\ j \in 1..(i - 1) /\ j \in Nat /\ Len(pool) \in Nat
  <2>1. j < i /\ Len(pool) \in Nat /\ i \in 1..Len(pool) /\ j \in 1..Len(pool)
        BY LenProperties DEF AtTime, PoolType
  <2> QED BY <2>1
<1>3. t \in Nat /\ t + MaxClock < Word
  <2>1. t \in Nat /\ MaxClock \in Nat /\ MaxClock + t < Word
        BY TimingAssumption, TimingBounds, ClockAssumption
  <2> QED BY <2>1
<1>4. ~released /\ UNCHANGED <<t90, released, now, origin, enc, goal>>
      BY DEF AtTime, firmware, settings
<1>5. q \in MoveType
      BY <1>1, <1>2, <1>3 DEF MoveType
<1>6. pool' = [pool EXCEPT ![i] = q]
      BY <1>1 DEF AtTime, PoolType, MoveType
<1>7. /\ q.expected = p.expected /\ q.meant = p.meant /\ q.angle = p.angle /\ q.val = t
      /\ q.motor = p.motor /\ q.status = p.status /\ q.start = p.start /\ q.end = p.end /\ q.ref = j
      BY <1>1 DEF MoveType
<1> HIDE DEF q
<1>8. Sane(q)
      BY <1>1, <1>3, <1>4, <1>7 DEF Sane, Filled
<1> QED BY <1>2, <1>4, <1>5, <1>6, <1>7, <1>8, ChangeKeeps

LEMMA FilledFits ==
    ASSUME PoolType, OrderInv, NEW i \in DOMAIN pool
    PROVE  Filled(pool[i]) \in Nat /\ Filled(pool[i]) + MaxClock < Word
PROOF
<1>1. pool[i] \in MoveType /\ Sane(pool[i])
      BY MoveOf DEF OrderInv
<1>2. Scaled(pool[i].angle, Default) \in Nat /\ Scaled(pool[i].angle, Default) + MaxClock < Word
      BY <1>1, ScaledFits DEF Sane
<1> QED BY <1>1, <1>2 DEF Filled, Sane, MoveType

LEMMA RunKeepsPlan ==
    ASSUME PoolType, OrderInv, Run
    PROVE  PoolType' /\ OrderInv' /\ \A i \in DOMAIN pool' : pool'[i].status = "Pending"
PROOF
<1> DEFINE q(i) == [pool[i] EXCEPT !.expected = Filled(pool[i])]
<1>1. /\ Len(pool) \in Nat /\ DOMAIN pool = 1..Len(pool) /\ pool' = [i \in 1..Len(pool) |-> q(i)]
      /\ ~released /\ released' = TRUE /\ UNCHANGED <<t90, now, origin, enc, goal>>
      BY LenProperties DEF Run, PoolType, firmware, settings
<1>2. \A i \in DOMAIN pool :
        /\ q(i) \in MoveType /\ q(i).expected = Filled(pool[i])
        /\ q(i).motor = pool[i].motor /\ q(i).angle = pool[i].angle /\ q(i).meant = pool[i].meant
        /\ q(i).val = pool[i].val /\ q(i).kind = pool[i].kind /\ q(i).ref = pool[i].ref
        /\ q(i).status = pool[i].status /\ q(i).start = pool[i].start /\ q(i).end = pool[i].end
  <2> SUFFICES ASSUME NEW i \in DOMAIN pool
               PROVE  /\ q(i) \in MoveType /\ q(i).expected = Filled(pool[i])
                      /\ q(i).motor = pool[i].motor /\ q(i).angle = pool[i].angle
                      /\ q(i).meant = pool[i].meant
                      /\ q(i).val = pool[i].val /\ q(i).kind = pool[i].kind /\ q(i).ref = pool[i].ref
                      /\ q(i).status = pool[i].status /\ q(i).start = pool[i].start
                      /\ q(i).end = pool[i].end
      OBVIOUS
  <2>1. pool[i] \in MoveType /\ Filled(pool[i]) \in Nat
        BY MoveOf, FilledFits
  <2> QED BY <2>1 DEF MoveType
<1> HIDE DEF q
<1>3. pool' \in Seq(MoveType) /\ DOMAIN pool' = DOMAIN pool /\ \A i \in DOMAIN pool : pool'[i] = q(i)
      BY <1>1, <1>2, IsASeq
<1>4. PoolType'
      BY <1>1, <1>3 DEF PoolType
<1>5. \A i \in DOMAIN pool' : Sane(pool[i])' /\ pool'[i].status = "Pending"
  <2> SUFFICES ASSUME NEW i \in DOMAIN pool PROVE Sane(pool[i])' /\ pool'[i].status = "Pending"
      BY <1>3
  <2>1. Sane(pool[i]) /\ Filled(pool[i]) + MaxClock < Word
        BY FilledFits DEF OrderInv
  <2> QED BY <1>1, <1>2, <1>3, <2>1 DEF Sane
<1>6. \A i \in DOMAIN pool' : pool'[i].kind # "None" => pool'[i].ref \in 1..(i - 1)
      BY <1>2, <1>3 DEF OrderInv
<1> QED BY <1>4, <1>5, <1>6 DEF OrderInv

LEMMA IdleKeeps ==
    ASSUME PoolType, OrderInv, ProbeInv, UNCHANGED <<pool, released>>,
           \/ \E m \in Motors : Turn(m) \/ ProbeMotor(m) \/ \E t \in Times : SetMotorProfile(m, t)
           \/ \E executed \in BOOLEAN, seen \in SUBSET Times : Sample(executed, seen)
           \/ Tick
           \/ UNCHANGED vars
    PROVE  PoolType' /\ OrderInv'
PROOF
<1>1. now \in Nat \ {0} /\ now <= MaxClock /\ MaxClock \in Nat
      BY TimingBounds DEF PoolType
<1>2. ASSUME t90' \in [Motors -> Times \cup {0}], enc' \in [Motors -> Int], goal' \in [Motors -> Int],
             UNCHANGED <<now, origin>>
      PROVE  PoolType' /\ OrderInv'
      BY <1>1, <1>2, IdleOrder DEF PoolType
<1>3. ASSUME NEW m \in Motors, Turn(m) PROVE PoolType' /\ OrderInv'
  <2>1. enc[m] \in Int /\ goal[m] \in Int
        BY DEF PoolType
  <2>2. PICK e \in (IF enc[m] < goal[m] THEN enc[m] + 1 .. goal[m] ELSE goal[m] .. enc[m] - 1) :
              enc' = [enc EXCEPT ![m] = e]
        BY <1>3 DEF Turn
  <2>3. e \in Int
        BY <2>1, <2>2
  <2>4. enc' \in [Motors -> Int]
        BY <2>2, <2>3 DEF PoolType
  <2> QED BY <1>2, <1>3, <2>4 DEF Turn, settings, PoolType
<1>4. ASSUME NEW m \in Motors, ProbeMotor(m) PROVE PoolType' /\ OrderInv'
      BY <1>2, <1>4 DEF ProbeMotor, firmware, PoolType
<1>5. ASSUME NEW m \in Motors, NEW t \in Times, SetMotorProfile(m, t) PROVE PoolType' /\ OrderInv'
      BY <1>2, <1>5 DEF SetMotorProfile, firmware, PoolType
<1>6. ASSUME NEW executed \in BOOLEAN, NEW seen \in SUBSET Times, Sample(executed, seen)
      PROVE  PoolType' /\ OrderInv'
  <2> DEFINE delta == IF executed THEN ProbeDelta(probe.i) ELSE 0
  <2>1. probe.motor \in Motors /\ delta \in Int
        BY TimingAssumption DEF ProbeInv, ProbeType, ProbeDelta
  <2>2. goal' = [goal EXCEPT ![probe.motor] = @ + delta] /\ enc' = goal' /\ UNCHANGED <<now, origin>>
        BY <1>6 DEF Sample
  <2> HIDE DEF delta
  <2>3. goal' \in [Motors -> Int]
        BY <2>1, <2>2 DEF PoolType
  <2>4. t90' = t90 \/ \E mean \in Times : t90' = [t90 EXCEPT ![probe.motor] = mean]
        BY <1>6 DEF Sample
  <2>5. t90' \in [Motors -> Times \cup {0}]
        BY <2>4 DEF PoolType
  <2> QED BY <1>2, <2>2, <2>3, <2>5
<1>7. CASE Tick
  <2>1. /\ now' \in Nat \ {0} /\ now' <= MaxClock /\ now <= now'
        /\ UNCHANGED <<t90, origin, enc, goal>>
        BY <1>1, <1>7 DEF Tick, settings, firmware
  <2> QED BY <2>1, IdleOrder DEF PoolType
<1>8. CASE UNCHANGED vars
      BY <1>2, <1>8 DEF vars, PoolType
<1> QED BY <1>3, <1>4, <1>5, <1>6, <1>7, <1>8

\* What a worker does to a move of its motor, a step at a time.
Works(i) == Kept(i) /\ (Begins(i) \/ Dispatches(i) \/ Fails(i) \/ Polls(i))

LEMMA WorkKinds ==
    ASSUME PoolType, OrderInv, NEW i \in DOMAIN pool,
           Begin(i) \/ ReadFails(i) \/ Dispatch(i) \/ DispatchFails(i) \/ Poll(i) \/ TimesOut(i)
    PROVE  Works(i) /\ goal' \in [Motors -> Int] /\ UNCHANGED probe
PROOF
<1>1. CASE Begin(i)
      BY <1>1, BeginKind DEF Works, Begins, Begin, PoolType
<1>2. CASE Dispatch(i)
      BY <1>2, DispatchKind DEF Works, Dispatch
<1>3. CASE Poll(i)
      BY <1>3, PollKind DEF Works, Polls, Poll, PoolType
<1>4. CASE ReadFails(i) \/ DispatchFails(i) \/ TimesOut(i)
      BY <1>4, FailsKind DEF Works, ReadFails, DispatchFails, TimesOut
<1> QED BY <1>1, <1>2, <1>3, <1>4

LEMMA WorkKeeps ==
    ASSUME PoolType, OrderInv, NEW i \in DOMAIN pool, Works(i), goal' \in [Motors -> Int]
    PROVE  PoolType' /\ OrderInv'
PROOF
<1>1. PoolType'
      BY DEF Works, Kept, PoolType
<1>2. Ready(i) \/ pool[i].status \in Busy
      BY DEF Works, Begins, Dispatches, Fails, Polls, Busy
<1>3. now \in Nat /\ Sane(pool[i]) /\ (Ready(i) => pool[i].status = "Pending")
      BY DEF PoolType, OrderInv, Ready
<1>4. pool'[i].start <= now /\ pool'[i].end <= now
      BY <1>3 DEF Works, Begins, Dispatches, Fails, Polls, Sane
<1>5. pool'[i].status \in {"Pending", "Dispatching"} => pool'[i].start = 0
      BY <1>3 DEF Works, Begins, Dispatches, Fails, Polls, Sane
<1> QED BY <1>1, <1>2, <1>4, <1>5, KeptOrder DEF Works

\* The client builds the plan: nobody works on it, before or after.
Builds ==
    /\ UNCHANGED <<enc, goal>>
    /\ \A i \in DOMAIN pool : pool[i].status = "Pending"
    /\ \A i \in DOMAIN pool' : pool'[i].status = "Pending"

\* The moves stay what they are.
Idles ==
    /\ UNCHANGED <<pool, released, origin>> /\ now <= now'
    /\ \/ \E m \in Motors : Turn(m)
       \/ ~released /\ enc' = goal'
       \/ UNCHANGED <<enc, goal>>

LEMMA PlanNext ==
    ASSUME PoolType, OrderInv, ProbeInv, released => probe.i = Samples, [Next]_vars
    PROVE  /\ PoolType' /\ OrderInv' /\ (released => probe.i = Samples)'
           /\ Builds \/ Idles \/ \E i \in DOMAIN pool : Works(i)
PROOF
<1> DEFINE Goal == /\ PoolType' /\ OrderInv' /\ (released => probe.i = Samples)'
                   /\ Builds \/ Idles \/ \E i \in DOMAIN pool : Works(i)
<1>1. ~released => \A i \in DOMAIN pool : pool[i].status = "Pending"
      BY DEF OrderInv, Sane
<1>2. ASSUME PoolType', OrderInv', ~released, ~released', UNCHANGED <<enc, goal>> PROVE Goal
  <2>1. \A i \in DOMAIN pool' : pool'[i].status = "Pending"
        BY <1>2 DEF OrderInv, Sane
  <2> QED BY <1>1, <1>2, <2>1 DEF Builds
<1>3. ASSUME NEW m \in Motors, NEW angle, Asked(angle), Move(m, angle) PROVE Goal
      BY <1>2, <1>3, MoveKeeps DEF Move, firmware
<1>4. ASSUME NEW i \in DOMAIN pool, NEW t \in Durations, WithExpectedDuration(i, t) PROVE Goal
      BY <1>2, <1>4, WithExpectedDurationKeeps DEF WithExpectedDuration, firmware
<1>5. ASSUME NEW i \in DOMAIN pool, NEW j \in DOMAIN pool, NEW t \in Delays, NEW kind \in OnTime,
             AtTime(i, kind, j, t)
      PROVE  Goal
      BY <1>2, <1>5, AtTimeKeeps DEF AtTime, firmware
<1>6. ASSUME Run PROVE Goal
  <2>1. ~released /\ UNCHANGED <<enc, goal>> /\ probe'.i = Samples
        BY <1>6 DEF Run, firmware, NoProbe
  <2>2. PoolType' /\ OrderInv' /\ \A i \in DOMAIN pool' : pool'[i].status = "Pending"
        BY <1>6, RunKeepsPlan
  <2> QED BY <1>1, <2>1, <2>2 DEF Builds
<1>7. ASSUME NEW i \in DOMAIN pool,
             Begin(i) \/ ReadFails(i) \/ Dispatch(i) \/ DispatchFails(i) \/ Poll(i) \/ TimesOut(i)
      PROVE  Goal
  <2>1. Works(i) /\ goal' \in [Motors -> Int] /\ UNCHANGED probe
        BY <1>7, WorkKinds
  <2>2. PoolType' /\ OrderInv' /\ UNCHANGED released
        BY <2>1, WorkKeeps DEF Works, Kept
  <2> QED BY <2>1, <2>2
<1>8. now \in Nat
      BY DEF PoolType
<1>9. ASSUME NEW m \in Motors, Turn(m) PROVE Goal
  <2>1. UNCHANGED <<pool, released, now, probe>>
        BY <1>9 DEF Turn, settings
  <2>2. UNCHANGED origin
        BY <1>9 DEF Turn
  <2>3. Idles
        BY <1>8, <1>9, <2>1, <2>2 DEF Idles
  <2> QED BY <1>9, <2>1, <2>3, IdleKeeps
<1>10. ASSUME NEW m \in Motors, ProbeMotor(m) \/ \E t \in Times : SetMotorProfile(m, t) PROVE Goal
  <2>1. Idles /\ ~released
        BY <1>8, <1>10 DEF ProbeMotor, SetMotorProfile, Tuning, firmware, Idles
  <2> QED BY <1>10, <2>1, IdleKeeps DEF Idles
<1>11. ASSUME NEW executed \in BOOLEAN, NEW seen \in SUBSET Times, Sample(executed, seen) PROVE Goal
  <2>1. ~released
    <3>1. probe.i < Samples /\ Samples \in Nat /\ probe.i \in Nat
          BY <1>11, TimingAssumption DEF Sample, ProbeInv, ProbeType
    <3> QED BY <3>1
  <2>2. Idles
        BY <1>8, <1>11, <2>1 DEF Sample, Idles
  <2> QED BY <1>11, <2>1, <2>2, IdleKeeps DEF Idles
<1>12. ASSUME Tick \/ UNCHANGED vars PROVE Goal
  <2>1. Idles /\ UNCHANGED probe
        BY <1>8, <1>12 DEF Tick, vars, firmware, Idles
  <2> QED BY <1>12, <2>1, IdleKeeps DEF Idles
<1>13. \A a \in Angles : Asked(a) /\ Asked(-a)
       BY DEF Asked
<1>14. \A t \in Times : {t} \in SUBSET Times
       OBVIOUS
<1>15. {} \in SUBSET Times /\ TRUE \in BOOLEAN
       OBVIOUS
<1>16. Next => Goal
  <2> HIDE DEF Goal
  <2> SUFFICES ASSUME Next PROVE Goal
      OBVIOUS
  <2>1. ASSUME \E executed \in BOOLEAN : Sample(executed, {}) PROVE Goal
        BY <1>11, <1>15, <2>1
  <2>2. ASSUME \E t \in Times \ {0} : Sample(TRUE, {t}) PROVE Goal
        BY <1>11, <1>14, <1>15, <2>2
  <2>3. ASSUME NEW m \in Motors,
               \/ Turn(m) \/ ProbeMotor(m)
               \/ \E t \in Times : SetMotorProfile(m, t)
               \/ \E a \in Angles : Move(m, a) \/ Move(m, -a)
        PROVE  Goal
        BY <1>3, <1>9, <1>10, <1>13, <2>3
  <2>4. ASSUME NEW i \in DOMAIN pool,
               \/ \E t \in Durations : WithExpectedDuration(i, t)
               \/ \E j \in DOMAIN pool, t \in Delays, kind \in {"AtTimeAfterStart", "AtTimeBeforeEnd"} :
                    AtTime(i, kind, j, t)
               \/ Begin(i) \/ ReadFails(i) \/ Dispatch(i) \/ DispatchFails(i)
               \/ Poll(i) \/ TimesOut(i)
        PROVE  Goal
        BY <1>4, <1>5, <1>7, <2>4 DEF OnTime
  <2> QED BY <1>6, <1>12, <2>1, <2>2, <2>3, <2>4 DEF Next
<1> QED BY <1>12, <1>16

----------------------------------------------------------------------------
(* Triggers on time are resolved when their moves start.                    *)

\* Both factors of the wrap of the clock.
LEMMA Wraps ==
    ASSUME NEW w \in Nat, NEW x \in Nat
    PROVE  /\ x < w => x % w = x
           /\ w <= x /\ x < 2 * w => x % w = x - w
PROOF
<1>1. ASSUME x < w PROVE x % w = x
      BY <1>1
<1>2. ASSUME w <= x, x < 2 * w PROVE x % w = x - w
      BY <1>2
<1> QED BY <1>1, <1>2

\* The time a worker waits for is no earlier than the client's.
LEMMA DueIsReal ==
    ASSUME NEW start \in Nat, NEW n \in Int, start + n < Word, 0 < Word + n, start < Word,
           NEW u \in U64(n)
    PROVE  start + n <= (start + u) % Word
PROOF
<1>1. Word \in Nat
      BY ClockAssumption
<1>2. CASE n >= 0
  <2> DEFINE x == start + u
  <2>1. u = n /\ x \in Nat /\ x = start + n /\ x < Word
        BY <1>2 DEF U64
  <2> HIDE DEF x
  <2>2. x % Word = x
        BY <1>1, <2>1, Wraps
  <2> QED BY <2>1, <2>2 DEF x
<1>3. CASE n < 0 /\ u = 0
  <2>1. (start + u) % Word = start
        BY <1>1, <1>3, Wraps
  <2> QED BY <1>3, <2>1
<1>4. CASE n < 0 /\ u = Word + n
  <2> DEFINE x == start + u
  <2>1. x \in Nat /\ x = (start + n) + Word /\ x < 2 * Word
        BY <1>1, <1>4
  <2>2. CASE x < Word
    <3>1. x % Word = x
          BY <1>1, <2>1, <2>2, Wraps
    <3> QED BY <1>1, <2>1, <3>1
  <2>3. CASE Word <= x
    <3>1. x % Word = x - Word
          BY <1>1, <2>1, <2>3, Wraps
    <3> QED BY <1>1, <2>1, <3>1
  <2> QED BY <1>1, <2>1, <2>2, <2>3
<1> QED BY <1>2, <1>3, <1>4 DEF U64

LEMMA ReadyResolves ==
    ASSUME PoolType, OrderInv, NEW i \in DOMAIN pool, pool[i].kind \in OnTime, Ready(i)
    PROVE  ResolvedAt(pool[i], now)
PROOF
<1> DEFINE p == pool[i]
           leader == pool[pool[i].ref]
<1>1. p.ref \in DOMAIN pool
  <2>1. p.ref \in 1..(i - 1) /\ DOMAIN pool = 1..Len(pool) /\ Len(pool) \in Nat
        BY LenProperties DEF OrderInv, OnTime, PoolType
  <2> QED BY <2>1
<1>2. p \in MoveType /\ leader \in MoveType /\ Sane(p) /\ Sane(leader) /\ released
      BY <1>1, MoveOf DEF OrderInv, Ready
<1>3. /\ leader.end <= now /\ leader.start <= now /\ leader.expected = leader.meant
      /\ leader.expected + MaxClock < Word /\ p.val + MaxClock < Word
      BY <1>2 DEF Sane
<1>4. /\ leader.start \in Nat /\ leader.expected \in Nat /\ p.val \in Nat
      /\ now \in Nat /\ now <= MaxClock /\ MaxClock \in Nat /\ Word \in Nat
      BY <1>2, TimingBounds, ClockAssumption DEF PoolType, MoveType
<1>5. Waited(p) /\ p.kind # "None" /\ p.kind # "AfterCompleted"
      BY DEF Ready, OnTime
<1>6. CASE leader.status = "Failed"
      BY <1>3, <1>6 DEF ResolvedAt
<1>7. CASE leader.status = "Completed" /\ p.kind # "AtTimeAfterStart"
      BY <1>3, <1>7 DEF ResolvedAt, OnTime
<1>8. CASE leader.start # 0 /\ \E due \in Due(p) : now >= due
  <2> DEFINE n == IF p.kind = "AtTimeAfterStart" THEN p.val ELSE leader.expected - p.val
  <2>1. PICK due \in Due(p) : now >= due
        BY <1>8
  <2>2. n = Offset(p) /\ n \in Int
        BY <1>3, <1>4 DEF Offset
  <2>3. PICK u \in U64(n) : due = (leader.start + u) % Word
        BY <2>1 DEF Due
  <2>4. leader.start + n < Word /\ 0 < Word + n /\ leader.start < Word
        BY <1>3, <1>4
  <2> HIDE DEF n
  <2>5. leader.start + n <= due
        BY <1>4, <2>2, <2>3, <2>4, DueIsReal
  <2>6. due \in Int
    <3>1. u \in Int
          BY <1>4, <2>2, <2>3 DEF U64
    <3>2. Word > 0
          BY <1>3, <1>4
    <3> QED BY <1>4, <2>3, <3>1, <3>2
  <2>7. now >= leader.start + n
        BY <1>4, <2>1, <2>2, <2>5, <2>6
  <2> QED BY <1>8, <2>2, <2>7 DEF ResolvedAt
<1> QED BY <1>5, <1>6, <1>7, <1>8 DEF Waited

\* What resolved a trigger stays: a start is not moved, an end is one.
LEMMA StaysResolved ==
    ASSUME PoolType, OrderInv, NEW k \in DOMAIN pool, Works(k),
           NEW i \in DOMAIN pool, pool[i].kind \in OnTime, NEW t, ResolvedAt(pool[i], t)
    PROVE  ResolvedAt(pool[i], t)'
PROOF
<1> DEFINE r == pool[i].ref
<1>1. r \in DOMAIN pool
  <2>1. r \in 1..(i - 1) /\ DOMAIN pool = 1..Len(pool) /\ Len(pool) \in Nat
        BY LenProperties DEF OrderInv, OnTime, PoolType
  <2> QED BY <2>1
<1>2. /\ pool'[i].kind = pool[i].kind /\ pool'[i].ref = r /\ pool'[i].val = pool[i].val
      /\ pool'[r].meant = pool[r].meant
      BY <1>1 DEF Works, Kept
<1>3. Offset(pool[i])' = Offset(pool[i])
      BY <1>2 DEF Offset
<1>4. pool[r].start # 0 => pool'[r].start = pool[r].start
  <2>1. CASE r = k
    <3>1. pool[k].status = "Dispatching" => pool[k].start = 0
          BY DEF OrderInv, Sane
    <3> QED BY <2>1, <3>1 DEF Works, Begins, Dispatches, Fails, Polls
  <2>2. CASE r # k
        BY <1>1, <2>2 DEF Works, Kept
  <2> QED BY <2>1, <2>2
<1>5. pool[r].status \in Terminal => pool'[r] = pool[r]
  <2>1. pool[k].status \notin Terminal
        BY DEF Works, Begins, Dispatches, Fails, Polls, Ready, Terminal
  <2> QED BY <1>1, <2>1 DEF Works, Kept
<1> QED BY <1>2, <1>3, <1>4, <1>5 DEF ResolvedAt, Terminal

LEMMA TriggerNext ==
    ASSUME PoolType, OrderInv, PoolType', OrderInv', TriggerInv,
           Builds \/ Idles \/ \E i \in DOMAIN pool : Works(i)
    PROVE  TriggerInv'
PROOF
<1>1. CASE Builds
  <2>1. \A i \in DOMAIN pool' : pool'[i].status = "Pending" /\ pool'[i].start = 0
        BY <1>1 DEF Builds, OrderInv, Sane
  <2> QED BY <2>1 DEF TriggerInv
<1>2. CASE Idles
  <2>1. pool' = pool /\ now <= now' /\ now \in Int /\ now' \in Int
        BY <1>2 DEF Idles, PoolType
  <2>2. ASSUME NEW i \in DOMAIN pool, pool[i].kind \in OnTime, ResolvedAt(pool[i], now)
        PROVE  ResolvedAt(pool[i], now')
    <3> DEFINE r == pool[i].ref
    <3>1. r \in DOMAIN pool
      <4>1. r \in 1..(i - 1) /\ DOMAIN pool = 1..Len(pool) /\ Len(pool) \in Nat
            BY <2>2, LenProperties DEF OrderInv, OnTime, PoolType
      <4> QED BY <4>1
    <3>2. pool[r] \in MoveType /\ pool[i] \in MoveType
          BY <3>1, MoveOf
    <3>3. pool[r].start \in Int /\ pool[r].end \in Int /\ Offset(pool[i]) \in Int
          BY <3>2 DEF MoveType, Offset
    <3> QED BY <2>1, <2>2, <3>3 DEF ResolvedAt
  <2>3. SUFFICES ASSUME NEW i \in DOMAIN pool, pool[i].kind \in OnTime
                 PROVE  /\ pool[i].start # 0 => ResolvedAt(pool[i], pool[i].start)'
                        /\ pool[i].status = "Dispatching" => ResolvedAt(pool[i], now)'
        BY <2>1 DEF TriggerInv
  <2>4. /\ pool[i].start # 0 => ResolvedAt(pool[i], pool[i].start)
        /\ pool[i].status = "Dispatching" => ResolvedAt(pool[i], now')
        BY <2>2, <2>3 DEF TriggerInv
  <2> QED BY <2>1, <2>4 DEF ResolvedAt, Offset
<1>3. ASSUME NEW k \in DOMAIN pool, Works(k) PROVE TriggerInv'
  <2>1. now' = now /\ DOMAIN pool' = DOMAIN pool
        BY <1>3 DEF Works, Kept
  <2>2. SUFFICES ASSUME NEW i \in DOMAIN pool, pool'[i].kind \in OnTime
                 PROVE  /\ pool'[i].start # 0 => ResolvedAt(pool[i], pool[i].start)'
                        /\ pool'[i].status = "Dispatching" => ResolvedAt(pool[i], now)'
        BY <2>1 DEF TriggerInv
  <2>3. pool[i].kind \in OnTime
        BY <1>3, <2>2 DEF Works, Kept
  <2>4. \A t : ResolvedAt(pool[i], t) => ResolvedAt(pool[i], t)'
        BY <1>3, <2>3, StaysResolved
  <2>5. /\ pool[i].start # 0 => ResolvedAt(pool[i], pool[i].start)
        /\ pool[i].status = "Dispatching" => ResolvedAt(pool[i], now)
        /\ Ready(i) => ResolvedAt(pool[i], now)
        BY <2>3, ReadyResolves DEF TriggerInv
  <2>6. CASE i # k
    <3>1. pool'[i] = pool[i]
          BY <1>3, <2>6 DEF Works, Kept
    <3> QED BY <2>1, <2>4, <2>5, <3>1
  <2>7. CASE i = k
    <3>1. pool'[i].status = "Dispatching" => Ready(i)
          BY <1>3, <2>7 DEF Works, Begins, Dispatches, Fails, Polls
    <3>2. \/ pool'[i].start = pool[i].start
          \/ pool'[i].start = now /\ pool[i].status = "Dispatching"
          BY <1>3, <2>7 DEF Works, Begins, Dispatches, Fails, Polls
    <3> QED BY <2>1, <2>4, <2>5, <3>1, <3>2
  <2> QED BY <2>6, <2>7
<1> QED BY <1>1, <1>2, <1>3

----------------------------------------------------------------------------
(* Encoders lag behind by the tolerance of the moves.                       *)

LEMMA EarlierFinite ==
    ASSUME PoolType, NEW i \in DOMAIN pool
    PROVE  IsFiniteSet(Earlier(i)) /\ Cardinality(Earlier(i)) \in Nat /\ i \notin Earlier(i)
PROOF
<1>1. DOMAIN pool = 1..Len(pool) /\ Len(pool) \in Nat
      BY LenProperties DEF PoolType
<1>2. IsFiniteSet(1..Len(pool))
      BY <1>1, FS_Interval
<1>3. Earlier(i) \subseteq 1..Len(pool) /\ i \notin Earlier(i)
      BY <1>1 DEF Earlier
<1> QED BY <1>2, <1>3, FS_Subset, FS_CardinalityType

\* The moves after one that is not at its end wait for it.
LEMMA FirstOpen ==
    ASSUME PoolType, OrderInv, NEW i \in DOMAIN pool, pool[i].status \notin Terminal,
           \A j \in Earlier(i) : pool[j].status = "Completed"
    PROVE  \A j \in DOMAIN pool : pool[j].motor = pool[i].motor /\ j # i =>
              \/ j \in Earlier(i) /\ pool[j].status = "Completed"
              \/ j \notin Earlier(i) /\ pool[j].status = "Pending"
PROOF
<1> SUFFICES ASSUME NEW j \in DOMAIN pool, pool[j].motor = pool[i].motor, j # i
             PROVE  \/ j \in Earlier(i) /\ pool[j].status = "Completed"
                    \/ j \notin Earlier(i) /\ pool[j].status = "Pending"
    OBVIOUS
<1>1. i \in Int /\ j \in Int
      BY LenProperties DEF PoolType
<1>2. CASE j < i
      BY <1>2 DEF Earlier
<1>3. CASE i < j
  <2>1. j \notin Earlier(i) /\ i \in Earlier(j)
        BY <1>1, <1>3 DEF Earlier
  <2> QED BY <2>1 DEF OrderInv
<1> QED BY <1>1, <1>2, <1>3

\* The distance of a motor from its goal is that of the goal from the target
\* plus that of the encoder from it.
LEMMA Adds ==
    ASSUME NEW g \in Int, NEW t \in Int, NEW e \in Int, NEW c \in Nat,
           Abs(g - t) <= Tolerance * c, Abs(e - t) <= Tolerance
    PROVE  Abs(g - e) <= Tolerance * (c + 1)
PROOF
<1>1. Tolerance \in Nat
      BY TimingAssumption
<1> DEFINE k == Tolerance * c
<1>2. k \in Nat /\ Tolerance * (c + 1) = k + Tolerance
      BY <1>1
<1> HIDE DEF k
<1>3. Abs(g - t) <= k
      BY DEF k
<1> QED BY <1>1, <1>2, <1>3 DEF Abs

LEMMA LagIdles ==
    ASSUME PoolType, PoolType', LagInv, Idles
    PROVE  LagInv'
PROOF
<1>1. pool' = pool
      BY DEF Idles
<1>2. SUFFICES ASSUME NEW m \in Motors,
                      \A j \in DOMAIN pool : pool[j].motor = m => pool[j].status \in {"Pending", "Completed"}
               PROVE  Abs(goal'[m] - enc'[m]) <= Tolerance * Cardinality(DoneOf(m))
      BY <1>1 DEF LagInv, DoneOf
<1> DEFINE k == Tolerance * Cardinality(DoneOf(m))
<1>3. Abs(goal[m] - enc[m]) <= k
      BY <1>2 DEF LagInv
<1>4. /\ goal[m] \in Int /\ enc[m] \in Int /\ goal'[m] \in Int /\ enc'[m] \in Int
      BY DEF PoolType
<1>5. k \in Nat
  <2>1. IsFiniteSet(DoneOf(m))
    <3>1. DOMAIN pool = 1..Len(pool) /\ Len(pool) \in Nat
          BY LenProperties DEF PoolType
    <3>2. DoneOf(m) \subseteq 1..Len(pool)
          BY <3>1 DEF DoneOf
    <3>3. IsFiniteSet(1..Len(pool))
          BY <3>1, FS_Interval
    <3> QED BY <3>2, <3>3, FS_Subset
  <2>2. Cardinality(DoneOf(m)) \in Nat
        BY <2>1, FS_CardinalityType
  <2> QED BY <2>2, TimingAssumption
<1> HIDE DEF k
<1>6. CASE UNCHANGED <<enc, goal>>
      BY <1>3, <1>6 DEF k
<1>7. CASE enc' = goal'
  <2>1. Abs(goal'[m] - enc'[m]) = 0
        BY <1>4, <1>7 DEF Abs
  <2> QED BY <1>5, <2>1 DEF k
<1>8. ASSUME NEW n \in Motors, Turn(n) PROVE Abs(goal'[m] - enc'[m]) <= k
  <2>1. PICK e \in (IF enc[n] < goal[n] THEN enc[n] + 1 .. goal[n] ELSE goal[n] .. enc[n] - 1) :
              enc' = [enc EXCEPT ![n] = e]
        BY <1>8 DEF Turn
  <2>2. goal' = goal
        BY <1>8 DEF Turn
  <2>3. CASE m # n
    <3>1. enc'[m] = enc[m]
          BY <2>1, <2>3 DEF PoolType
    <3> QED BY <1>3, <2>2, <3>1
  <2>4. CASE m = n
    <3>1. enc'[m] = e
          BY <2>1, <2>4 DEF PoolType
    <3>2. Abs(goal[m] - e) <= Abs(goal[m] - enc[m])
          BY <1>4, <2>1, <2>4, <3>1 DEF Abs
    <3>3. Abs(goal[m] - e) \in Int /\ Abs(goal[m] - enc[m]) \in Int
          BY <1>4, <3>1 DEF Abs
    <3> QED BY <1>3, <1>5, <2>2, <3>1, <3>2, <3>3
  <2> QED BY <2>3, <2>4
<1> QED BY <1>6, <1>7, <1>8 DEF Idles, k

LEMMA LagBuilds ==
    ASSUME LagInv, Builds
    PROVE  LagInv'
PROOF
<1>1. \A m : DoneOf(m) = {} /\ DoneOf(m)' = {}
      BY DEF Builds, DoneOf
<1>2. \A m \in Motors : Abs(goal[m] - enc[m]) <= Tolerance * Cardinality(DoneOf(m))
      BY DEF LagInv, Builds
<1>3. enc' = enc /\ goal' = goal
      BY DEF Builds
<1> QED BY <1>1, <1>2, <1>3 DEF LagInv

LEMMA LagWorks ==
    ASSUME PoolType, OrderInv, LagInv, ChaseInv, NEW i \in DOMAIN pool, Works(i)
    PROVE  LagInv'
PROOF
<1> DEFINE mi == pool[i].motor
<1>1. /\ DOMAIN pool' = DOMAIN pool /\ enc' = enc
      /\ \A j \in DOMAIN pool : pool'[j].motor = pool[j].motor /\ (j # i => pool'[j] = pool[j])
      BY DEF Works, Kept
<1>2. pool[i] \in MoveType /\ mi \in Motors
      BY MoveOf DEF MoveType
<1> SUFFICES ASSUME NEW m \in Motors,
                    \A j \in DOMAIN pool : pool[j].motor = m => pool'[j].status \in {"Pending", "Completed"}
             PROVE  Abs(goal'[m] - enc[m]) <= Tolerance * Cardinality(DoneOf(m)')
    BY <1>1 DEF LagInv
<1>3. CASE m # mi
  <2>1. goal'[m] = goal[m]
        BY <1>2, <1>3 DEF Works, Begins, Dispatches, Fails, Polls, PoolType
  <2>2. \A j \in DOMAIN pool : pool[j].motor = m => pool'[j] = pool[j]
        BY <1>1, <1>3
  <2>3. DoneOf(m)' = DoneOf(m)
        BY <1>1, <2>2 DEF DoneOf
  <2>4. \A j \in DOMAIN pool : pool[j].motor = m => pool[j].status \in {"Pending", "Completed"}
        BY <2>2
  <2> QED BY <2>1, <2>3, <2>4 DEF LagInv
<1>4. CASE m = mi
  <2>1. /\ pool[i].status = "Polling" /\ pool'[i].status = "Completed" /\ goal' = goal /\ Near(pool[i])
        BY <1>4 DEF Works, Begins, Dispatches, Fails, Polls
  <2>2. pool[i].status \notin Terminal
        BY <2>1 DEF Terminal
  <2>3. ASSUME NEW j \in Earlier(i) PROVE pool[j].status = "Completed"
    <3>1. j \in DOMAIN pool /\ pool[j].motor = m /\ j # i
          BY <1>4, <2>3, EarlierFinite DEF Earlier
    <3>2. pool[j].status \in Terminal
          BY <2>1, WorkedOn DEF Busy
    <3> QED BY <1>1, <3>1, <3>2 DEF Terminal
  <2>4. DoneOf(m)' = Earlier(i) \cup {i}
    <3>1. \A j \in DOMAIN pool : pool[j].motor = m /\ j # i =>
             (pool[j].status = "Completed" <=> j \in Earlier(i))
          BY <1>4, <2>2, <2>3, FirstOpen
    <3>2. Earlier(i) \subseteq DOMAIN pool /\ \A j \in Earlier(i) : pool[j].motor = m /\ j # i
          BY <1>4, EarlierFinite DEF Earlier
    <3>3. \A j \in DOMAIN pool : pool[j].motor = m /\ j # i => pool'[j].status = pool[j].status
          BY <1>1
    <3> QED BY <1>1, <1>4, <2>1, <3>1, <3>2, <3>3 DEF DoneOf
  <2>5. Cardinality(DoneOf(m)') = Cardinality(Earlier(i)) + 1
        BY <2>4, EarlierFinite, FS_AddElement
  <2>6. pool[i].firm = goal[m] /\ Abs(pool[i].firm - pool[i].target) <= Tolerance * Cardinality(Earlier(i))
        BY <1>4, <2>1, <2>3 DEF ChaseInv
  <2>7. Abs(enc[m] - pool[i].target) <= Tolerance
        BY <1>4, <2>1 DEF Near
  <2>8. goal[m] \in Int /\ enc[m] \in Int /\ pool[i].target \in Int /\ Cardinality(Earlier(i)) \in Nat
        BY <1>2, EarlierFinite DEF PoolType, MoveType
  <2>9. Abs(goal[m] - enc[m]) <= Tolerance * (Cardinality(Earlier(i)) + 1)
        BY <2>6, <2>7, <2>8, Adds
  <2> QED BY <2>1, <2>5, <2>9
<1> QED BY <1>3, <1>4

LEMMA ChaseBegins ==
    ASSUME PoolType, OrderInv, LagInv, NEW i \in DOMAIN pool, Kept(i), Begins(i),
           \A j \in Earlier(i) : pool[j].status = "Completed"
    PROVE  /\ pool'[i].target = pool'[i].e0 + Delta(pool[i])'
           /\ Abs(goal'[pool'[i].motor] - pool'[i].e0) <= Tolerance * Cardinality(Earlier(i))
PROOF
<1> DEFINE m == pool[i].motor
<1>1. pool[i] \in MoveType /\ m \in Motors /\ pool[i].status = "Pending"
      BY MoveOf DEF Begins, Ready, MoveType
<1>2. DoneOf(m) = Earlier(i)
  <2>1. \A j \in DOMAIN pool : pool[j].motor = m /\ j # i =>
           (pool[j].status = "Completed" <=> j \in Earlier(i))
        BY <1>1, FirstOpen DEF Terminal
  <2>2. Earlier(i) \subseteq DOMAIN pool /\ \A j \in Earlier(i) : pool[j].motor = m /\ j # i
        BY EarlierFinite DEF Earlier
  <2> QED BY <1>1, <2>1, <2>2 DEF DoneOf
<1>3. \A j \in DOMAIN pool : pool[j].motor = m => pool[j].status \in {"Pending", "Completed"}
      BY <1>1, FirstOpen DEF Terminal
<1>4. Abs(goal[m] - enc[m]) <= Tolerance * Cardinality(Earlier(i))
      BY <1>1, <1>2, <1>3 DEF LagInv
<1>5. Delta(pool[i])' = Delta(pool[i])
      BY DEF Kept, Delta, AngleToCounts
<1> QED BY <1>4, <1>5 DEF Kept, Begins

LEMMA ChaseWorks ==
    ASSUME PoolType, OrderInv, LagInv, ChaseInv, NEW k \in DOMAIN pool, Works(k)
    PROVE  ChaseInv'
PROOF
<1>1. /\ DOMAIN pool' = DOMAIN pool /\ UNCHANGED <<enc, origin>>
      /\ \A j \in DOMAIN pool : /\ j # k => pool'[j] = pool[j]
                                /\ pool'[j].motor = pool[j].motor /\ pool'[j].angle = pool[j].angle
      BY DEF Works, Kept
<1>2. \A i \in DOMAIN pool : Earlier(i)' = Earlier(i) /\ Delta(pool[i])' = Delta(pool[i])
      BY <1>1 DEF Earlier, Delta, AngleToCounts
<1> SUFFICES ASSUME NEW i \in DOMAIN pool, \A j \in Earlier(i) : pool'[j].status = "Completed"
             PROVE  /\ pool'[i].status = "Dispatching" =>
                         /\ pool'[i].target = pool'[i].e0 + Delta(pool[i])'
                         /\ Abs(goal'[pool'[i].motor] - pool'[i].e0) <= Tolerance * Cardinality(Earlier(i))
                    /\ pool'[i].status = "Polling" => pool'[i].firm = goal'[pool'[i].motor]
                    /\ pool'[i].status \in {"Polling", "Completed"} =>
                         Abs(pool'[i].firm - pool'[i].target) <= Tolerance * Cardinality(Earlier(i))
    BY <1>1, <1>2 DEF ChaseInv
<1> DEFINE m == pool[i].motor
           lag == Tolerance * Cardinality(Earlier(i))
<1>3. pool[k] \in MoveType /\ pool[k].status \notin Terminal
      BY MoveOf DEF Works, Begins, Dispatches, Fails, Polls, Ready, Terminal
<1>4. CASE i # k /\ pool[i].status \in Busy \cup Terminal
  <2>1. pool'[i] = pool[i] /\ pool[i].status # "Pending"
        BY <1>1, <1>4 DEF Busy, Terminal
  <2>2. k \notin Earlier(i)
        BY <1>3, <2>1 DEF OrderInv
  <2>3. \A j \in Earlier(i) : pool[j].status = "Completed"
        BY <1>1, <2>2 DEF Earlier
  <2>4. /\ pool[i].status = "Dispatching" =>
              pool[i].target = pool[i].e0 + Delta(pool[i]) /\ Abs(goal[m] - pool[i].e0) <= lag
        /\ pool[i].status = "Polling" => pool[i].firm = goal[m]
        /\ pool[i].status \in {"Polling", "Completed"} => Abs(pool[i].firm - pool[i].target) <= lag
        BY <2>3 DEF ChaseInv
  <2>5. pool[i].status \in Busy => goal'[m] = goal[m]
    <3> SUFFICES ASSUME pool[i].status \in Busy PROVE goal'[m] = goal[m]
        OBVIOUS
    <3>1. pool[k].motor # m
      <4> SUFFICES ASSUME pool[k].motor = m PROVE FALSE
          OBVIOUS
      <4>1. pool[i].status \notin Terminal
            BY DEF Busy, Terminal
      <4>2. k \in DOMAIN pool /\ k # i /\ pool[k].status = "Pending"
            BY <1>4, <2>2, <2>3, <4>1, FirstOpen
      <4>3. Ready(k)
            BY <4>2 DEF Works, Begins, Dispatches, Fails, Polls
      <4> QED BY <4>3 DEF Ready
    <3>2. m \in Motors /\ pool[k].motor \in Motors
          BY <1>3, MoveOf DEF MoveType
    <3> QED BY <3>1, <3>2 DEF Works, Begins, Dispatches, Fails, Polls, PoolType
  <2> QED BY <1>2, <2>1, <2>4, <2>5 DEF Busy
<1>5. CASE i # k /\ pool[i].status = "Pending"
      BY <1>1, <1>5
<1>6. CASE i = k
  <2>1. \A j \in Earlier(i) : pool[j].status = "Completed"
    <3>1. \A j \in Earlier(i) : j \in DOMAIN pool /\ j # i
          BY EarlierFinite DEF Earlier
    <3> QED BY <1>1, <1>6, <3>1
  <2>2. /\ pool[i].status = "Dispatching" =>
              pool[i].target = pool[i].e0 + Delta(pool[i]) /\ Abs(goal[m] - pool[i].e0) <= lag
        /\ pool[i].status = "Polling" => pool[i].firm = goal[m]
        /\ pool[i].status \in {"Polling", "Completed"} => Abs(pool[i].firm - pool[i].target) <= lag
        BY <2>1 DEF ChaseInv
  <2>3. CASE Begins(i)
    <3>1. /\ pool'[i].target = pool'[i].e0 + Delta(pool[i])'
          /\ Abs(goal'[pool'[i].motor] - pool'[i].e0) <= lag
          BY <1>6, <2>1, <2>3, ChaseBegins DEF Works
    <3> QED BY <2>3, <3>1 DEF Begins
  <2>4. CASE Dispatches(i)
    <3>1. /\ pool[i] \in MoveType /\ m \in Motors /\ goal[m] \in Int /\ Delta(pool[i]) \in Int
          /\ pool[i].e0 \in Int
          BY MoveOf, DeltaType DEF MoveType, PoolType
    <3>2. goal'[m] = goal[m] + Delta(pool[i])
          BY <2>4, <3>1 DEF Dispatches, PoolType
    <3>3. pool'[i].firm = goal'[m] /\ pool'[i].target = pool[i].e0 + Delta(pool[i])
          BY <2>2, <2>4 DEF Dispatches
    <3>4. pool'[i].firm - pool'[i].target = goal[m] - pool[i].e0
          BY <3>1, <3>2, <3>3
    <3> QED BY <1>1, <2>2, <2>4, <3>3, <3>4 DEF Dispatches
  <2>5. CASE Polls(i)
        BY <1>1, <2>2, <2>5 DEF Polls
  <2>6. CASE Fails(i)
        BY <2>6 DEF Fails
  <2> QED BY <1>6, <2>3, <2>4, <2>5, <2>6 DEF Works
<1>7. pool[i].status \in {"Pending"} \cup Busy \cup Terminal
      BY MoveOf DEF MoveType
<1> QED BY <1>4, <1>5, <1>6, <1>7

LEMMA ChaseNext ==
    ASSUME PoolType, OrderInv, OrderInv', LagInv, ChaseInv,
           Builds \/ Idles \/ \E i \in DOMAIN pool : Works(i)
    PROVE  ChaseInv'
PROOF
<1>1. ASSUME \A i \in DOMAIN pool' : pool'[i].status = "Pending" PROVE ChaseInv'
      BY <1>1 DEF ChaseInv
<1>2. CASE Idles
  <2>1. pool' = pool /\ released' = released
        BY <1>2 DEF Idles
  <2>2. CASE released
    <3>1. goal' = goal /\ UNCHANGED origin
      <4>1. goal' = goal
            BY <1>2, <2>2 DEF Idles, Turn
      <4> QED BY <1>2, <4>1 DEF Idles
    <3> QED BY <2>1, <3>1 DEF ChaseInv, Earlier, Delta, AngleToCounts
  <2>3. CASE ~released
        BY <1>1, <2>1, <2>3 DEF OrderInv, Sane
  <2> QED BY <2>2, <2>3
<1> QED BY <1>1, <1>2, ChaseWorks DEF Builds

----------------------------------------------------------------------------
(* The theorems.                                                            *)

PlanInv ==
    /\ ProbeInv /\ (released => probe.i = Samples)
    /\ PoolType /\ OrderInv /\ TriggerInv /\ LagInv /\ ChaseInv

LEMMA PlanInit == Init => PlanInv
PROOF
<1> SUFFICES ASSUME Init PROVE PlanInv
    OBVIOUS
<1>1. ProbeInv
      BY ProbeInit
<1>2. pool = <<>> /\ DOMAIN pool = {} /\ ~released
  <2>1. DOMAIN <<>> = {}
        OBVIOUS
  <2> QED BY <2>1 DEF Init
<1>3. PoolType
  <2>1. <<>> \in Seq(MoveType)
        BY EmptySeq
  <2>2. Uptime \in Nat \ {0} /\ Uptime <= MaxClock /\ Origins \subseteq Int
        BY TimingAssumption, ClockAssumption
  <2>3. now \in Nat \ {0} /\ now <= MaxClock /\ released \in BOOLEAN
        BY <2>2 DEF Init
  <2>4. t90 \in [Motors -> Times \cup {0}] /\ enc \in [Motors -> Int] /\ goal \in [Motors -> Int]
        BY DEF Init
  <2>5. origin \in [Motors -> Int]
        BY <2>2 DEF Init
  <2> QED BY <1>2, <2>1, <2>3, <2>4, <2>5 DEF PoolType
<1>4. LagInv
  <2> SUFFICES ASSUME NEW m \in Motors
               PROVE  Abs(goal[m] - enc[m]) <= Tolerance * Cardinality(DoneOf(m))
      BY DEF LagInv
  <2>1. goal[m] = 0 /\ enc[m] = 0
        BY DEF Init
  <2>2. DoneOf(m) = {} /\ Cardinality(DoneOf(m)) = 0
        BY <1>2, FS_EmptySet DEF DoneOf
  <2>3. Tolerance * 0 = 0
        BY TimingAssumption
  <2> QED BY <2>1, <2>2, <2>3 DEF Abs
<1> QED BY <1>1, <1>2, <1>3, <1>4 DEF PlanInv, OrderInv, TriggerInv, ChaseInv

LEMMA PlanStep == PlanInv /\ [Next]_vars => PlanInv'
PROOF
<1> SUFFICES ASSUME PlanInv, [Next]_vars PROVE PlanInv'
    OBVIOUS
<1>1. /\ ProbeInv /\ (released => probe.i = Samples)
      /\ PoolType /\ OrderInv /\ TriggerInv /\ LagInv /\ ChaseInv
      BY DEF PlanInv
<1>2. ProbeInv'
      BY <1>1, ProbeNext
<1>3. /\ PoolType' /\ OrderInv' /\ (released => probe.i = Samples)'
      /\ Builds \/ Idles \/ \E i \in DOMAIN pool : Works(i)
      BY <1>1, PlanNext
<1>4. TriggerInv'
      BY <1>1, <1>3, TriggerNext
<1>5. LagInv'
      BY <1>1, <1>3, LagBuilds, LagIdles, LagWorks
<1>6. ChaseInv'
      BY <1>1, <1>3, ChaseNext
<1> QED BY <1>2, <1>3, <1>4, <1>5, <1>6 DEF PlanInv

\* wait_for_trigger() (scheduler.hpp:638-693) does not let a move start before
\* the offset the client gave it: whatever the clock read when the plan was
\* built, however many moves refer to one another, whatever their durations,
\* measured, given or the default, and whatever fails.  It holds while no
\* duration reaches the end of the clock's word (ClockAssumption).
THEOREM TriggersAreKept == Spec => []NotBeforeOffset
PROOF
<1>1. PlanInv => NotBeforeOffset
  <2> SUFFICES ASSUME TriggerInv PROVE NotBeforeOffset
      BY DEF PlanInv
  <2> QED BY DEF TriggerInv, NotBeforeOffset, ResolvedAt, Offset, OnTime
<1> QED BY <1>1, PlanInit, PlanStep, PTL DEF Spec

\* process_move() (scheduler.hpp:534-632) takes its moves from the encoder and
\* the firmware from its own goal; the two differ by no more than the tolerance
\* of each earlier move of the motor, however many there are, whatever the
\* tolerance, and wherever the encoder is when each of them begins.
THEOREM RotationsAreKept == Spec => []NoRotationLost
PROOF
<1>1. PlanInv => NoRotationLost
  <2> SUFFICES ASSUME ChaseInv PROVE NoRotationLost
      BY DEF PlanInv
  <2> QED BY DEF ChaseInv, NoRotationLost
<1> QED BY <1>1, PlanInit, PlanStep, PTL DEF Spec
=============================================================================
