-------------------------- MODULE SchedulerProofs --------------------------
(***************************************************************************)
(* Proofs about Scheduler, for any motors, moves, plans and aborts; and     *)
(* that it implements PlanExecution.                                        *)
(***************************************************************************)
EXTENDS PlanRefinement, TLAPS

InFlight == {"WaitingDeps", "Dispatching", "Polling"}

\* Type correctness needs the counters of the polling loop to be below their
\* limits inside it, and the move abort() is about to mark to be a move.
TypeInv ==
    /\ TypeOK
    /\ \A m \in Motors :
          worker[m] = "polling" => inWindow[m] < Window /\ errors[m] <= MaxConsecErrors
    /\ aborter = "storing" => victim \in Moves

\* Moves not submitted yet are as Init left them; a queue holds moves of the
\* pool and of its motor; a worker processes a move of its motor; abort() marks
\* a move of the pool.
OwnershipInv ==
    /\ \A i \in Moves : i > submitted => status[i] = "Pending"
    /\ \A i \in Moves : i <= submitted => owner[i] \in Motors
    /\ \A m \in Motors : \A i \in queue[m] : i \in Pool /\ owner[i] = m
    /\ \A m \in Motors :
          Processing(m) => cur[m] \in 1..submitted /\ owner[cur[m]] = m
    /\ aborter = "storing" => victim \in Pool

\* A move in flight is the one its motor's worker processes; a Pending one is
\* in its motor's queue, and there is none once run() has seen them all end.
FlightInv ==
    /\ \A i \in Pool : status[i] \in InFlight =>
          Processing(owner[i]) /\ cur[owner[i]] = i
    /\ \A i \in Pool : status[i] = "Pending" => i \in queue[owner[i]]
    /\ main = "collect" => \A i \in Pool : status[i] # "Pending"

\* A move goes out once, after its pickup.
SentInv ==
    /\ \A i \in Moves : sent[i] <= 1
    /\ \A i \in Moves : status[i] = "Pending" => sent[i] = 0
    /\ \A m \in Motors :
          worker[m] \in {"waiting", "reading", "sending"} => sent[cur[m]] = 0

\* Around the move that a worker processes: the earlier ones of its motor have
\* ended and the later ones have not gone out.
OrderInv ==
    /\ FifoPerMotor
    /\ \A m \in Motors : \A i \in Pool :
          Processing(m) /\ owner[i] = m /\ i < cur[m] => status[i] \in Terminal
    /\ \A m \in Motors : \A j \in Moves :
          Processing(m) /\ owner[j] = m /\ j > cur[m] => sent[j] = 0

SafeInv == OwnershipInv /\ FlightInv /\ SentInv /\ OrderInv

\* The client's position against the flags and the plans.
ClientInv ==
    /\ aborter # "idle" => aborts > 0
    /\ shutdown <=> main \in {"shutdown", "join", "dead"}
    /\ release => main \in {"poll", "join", "dead"}
    /\ \A i \in 1..submitted : plan[i] \in 1..(runs + 1)
    /\ main \in {"poll", "collect"} => \A i \in Pool : plan[i] <= runs
    /\ runs = 0 =>
          /\ main \notin {"poll", "collect"}
          /\ \A m \in Motors : worker[m] \in {"absent", "idle", "stopped"}
          /\ \A i \in Moves : sent[i] = 0

\* Without abort() a move's status follows the worker that processes it.
StatusInv ==
    aborts = 0 =>
        /\ \A m \in Motors :
              /\ worker[m] = "waiting" => status[cur[m]] = "WaitingDeps"
              /\ worker[m] \in {"reading", "sending"} => status[cur[m]] = "Dispatching"
              /\ worker[m] \in {"polling", "settling"} => status[cur[m]] = "Polling"
        /\ \A i \in Moves : progress[i] > 0 =>
              status[i] \in {"Polling", "Completed", "Failed"}
        /\ \A i \in Moves : started[i] => status[i] \notin {"Pending", "WaitingDeps"}

\* The leader of a move of the first plan that is past its wait.
PastWait(m) == worker[m] \in {"reading", "sending", "polling", "settling"}
TriggerInv ==
    /\ \A i \in Moves : trig[i].kind = "None" => trig[i].ref = 0
    /\ aborts = 0 => \A m \in Motors :
          PastWait(m) /\ plan[cur[m]] = 1 => LeaderAllows(trig[cur[m]])
    /\ TriggerRespected

OutcomeInv ==
    /\ main # "poll" /\ aborts = 0 =>
          \A i \in Pool : plan[i] <= runs => status[i] \in Terminal
    /\ OkMeansCompleted

IInv == TypeInv /\ SafeInv /\ ClientInv /\ StatusInv /\ TriggerInv /\ OutcomeInv

----------------------------------------------------------------------------
(* Type correctness.                                                        *)

LEMMA CountedType ==
  ASSUME NEW S, NEW f \in [S -> Nat], NEW i
  PROVE  [f EXCEPT ![i] = f[i] + 1] \in [S -> Nat]
  <1>1. CASE i \in S
    BY <1>1
  <1>2. CASE i \notin S
    BY <1>2
  <1> QED
    BY <1>1, <1>2

LEMMA TypeInit == Init => TypeInv
  <1> SUFFICES ASSUME Init PROVE TypeInv
    OBVIOUS
  <1>1. trig \in [Moves -> Triggers]
    BY FullAssumption DEF Init, Triggers, NoTrigger, Kinds
  <1>2. status \in [Moves -> Statuses] /\ progress \in [Moves -> 0..Full]
    BY FullAssumption DEF Init, Statuses
  <1>3. /\ inWindow \in [Motors -> 0..Window]
        /\ errors \in [Motors -> 0..(MaxConsecErrors + 1)]
    BY WindowAssumption, ErrorsAssumption DEF Init
  <1>4. /\ submitted \in 0..MaxMoves /\ freed \in 0..submitted
        /\ runs \in 0..MaxRuns /\ aborts \in 0..MaxAborts
        /\ victim \in 0..(MaxMoves + 1)
        /\ plan \in [Moves -> 0..MaxRuns]
    BY BoundsAssumption DEF Init
  <1>5. TypeOK
    BY <1>1, <1>2, <1>3, <1>4 DEF Init, TypeOK
  <1> QED
    BY <1>5 DEF Init, TypeInv

LEMMA TypeStep == TypeInv /\ [Next]_vars => TypeInv'
  <1> SUFFICES ASSUME TypeInv, [Next]_vars PROVE TypeInv'
    OBVIOUS
  <1> USE DEF TypeInv, TypeOK, moveVars, schedVars, mainVars, workerVars, abortVars
  <1>1. ASSUME NEW m \in Motors, Add(m) PROVE TypeInv'
    BY <1>1 DEF Add, InProcess, Building
  <1>2. ASSUME NEW m \in Motors, Move(m) PROVE TypeInv'
    <2>1. submitted' \in 0..MaxMoves /\ submitted' \in Moves /\ freed' \in 0..submitted'
      BY <1>2, BoundsAssumption DEF Move, Moves
    <2>2. trig' \in [Moves -> Triggers]
      <3> DEFINE t == [kind |-> "AfterCompleted", ref |-> last[m], val |-> 0]
      <3>1. t \in Triggers /\ NoTrigger \in Triggers
        BY FullAssumption DEF Triggers, Kinds, NoTrigger
      <3> QED
        BY <1>2, <3>1 DEF Move
    <2>3. plan' \in [Moves -> 0..MaxRuns]
      <3>1. runs + 1 \in 0..MaxRuns
        BY <1>2, BoundsAssumption DEF Move
      <3>2. plan' = [plan EXCEPT ![submitted + 1] = runs + 1]
        BY <1>2 DEF Move
      <3> QED
        BY <3>1, <3>2
    <2>4. queue' \in [Motors -> SUBSET Moves] /\ last' \in [Motors -> {0} \cup Moves]
      BY <1>2, <2>1 DEF Move
    <2>5. owner' \in [Moves -> Motors \cup {NoMotor}]
      BY <1>2 DEF Move
    <2>6. UNCHANGED <<freed, status, progress, started, sent, release, shutdown,
                      mainVars, workerVars, abortVars>>
      BY <1>2 DEF Move
    <2> QED
      BY <2>1, <2>2, <2>3, <2>4, <2>5, <2>6
  <1>3. ASSUME NEW i \in Moves, NEW t \in Triggers, SetTrigger(i, t) PROVE TypeInv'
    BY <1>3 DEF SetTrigger, Building
  <1>4. CASE Run
    BY <1>4, BoundsAssumption DEF Run, Building
  <1>5. CASE SeesAllDone
    BY <1>5 DEF SeesAllDone
  <1>6. CASE Collect
    BY <1>6 DEF Collect
  <1>7. CASE Reset
    BY <1>7, BoundsAssumption DEF Reset, Building
  <1>8. CASE Shutdown
    BY <1>8 DEF Shutdown, Building
  <1>9. CASE ReleaseAll
    BY <1>9 DEF ReleaseAll
  <1>10. CASE Join
    BY <1>10 DEF Join
  <1>11. ASSUME NEW m \in Motors, Enter(m) PROVE TypeInv'
    BY <1>11 DEF Enter, Goto, InProcess
  <1>12. ASSUME NEW m \in Motors, Leave(m) PROVE TypeInv'
    BY <1>12 DEF Leave, Goto, InProcess
  <1>13. ASSUME NEW m \in Motors, Pickup(m) PROVE TypeInv'
    BY <1>13 DEF Pickup, Goto, InProcess, SetStatus, Statuses
  <1>14. ASSUME NEW m \in Motors, ScanFindsNone(m) PROVE TypeInv'
    BY <1>14 DEF ScanFindsNone, Goto, InProcess
  <1>15. ASSUME NEW m \in Motors, BeginDispatch(m) PROVE TypeInv'
    BY <1>15 DEF BeginDispatch, Goto, InProcess, SetStatus, Statuses
  <1>16. ASSUME NEW m \in Motors, ReadStart(m) PROVE TypeInv'
    BY <1>16 DEF ReadStart, Goto, InProcess
  <1>17. ASSUME NEW m \in Motors, ReadStartFails(m) PROVE TypeInv'
    BY <1>17 DEF ReadStartFails, Goto, InProcess, SetStatus, Statuses
  <1>18. ASSUME NEW m \in Motors, Send(m) PROVE TypeInv'
    <2>1. /\ 0 \in 0..Window /\ 0 < Window
          /\ 0 \in 0..(MaxConsecErrors + 1) /\ 0 <= MaxConsecErrors
      BY WindowAssumption, ErrorsAssumption
    <2>2. sent' \in [Moves -> Nat]
      BY <1>18, CountedType DEF Send
    <2> QED
      BY <1>18, <2>1, <2>2 DEF Send, Goto, InProcess, SetStatus, Statuses
  <1>19. ASSUME NEW m \in Motors, SendFails(m) PROVE TypeInv'
    <2>1. sent' \in [Moves -> Nat]
      BY <1>19, CountedType DEF SendFails
    <2> QED
      BY <1>19, <2>1 DEF SendFails, Goto, InProcess, SetStatus, Statuses
  <1>20. ASSUME NEW m \in Motors, PollFar(m) PROVE TypeInv'
    <2>1. PICK p \in 0..Full : progress' = [progress EXCEPT ![cur[m]] = p]
      BY <1>20 DEF PollFar
    <2>2. progress' \in [Moves -> 0..Full]
      BY <2>1
    <2>3. 0 \in 0..Window /\ 0 < Window /\ 0 \in 0..(MaxConsecErrors + 1) /\ 0 <= MaxConsecErrors
      BY WindowAssumption, ErrorsAssumption
    <2> QED
      BY <1>20, <2>2, <2>3 DEF PollFar
  <1>21. ASSUME NEW m \in Motors, PollNear(m) PROVE TypeInv'
    <2>1. progress' \in [Moves -> 0..Full]
      BY <1>21, FullAssumption DEF PollNear
    <2>2. 0 \in 0..(MaxConsecErrors + 1) /\ 0 <= MaxConsecErrors
      BY ErrorsAssumption
    <2>3. inWindow' \in [Motors -> 0..Window]
      BY <1>21, WindowAssumption DEF PollNear
    <2>4. worker' \in [Motors -> InProcess \cup
              {"absent", "idle", "scan", "done", "stopped"}]
      BY <1>21 DEF PollNear, Goto, InProcess
    <2>5. ASSUME NEW k \in Motors, worker'[k] = "polling" PROVE inWindow'[k] < Window
      BY <1>21, <2>5, WindowAssumption DEF PollNear, Goto, Arrived
    <2>6. ASSUME NEW k \in Motors, worker'[k] = "polling" PROVE errors'[k] <= MaxConsecErrors
      BY <1>21, <2>2, <2>6 DEF PollNear, Goto
    <2> QED
      BY <1>21, <2>1, <2>2, <2>3, <2>4, <2>5, <2>6 DEF PollNear
  <1>22. ASSUME NEW m \in Motors, PollError(m) PROVE TypeInv'
    BY <1>22, ErrorsAssumption DEF PollError, Goto, InProcess, SetStatus, Statuses
  <1>23. ASSUME NEW m \in Motors, PollTimeout(m) PROVE TypeInv'
    BY <1>23 DEF PollTimeout, Goto, InProcess, SetStatus, Statuses
  <1>24. ASSUME NEW m \in Motors, Settle(m) PROVE TypeInv'
    BY <1>24 DEF Settle, Goto, InProcess, SetStatus, Statuses
  <1>25. ASSUME NEW m \in Motors, Rest(m) PROVE TypeInv'
    BY <1>25 DEF Rest, Goto, InProcess
  <1>26. CASE AbortBegin
    BY <1>26, BoundsAssumption DEF AbortBegin
  <1>27. ASSUME NEW m \in Motors, EmergencyStop(m) PROVE TypeInv'
    BY <1>27 DEF EmergencyStop
  <1>28. CASE AbortLoad
    <2>1. victim \in Pool => victim \in Moves /\ victim + 1 \in 0..(MaxMoves + 1)
      BY BoundsAssumption DEF Pool, Moves
    <2>2. 0 \in 0..(MaxMoves + 1)
      BY BoundsAssumption
    <2> QED
      BY <1>28, <2>1, <2>2 DEF AbortLoad
  <1>29. CASE AbortStore
    <2>1. victim + 1 \in 0..(MaxMoves + 1)
      BY <1>29, BoundsAssumption DEF AbortStore, Moves
    <2> QED
      BY <1>29, <2>1 DEF AbortStore, SetStatus, Statuses
  <1>30. CASE UNCHANGED vars
    BY <1>30 DEF vars
  <1>31. QED
    BY <1>1, <1>2, <1>3, <1>4, <1>5, <1>6, <1>7, <1>8, <1>9, <1>10, <1>11,
       <1>12, <1>13, <1>14, <1>15, <1>16, <1>17, <1>18, <1>19, <1>20, <1>21,
       <1>22, <1>23, <1>24, <1>25, <1>26, <1>27, <1>28, <1>29, <1>30
       DEF Next, Client, RunStep, DestroyStep, Worker, Poll, Abort, Terminated

----------------------------------------------------------------------------
(* Order and multiplicity: FIFO per motor, one MOVE per move.               *)

\* What the steps below need of the type invariant.
FifoTypes ==
    /\ submitted \in Nat /\ freed \in Nat /\ freed <= submitted
    /\ Moves \subseteq Nat /\ \A i \in 1..submitted : i \in Moves
    /\ status \in [Moves -> Statuses] /\ sent \in [Moves -> Nat]
    /\ owner \in [Moves -> Motors \cup {NoMotor}]
    /\ queue \in [Motors -> SUBSET Moves]
    /\ worker \in [Motors -> InProcess \cup {"absent", "idle", "scan", "done", "stopped"}]
    /\ cur \in [Motors -> {0} \cup Moves]

LEMMA FifoTypesHold == TypeInv => FifoTypes
  <1> SUFFICES ASSUME TypeInv PROVE FifoTypes
    OBVIOUS
  <1>1. submitted \in Nat /\ freed \in Nat /\ freed <= submitted
    BY BoundsAssumption DEF TypeInv, TypeOK
  <1>2. Moves \subseteq Nat /\ \A i \in 1..submitted : i \in Moves
    BY BoundsAssumption DEF TypeInv, TypeOK, Moves
  <1> QED
    BY <1>1, <1>2 DEF FifoTypes, TypeInv, TypeOK

LEMMA SafeStep == TypeInv /\ TypeInv' /\ SafeInv /\ [Next]_vars => SafeInv'
  <1> SUFFICES ASSUME FifoTypes, FifoTypes', SafeInv, [Next]_vars
               PROVE SafeInv'
    BY FifoTypesHold, PTL
  <1> USE DEF FifoTypes, SafeInv, OwnershipInv, FlightInv, SentInv, OrderInv,
          FifoPerMotor, InFlight, Terminal, InProcess, Processing, Pool, Statuses,
          moveVars, schedVars, mainVars, workerVars, abortVars, Goto, SetStatus
  <1>1. ASSUME NEW m \in Motors, Add(m) PROVE SafeInv'
    BY <1>1 DEF Add
  <1>2. ASSUME NEW m \in Motors, Move(m) PROVE SafeInv'
    <2>1. PICK s \in Moves : s = submitted + 1 /\ submitted' = s
      BY <1>2 DEF Move
    <2>2. /\ owner' = [owner EXCEPT ![s] = m]
          /\ queue' = [queue EXCEPT ![m] = @ \cup {s}]
          /\ UNCHANGED <<freed, status, sent, mainVars, workerVars, abortVars>>
          /\ aborter = "idle" /\ main = "build"
      BY <1>2, <2>1 DEF Move, Building
    <2>3. status[s] = "Pending" /\ sent[s] = 0
      BY <2>1, <2>2
    <2>4. OwnershipInv'
      BY <2>1, <2>2
    <2>5. FlightInv'
      BY <2>1, <2>2
    <2>6. SentInv'
      BY <2>2
    <2>7. OrderInv'
      BY <2>1, <2>2
    <2> QED
      BY <2>4, <2>5, <2>6, <2>7
  <1>3. ASSUME NEW i \in Moves, NEW t \in Triggers, SetTrigger(i, t) PROVE SafeInv'
    BY <1>3 DEF SetTrigger
  <1>4. CASE Run
    BY <1>4 DEF Run
  <1>5. CASE SeesAllDone
    BY <1>5 DEF SeesAllDone
  <1>6. CASE Collect
    BY <1>6 DEF Collect
  <1>7. CASE Reset
    BY <1>7 DEF Reset, Building
  <1>8. CASE Shutdown
    BY <1>8 DEF Shutdown
  <1>9. CASE ReleaseAll
    BY <1>9 DEF ReleaseAll
  <1>10. CASE Join
    BY <1>10 DEF Join
  <1>11. ASSUME NEW m \in Motors, Enter(m) PROVE SafeInv'
    BY <1>11 DEF Enter
  <1>12. ASSUME NEW m \in Motors, Leave(m) PROVE SafeInv'
    BY <1>12 DEF Leave
  <1>13. ASSUME NEW m \in Motors, Pickup(m) PROVE SafeInv'
    <2>1. PICK i \in Moves :
             /\ i \in queue[m] /\ status[i] = "Pending"
             /\ \A j \in queue[m] : status[j] = "Pending" => i <= j
             /\ cur' = [cur EXCEPT ![m] = i]
             /\ status' = [status EXCEPT ![i] = "WaitingDeps"]
      BY <1>13 DEF Pickup, IsFirst, PendingOf
    <2>2. /\ worker[m] = "scan" /\ worker' = [worker EXCEPT ![m] = "waiting"]
          /\ UNCHANGED <<submitted, freed, owner, sent, queue, main, aborter, victim>>
      BY <1>13 DEF Pickup
    <2>3. i \in Pool /\ owner[i] = m /\ i \in 1..submitted
      BY <2>1
    <2>4. OwnershipInv'
      BY <2>1, <2>2, <2>3
    <2>5. FlightInv'
      BY <2>1, <2>2, <2>3
    <2>6. SentInv'
      BY <2>1, <2>2
    <2>7. \A j \in Pool : owner[j] = m /\ j < i => status[j] \in Terminal
      BY <2>1, <2>2
    <2>8. \A j \in Moves : owner[j] = m /\ j > i => sent[j] = 0
      BY <2>1, <2>3
    <2>9. OrderInv'
      BY <2>1, <2>2, <2>3, <2>7, <2>8
    <2> QED
      BY <2>4, <2>5, <2>6, <2>9
  <1>14. ASSUME NEW m \in Motors, ScanFindsNone(m) PROVE SafeInv'
    BY <1>14 DEF ScanFindsNone
  <1>15. ASSUME NEW m \in Motors, BeginDispatch(m) PROVE SafeInv'
    BY <1>15 DEF BeginDispatch
  <1>16. ASSUME NEW m \in Motors, ReadStart(m) PROVE SafeInv'
    BY <1>16 DEF ReadStart
  <1>17. ASSUME NEW m \in Motors, ReadStartFails(m) PROVE SafeInv'
    BY <1>17 DEF ReadStartFails
  <1>18. ASSUME NEW m \in Motors, Send(m) PROVE SafeInv'
    BY <1>18 DEF Send
  <1>19. ASSUME NEW m \in Motors, SendFails(m) PROVE SafeInv'
    BY <1>19 DEF SendFails
  <1>20. ASSUME NEW m \in Motors, PollFar(m) PROVE SafeInv'
    BY <1>20 DEF PollFar
  <1>21. ASSUME NEW m \in Motors, PollNear(m) PROVE SafeInv'
    BY <1>21 DEF PollNear
  <1>22. ASSUME NEW m \in Motors, PollError(m) PROVE SafeInv'
    BY <1>22 DEF PollError
  <1>23. ASSUME NEW m \in Motors, PollTimeout(m) PROVE SafeInv'
    BY <1>23 DEF PollTimeout
  <1>24. ASSUME NEW m \in Motors, Settle(m) PROVE SafeInv'
    BY <1>24 DEF Settle
  <1>25. ASSUME NEW m \in Motors, Rest(m) PROVE SafeInv'
    BY <1>25 DEF Rest
  <1>26. CASE AbortBegin
    BY <1>26 DEF AbortBegin
  <1>27. ASSUME NEW m \in Motors, EmergencyStop(m) PROVE SafeInv'
    BY <1>27 DEF EmergencyStop
  <1>28. CASE AbortLoad
    BY <1>28 DEF AbortLoad
  <1>29. CASE AbortStore
    BY <1>29 DEF AbortStore
  <1>30. CASE UNCHANGED vars
    BY <1>30 DEF vars
  <1>31. QED
    BY <1>1, <1>2, <1>3, <1>4, <1>5, <1>6, <1>7, <1>8, <1>9, <1>10, <1>11,
       <1>12, <1>13, <1>14, <1>15, <1>16, <1>17, <1>18, <1>19, <1>20, <1>21,
       <1>22, <1>23, <1>24, <1>25, <1>26, <1>27, <1>28, <1>29, <1>30
       DEF Next, Client, RunStep, DestroyStep, Worker, Poll, Abort, Terminated

LEMMA SafeInit == Init => SafeInv
  BY BoundsAssumption DEF Init, SafeInv, OwnershipInv, FlightInv, SentInv, OrderInv,
     FifoPerMotor, Processing, InProcess, InFlight, Pool, Moves

\* The type invariant holds for every client and every outcome of the buses.
THEOREM TypeCorrect == Spec => []TypeOK
  <1>1. TypeInv => TypeOK
    BY DEF TypeInv
  <1> QED
    BY <1>1, TypeInit, TypeStep, PTL DEF Spec

\* FIFO per motor holds for every client: any triggers, plans, resets, aborts.
THEOREM MovesOfAMotorInOrder == Spec => []FifoPerMotor
  <1>1. SafeInv => FifoPerMotor
    BY DEF SafeInv, OrderInv
  <1> QED
    BY <1>1, TypeInit, TypeStep, SafeInit, SafeStep, PTL DEF Spec

\* A move is sent at most once, for every client.
THEOREM MoveSentOnce == Spec => []SentAtMostOnce
  <1>1. SafeInv => SentAtMostOnce
    BY DEF SafeInv, SentInv, SentAtMostOnce
  <1> QED
    BY <1>1, TypeInit, TypeStep, SafeInit, SafeStep, PTL DEF Spec

----------------------------------------------------------------------------
(* Plans: triggers, results, outcomes.                                      *)

PlanTypes ==
    /\ runs \in Nat /\ aborts \in Nat
    /\ plan \in [Moves -> Nat]
    /\ trig \in [Moves -> Triggers]
    /\ progress \in [Moves -> 0..Full]

LEMMA PlanTypesHold == TypeInv => PlanTypes
  BY BoundsAssumption DEF TypeInv, TypeOK, PlanTypes

LEMMA ClientStep == TypeInv /\ TypeInv' /\ SafeInv /\ ClientInv /\ [Next]_vars => ClientInv'
  <1> SUFFICES ASSUME FifoTypes, FifoTypes', PlanTypes, PlanTypes',
                      SafeInv, ClientInv, [Next]_vars
               PROVE  ClientInv'
    BY FifoTypesHold, PlanTypesHold, PTL
  <1> USE DEF FifoTypes, PlanTypes, ClientInv, SafeInv, OwnershipInv, SentInv,
          Processing, InProcess, Pool, Terminal, moveVars, schedVars, mainVars, workerVars, abortVars, Goto, SetStatus
  <1>1. ASSUME NEW m \in Motors, Add(m) PROVE ClientInv'
    BY <1>1 DEF Add, Building
  <1>2. ASSUME NEW m \in Motors, Move(m) PROVE ClientInv'
    BY <1>2 DEF Move, Building
  <1>3. ASSUME NEW i \in Moves, NEW t \in Triggers, SetTrigger(i, t) PROVE ClientInv'
    BY <1>3 DEF SetTrigger
  <1>4. CASE Run
    BY <1>4 DEF Run, Building
  <1>5. CASE SeesAllDone
    BY <1>5 DEF SeesAllDone
  <1>6. CASE Collect
    BY <1>6 DEF Collect
  <1>7. CASE Reset
    BY <1>7 DEF Reset, Building
  <1>8. CASE Shutdown
    BY <1>8 DEF Shutdown, Building
  <1>9. CASE ReleaseAll
    BY <1>9 DEF ReleaseAll
  <1>10. CASE Join
    BY <1>10 DEF Join
  <1>11. ASSUME NEW m \in Motors, Enter(m) PROVE ClientInv'
    BY <1>11 DEF Enter
  <1>12. ASSUME NEW m \in Motors, Leave(m) PROVE ClientInv'
    BY <1>12 DEF Leave
  <1>13. ASSUME NEW m \in Motors, Pickup(m) PROVE ClientInv'
    BY <1>13 DEF Pickup
  <1>14. ASSUME NEW m \in Motors, ScanFindsNone(m) PROVE ClientInv'
    BY <1>14 DEF ScanFindsNone
  <1>15. ASSUME NEW m \in Motors, BeginDispatch(m) PROVE ClientInv'
    BY <1>15 DEF BeginDispatch
  <1>16. ASSUME NEW m \in Motors, ReadStart(m) PROVE ClientInv'
    BY <1>16 DEF ReadStart
  <1>17. ASSUME NEW m \in Motors, ReadStartFails(m) PROVE ClientInv'
    BY <1>17 DEF ReadStartFails
  <1>18. ASSUME NEW m \in Motors, Send(m) PROVE ClientInv'
    BY <1>18 DEF Send
  <1>19. ASSUME NEW m \in Motors, SendFails(m) PROVE ClientInv'
    BY <1>19 DEF SendFails
  <1>20. ASSUME NEW m \in Motors, PollFar(m) PROVE ClientInv'
    BY <1>20 DEF PollFar
  <1>21. ASSUME NEW m \in Motors, PollNear(m) PROVE ClientInv'
    BY <1>21 DEF PollNear
  <1>22. ASSUME NEW m \in Motors, PollError(m) PROVE ClientInv'
    BY <1>22 DEF PollError
  <1>23. ASSUME NEW m \in Motors, PollTimeout(m) PROVE ClientInv'
    BY <1>23 DEF PollTimeout
  <1>24. ASSUME NEW m \in Motors, Settle(m) PROVE ClientInv'
    BY <1>24 DEF Settle
  <1>25. ASSUME NEW m \in Motors, Rest(m) PROVE ClientInv'
    BY <1>25 DEF Rest
  <1>26. CASE AbortBegin
    BY <1>26 DEF AbortBegin
  <1>27. ASSUME NEW m \in Motors, EmergencyStop(m) PROVE ClientInv'
    BY <1>27 DEF EmergencyStop
  <1>28. CASE AbortLoad
    BY <1>28 DEF AbortLoad
  <1>29. CASE AbortStore
    BY <1>29 DEF AbortStore
  <1>30. CASE UNCHANGED vars
    BY <1>30 DEF vars
  <1>31. QED
    BY <1>1, <1>2, <1>3, <1>4, <1>5, <1>6, <1>7, <1>8, <1>9, <1>10, <1>11,
       <1>12, <1>13, <1>14, <1>15, <1>16, <1>17, <1>18, <1>19, <1>20, <1>21,
       <1>22, <1>23, <1>24, <1>25, <1>26, <1>27, <1>28, <1>29, <1>30
       DEF Next, Client, RunStep, DestroyStep, Worker, Poll, Abort, Terminated

LEMMA StatusStep == TypeInv /\ TypeInv' /\ SafeInv /\ ClientInv /\ StatusInv /\ [Next]_vars => StatusInv'
  <1> SUFFICES ASSUME FifoTypes, FifoTypes', PlanTypes, PlanTypes',
                      SafeInv, ClientInv, StatusInv, [Next]_vars
               PROVE  StatusInv'
    BY FifoTypesHold, PlanTypesHold, PTL
  <1> USE DEF FifoTypes, PlanTypes, StatusInv, ClientInv, SafeInv, OwnershipInv, Statuses,
          Processing, InProcess, Pool, Terminal, moveVars, schedVars, mainVars, workerVars, abortVars, Goto, SetStatus
  <1>1. ASSUME NEW m \in Motors, Add(m) PROVE StatusInv'
    BY <1>1 DEF Add
  <1>2. ASSUME NEW m \in Motors, Move(m) PROVE StatusInv'
    BY <1>2 DEF Move
  <1>3. ASSUME NEW i \in Moves, NEW t \in Triggers, SetTrigger(i, t) PROVE StatusInv'
    BY <1>3 DEF SetTrigger
  <1>4. CASE Run
    BY <1>4 DEF Run
  <1>5. CASE SeesAllDone
    BY <1>5 DEF SeesAllDone
  <1>6. CASE Collect
    BY <1>6 DEF Collect
  <1>7. CASE Reset
    BY <1>7 DEF Reset
  <1>8. CASE Shutdown
    BY <1>8 DEF Shutdown
  <1>9. CASE ReleaseAll
    BY <1>9 DEF ReleaseAll
  <1>10. CASE Join
    BY <1>10 DEF Join
  <1>11. ASSUME NEW m \in Motors, Enter(m) PROVE StatusInv'
    BY <1>11 DEF Enter
  <1>12. ASSUME NEW m \in Motors, Leave(m) PROVE StatusInv'
    BY <1>12 DEF Leave
  <1>13. ASSUME NEW m \in Motors, Pickup(m) PROVE StatusInv'
    <2>1. PICK i \in Moves :
             /\ i \in queue[m] /\ status[i] = "Pending"
             /\ cur' = [cur EXCEPT ![m] = i]
             /\ status' = [status EXCEPT ![i] = "WaitingDeps"]
      BY <1>13 DEF Pickup, IsFirst, PendingOf
    <2>2. /\ worker[m] = "scan" /\ worker' = [worker EXCEPT ![m] = "waiting"]
          /\ UNCHANGED <<progress, started, aborts>>
      BY <1>13 DEF Pickup
    <2>3. owner[i] = m
      BY <2>1
    <2>4. \A k \in Motors : Processing(k) => cur[k] # i
      BY <2>2, <2>3
    <2>5. aborts = 0 => ~(progress[i] > 0) /\ ~started[i]
      BY <2>1
    <2>6. \A j \in Moves : j # i => status'[j] = status[j]
      BY <2>1
    <2>7. status'[i] = "WaitingDeps"
      BY <2>1
    <2> QED
      BY <2>1, <2>2, <2>4, <2>5, <2>6, <2>7
  <1>14. ASSUME NEW m \in Motors, ScanFindsNone(m) PROVE StatusInv'
    BY <1>14 DEF ScanFindsNone
  <1>15. ASSUME NEW m \in Motors, BeginDispatch(m) PROVE StatusInv'
    BY <1>15 DEF BeginDispatch
  <1>16. ASSUME NEW m \in Motors, ReadStart(m) PROVE StatusInv'
    BY <1>16 DEF ReadStart
  <1>17. ASSUME NEW m \in Motors, ReadStartFails(m) PROVE StatusInv'
    BY <1>17 DEF ReadStartFails
  <1>18. ASSUME NEW m \in Motors, Send(m) PROVE StatusInv'
    BY <1>18 DEF Send
  <1>19. ASSUME NEW m \in Motors, SendFails(m) PROVE StatusInv'
    BY <1>19 DEF SendFails
  <1>20. ASSUME NEW m \in Motors, PollFar(m) PROVE StatusInv'
    BY <1>20 DEF PollFar
  <1>21. ASSUME NEW m \in Motors, PollNear(m) PROVE StatusInv'
    BY <1>21 DEF PollNear
  <1>22. ASSUME NEW m \in Motors, PollError(m) PROVE StatusInv'
    BY <1>22 DEF PollError
  <1>23. ASSUME NEW m \in Motors, PollTimeout(m) PROVE StatusInv'
    BY <1>23 DEF PollTimeout
  <1>24. ASSUME NEW m \in Motors, Settle(m) PROVE StatusInv'
    BY <1>24 DEF Settle
  <1>25. ASSUME NEW m \in Motors, Rest(m) PROVE StatusInv'
    BY <1>25 DEF Rest
  <1>26. CASE AbortBegin
    BY <1>26 DEF AbortBegin
  <1>27. ASSUME NEW m \in Motors, EmergencyStop(m) PROVE StatusInv'
    BY <1>27 DEF EmergencyStop
  <1>28. CASE AbortLoad
    BY <1>28 DEF AbortLoad
  <1>29. CASE AbortStore
    BY <1>29 DEF AbortStore
  <1>30. CASE UNCHANGED vars
    BY <1>30 DEF vars
  <1>31. QED
    BY <1>1, <1>2, <1>3, <1>4, <1>5, <1>6, <1>7, <1>8, <1>9, <1>10, <1>11,
       <1>12, <1>13, <1>14, <1>15, <1>16, <1>17, <1>18, <1>19, <1>20, <1>21,
       <1>22, <1>23, <1>24, <1>25, <1>26, <1>27, <1>28, <1>29, <1>30
       DEF Next, Client, RunStep, DestroyStep, Worker, Poll, Abort, Terminated

LEMMA TriggerStep == TypeInv /\ TypeInv' /\ SafeInv /\ ClientInv /\ StatusInv /\ TriggerInv /\ [Next]_vars => TriggerInv'
  <1> SUFFICES ASSUME FifoTypes, FifoTypes', PlanTypes, PlanTypes',
                      SafeInv, ClientInv, StatusInv, TriggerInv, [Next]_vars
               PROVE  TriggerInv'
    BY FifoTypesHold, PlanTypesHold, PTL
  <1> USE DEF FifoTypes, PlanTypes, TriggerInv, TriggerRespected, LeaderAllows, StatusInv, ClientInv, SafeInv, OwnershipInv, SentInv, Statuses, PastWait,
          Processing, InProcess, Pool, Terminal, moveVars, schedVars, mainVars, workerVars, abortVars, Goto, SetStatus
  <1>1. ASSUME NEW m \in Motors, Add(m) PROVE TriggerInv'
    BY <1>1 DEF Add
  <1>2. ASSUME NEW m \in Motors, Move(m) PROVE TriggerInv'
    <2>1. PICK s \in Moves : s = submitted + 1
      BY <1>2 DEF Move
    <2>2. /\ plan' = [plan EXCEPT ![s] = runs + 1]
          /\ trig' = [trig EXCEPT ![s] = trig'[s]]
          /\ trig'[s].kind = "None" => trig'[s].ref = 0
          /\ UNCHANGED <<status, progress, started, sent, worker, cur, aborts>>
      BY <1>2, <2>1 DEF Move, NoTrigger
    <2>3. sent[s] = 0
      BY <2>1
    <2>4. \A k \in Motors : PastWait(k) => cur[k] \in Moves /\ cur[k] # s
      BY <2>1 DEF PastWait
    <2>5. \A j \in Moves : j # s => trig'[j] = trig[j] /\ plan'[j] = plan[j]
      BY <2>2
    <2> QED
      BY <2>2, <2>3, <2>4, <2>5
  <1>3. ASSUME NEW i \in Moves, NEW t \in Triggers, SetTrigger(i, t) PROVE TriggerInv'
    <2>1. /\ plan[i] = runs + 1 /\ t.kind # "None"
          /\ trig' = [trig EXCEPT ![i] = t]
          /\ UNCHANGED <<status, started, plan, sent, worker, cur, aborts, runs>>
      BY <1>3, OperatorsAssumption DEF SetTrigger
    <2>2. \A j \in Moves : trig'[j].kind = "None" => trig'[j].ref = 0
      BY <2>1
    <2>3. CASE runs = 0
      BY <2>1, <2>2, <2>3
    <2>4. CASE runs # 0
      <3>1. plan[i] # 1
        BY <2>1, <2>4
      <3>2. \A j \in Moves : plan[j] = 1 => trig'[j] = trig[j]
        BY <2>1, <3>1
      <3>3. \A k \in Motors : PastWait(k) => cur[k] \in Moves
        BY DEF PastWait
      <3> QED
        BY <2>1, <2>2, <3>2, <3>3
    <2> QED
      BY <2>3, <2>4
  <1>4. CASE Run
    BY <1>4 DEF Run
  <1>5. CASE SeesAllDone
    BY <1>5 DEF SeesAllDone
  <1>6. CASE Collect
    BY <1>6 DEF Collect
  <1>7. CASE Reset
    BY <1>7 DEF Reset
  <1>8. CASE Shutdown
    BY <1>8 DEF Shutdown
  <1>9. CASE ReleaseAll
    BY <1>9 DEF ReleaseAll
  <1>10. CASE Join
    BY <1>10 DEF Join
  <1>11. ASSUME NEW m \in Motors, Enter(m) PROVE TriggerInv'
    BY <1>11 DEF Enter
  <1>12. ASSUME NEW m \in Motors, Leave(m) PROVE TriggerInv'
    BY <1>12 DEF Leave
  <1>13. ASSUME NEW m \in Motors, Pickup(m) PROVE TriggerInv'
    <2>1. PICK i \in Moves :
             /\ i \in queue[m] /\ status[i] = "Pending"
             /\ cur' = [cur EXCEPT ![m] = i]
             /\ status' = [status EXCEPT ![i] = "WaitingDeps"]
      BY <1>13 DEF Pickup, IsFirst, PendingOf
    <2>2. /\ worker[m] = "scan" /\ worker' = [worker EXCEPT ![m] = "waiting"]
          /\ UNCHANGED <<trig, plan, sent, started, progress, aborts>>
      BY <1>13 DEF Pickup
    <2>3. owner[i] = m
      BY <2>1
    <2>4. \A k \in Motors : Processing(k) => cur[k] # i
      BY <2>2, <2>3
    <2>5. \A k \in Motors : PastWait(k)' => PastWait(k) /\ cur'[k] = cur[k]
      BY <2>1, <2>2
    <2>6. \A j \in Moves : trig[j].ref = i /\ LeaderAllows(trig[j]) => LeaderAllows(trig[j])'
      BY <2>1, <2>2
    <2>7. \A j \in Moves : LeaderAllows(trig[j]) => LeaderAllows(trig[j])'
      BY <2>1, <2>2, <2>6
    <2> QED
      BY <2>1, <2>2, <2>5, <2>7
  <1>14. ASSUME NEW m \in Motors, ScanFindsNone(m) PROVE TriggerInv'
    BY <1>14 DEF ScanFindsNone
  <1>15. ASSUME NEW m \in Motors, BeginDispatch(m) PROVE TriggerInv'
    <2>1. /\ worker[m] = "waiting" /\ cur[m] \in Moves
          /\ status' = [status EXCEPT ![cur[m]] = "Dispatching"]
          /\ worker' = [worker EXCEPT ![m] = "reading"]
          /\ UNCHANGED <<trig, plan, sent, started, progress, cur, aborts>>
      BY <1>15 DEF BeginDispatch
    <2>2. aborts = 0 => LeaderAllows(trig[cur[m]])
      <3> DEFINE t == trig[cur[m]]
      <3>1. /\ TriggerMet(t)
            /\ t \in Triggers
            /\ t.kind = "None" => t.ref = 0
        BY <1>15, <2>1 DEF BeginDispatch
      <3>2. t.ref \in {0} \cup Moves /\ t.val \in 0..Full
        BY <3>1 DEF Triggers
      <3> HIDE DEF t
      <3>3. aborts = 0 /\ t.ref # 0 /\ t.val > 0 /\ progress[t.ref] >= t.val =>
               status[t.ref] \in {"Polling", "Completed", "Failed"}
        <4>1. t.ref # 0 => progress[t.ref] \in 0..Full
          BY <3>2
        <4>2. t.ref # 0 /\ t.val > 0 /\ progress[t.ref] >= t.val => progress[t.ref] > 0
          BY <3>2, <4>1, FullAssumption
        <4>3. \A j \in Moves : aborts = 0 /\ progress[j] > 0 =>
                 status[j] \in {"Polling", "Completed", "Failed"}
          OBVIOUS
        <4> QED
          BY <3>2, <4>2, <4>3
      <3>4. aborts = 0 => LeaderAllows(t)
        BY <3>1, <3>2, <3>3, FullAssumption DEF TriggerMet
      <3> QED
        BY <3>4 DEF t
    <2>3. \A j \in Moves : aborts = 0 /\ LeaderAllows(trig[j]) => LeaderAllows(trig[j])'
      BY <2>1
    <2> QED
      BY <2>1, <2>2, <2>3
  <1>16. ASSUME NEW m \in Motors, ReadStart(m) PROVE TriggerInv'
    BY <1>16 DEF ReadStart
  <1>17. ASSUME NEW m \in Motors, ReadStartFails(m) PROVE TriggerInv'
    BY <1>17 DEF ReadStartFails
  <1>18. ASSUME NEW m \in Motors, Send(m) PROVE TriggerInv'
    BY <1>18 DEF Send
  <1>19. ASSUME NEW m \in Motors, SendFails(m) PROVE TriggerInv'
    BY <1>19 DEF SendFails
  <1>20. ASSUME NEW m \in Motors, PollFar(m) PROVE TriggerInv'
    BY <1>20 DEF PollFar
  <1>21. ASSUME NEW m \in Motors, PollNear(m) PROVE TriggerInv'
    BY <1>21 DEF PollNear
  <1>22. ASSUME NEW m \in Motors, PollError(m) PROVE TriggerInv'
    <2>1. /\ worker[m] = "polling" /\ cur[m] \in Moves
          /\ status' \in {status, [status EXCEPT ![cur[m]] = "Failed"]}
          /\ worker' \in {worker, [worker EXCEPT ![m] = "done"]}
          /\ UNCHANGED <<trig, plan, sent, started, progress, cur, aborts>>
      BY <1>22 DEF PollError
    <2>2. \A j \in Moves : aborts = 0 /\ LeaderAllows(trig[j]) => LeaderAllows(trig[j])'
      <3>1. aborts = 0 => status[cur[m]] = "Polling"
        BY <2>1
      <3> SUFFICES ASSUME NEW j \in Moves, aborts = 0, LeaderAllows(trig[j])
                   PROVE  LeaderAllows(trig[j])'
        OBVIOUS
      <3>2. CASE UNCHANGED status
        BY <2>1, <3>2
      <3>3. CASE status' = [status EXCEPT ![cur[m]] = "Failed"]
        BY <2>1, <3>1, <3>3
      <3> QED
        BY <2>1, <3>2, <3>3
    <2>3. \A k \in Motors : PastWait(k)' => PastWait(k) /\ cur[k] \in Moves
      BY <2>1
    <2> QED
      BY <2>1, <2>2, <2>3
  <1>23. ASSUME NEW m \in Motors, PollTimeout(m) PROVE TriggerInv'
    BY <1>23 DEF PollTimeout
  <1>24. ASSUME NEW m \in Motors, Settle(m) PROVE TriggerInv'
    BY <1>24 DEF Settle
  <1>25. ASSUME NEW m \in Motors, Rest(m) PROVE TriggerInv'
    BY <1>25 DEF Rest
  <1>26. CASE AbortBegin
    BY <1>26 DEF AbortBegin
  <1>27. ASSUME NEW m \in Motors, EmergencyStop(m) PROVE TriggerInv'
    BY <1>27 DEF EmergencyStop
  <1>28. CASE AbortLoad
    BY <1>28 DEF AbortLoad
  <1>29. CASE AbortStore
    BY <1>29 DEF AbortStore
  <1>30. CASE UNCHANGED vars
    BY <1>30 DEF vars
  <1>31. QED
    BY <1>1, <1>2, <1>3, <1>4, <1>5, <1>6, <1>7, <1>8, <1>9, <1>10, <1>11,
       <1>12, <1>13, <1>14, <1>15, <1>16, <1>17, <1>18, <1>19, <1>20, <1>21,
       <1>22, <1>23, <1>24, <1>25, <1>26, <1>27, <1>28, <1>29, <1>30
       DEF Next, Client, RunStep, DestroyStep, Worker, Poll, Abort, Terminated

LEMMA OutcomeStep == TypeInv /\ TypeInv' /\ SafeInv /\ ClientInv /\ StatusInv /\ OutcomeInv /\ [Next]_vars => OutcomeInv'
  <1> SUFFICES ASSUME FifoTypes, FifoTypes', PlanTypes, PlanTypes',
                      SafeInv, ClientInv, StatusInv, OutcomeInv, [Next]_vars
               PROVE  OutcomeInv'
    BY FifoTypesHold, PlanTypesHold, PTL
  <1> USE DEF FifoTypes, PlanTypes, OutcomeInv, OkMeansCompleted, StatusInv, ClientInv, SafeInv, OwnershipInv, Statuses,
          Processing, InProcess, Pool, Terminal, moveVars, schedVars, mainVars, workerVars, abortVars, Goto, SetStatus
  <1>1. ASSUME NEW m \in Motors, Add(m) PROVE OutcomeInv'
    BY <1>1 DEF Add
  <1>2. ASSUME NEW m \in Motors, Move(m) PROVE OutcomeInv'
    BY <1>2 DEF Move, Building
  <1>3. ASSUME NEW i \in Moves, NEW t \in Triggers, SetTrigger(i, t) PROVE OutcomeInv'
    BY <1>3 DEF SetTrigger
  <1>4. CASE Run
    BY <1>4 DEF Run, Building
  <1>5. CASE SeesAllDone
    BY <1>5 DEF SeesAllDone
  <1>6. CASE Collect
    BY <1>6 DEF Collect, FailedMoves
  <1>7. CASE Reset
    BY <1>7 DEF Reset, Building
  <1>8. CASE Shutdown
    BY <1>8 DEF Shutdown, Building
  <1>9. CASE ReleaseAll
    BY <1>9 DEF ReleaseAll
  <1>10. CASE Join
    BY <1>10 DEF Join
  <1>11. ASSUME NEW m \in Motors, Enter(m) PROVE OutcomeInv'
    BY <1>11 DEF Enter
  <1>12. ASSUME NEW m \in Motors, Leave(m) PROVE OutcomeInv'
    BY <1>12 DEF Leave
  <1>13. ASSUME NEW m \in Motors, Pickup(m) PROVE OutcomeInv'
    <2>1. PICK i \in Moves :
             /\ i \in queue[m] /\ status[i] = "Pending"
             /\ cur' = [cur EXCEPT ![m] = i]
             /\ status' = [status EXCEPT ![i] = "WaitingDeps"]
      BY <1>13 DEF Pickup, IsFirst, PendingOf
    <2>2. /\ worker[m] = "scan" /\ worker' = [worker EXCEPT ![m] = "waiting"]
          /\ UNCHANGED <<main, result, submitted, freed, plan, runs, aborts>>
      BY <1>13 DEF Pickup
    <2>3. owner[i] = m
      BY <2>1
    <2>4. \A k \in Motors : Processing(k) => cur[k] # i
      BY <2>2, <2>3
    <2>5. main # "poll" /\ aborts = 0 => plan[i] > runs
      BY <2>1
    <2> QED
      BY <2>1, <2>2, <2>5
  <1>14. ASSUME NEW m \in Motors, ScanFindsNone(m) PROVE OutcomeInv'
    BY <1>14 DEF ScanFindsNone
  <1>15. ASSUME NEW m \in Motors, BeginDispatch(m) PROVE OutcomeInv'
    BY <1>15 DEF BeginDispatch
  <1>16. ASSUME NEW m \in Motors, ReadStart(m) PROVE OutcomeInv'
    BY <1>16 DEF ReadStart
  <1>17. ASSUME NEW m \in Motors, ReadStartFails(m) PROVE OutcomeInv'
    BY <1>17 DEF ReadStartFails
  <1>18. ASSUME NEW m \in Motors, Send(m) PROVE OutcomeInv'
    BY <1>18 DEF Send
  <1>19. ASSUME NEW m \in Motors, SendFails(m) PROVE OutcomeInv'
    BY <1>19 DEF SendFails
  <1>20. ASSUME NEW m \in Motors, PollFar(m) PROVE OutcomeInv'
    BY <1>20 DEF PollFar
  <1>21. ASSUME NEW m \in Motors, PollNear(m) PROVE OutcomeInv'
    BY <1>21 DEF PollNear
  <1>22. ASSUME NEW m \in Motors, PollError(m) PROVE OutcomeInv'
    BY <1>22 DEF PollError
  <1>23. ASSUME NEW m \in Motors, PollTimeout(m) PROVE OutcomeInv'
    BY <1>23 DEF PollTimeout
  <1>24. ASSUME NEW m \in Motors, Settle(m) PROVE OutcomeInv'
    BY <1>24 DEF Settle
  <1>25. ASSUME NEW m \in Motors, Rest(m) PROVE OutcomeInv'
    BY <1>25 DEF Rest
  <1>26. CASE AbortBegin
    BY <1>26 DEF AbortBegin
  <1>27. ASSUME NEW m \in Motors, EmergencyStop(m) PROVE OutcomeInv'
    BY <1>27 DEF EmergencyStop
  <1>28. CASE AbortLoad
    BY <1>28 DEF AbortLoad
  <1>29. CASE AbortStore
    BY <1>29 DEF AbortStore
  <1>30. CASE UNCHANGED vars
    BY <1>30 DEF vars
  <1>31. QED
    BY <1>1, <1>2, <1>3, <1>4, <1>5, <1>6, <1>7, <1>8, <1>9, <1>10, <1>11,
       <1>12, <1>13, <1>14, <1>15, <1>16, <1>17, <1>18, <1>19, <1>20, <1>21,
       <1>22, <1>23, <1>24, <1>25, <1>26, <1>27, <1>28, <1>29, <1>30
       DEF Next, Client, RunStep, DestroyStep, Worker, Poll, Abort, Terminated

PlanInv == ClientInv /\ StatusInv /\ TriggerInv /\ OutcomeInv

LEMMA PlanInit == Init => PlanInv
  <1> SUFFICES ASSUME Init PROVE PlanInv
    OBVIOUS
  <1> USE BoundsAssumption, FullAssumption DEF Init, Moves
  <1>1. ClientInv
    BY DEF ClientInv
  <1>2. StatusInv
    BY DEF StatusInv
  <1>3. TriggerInv
    BY DEF TriggerInv, TriggerRespected, PastWait, NoTrigger
  <1>4. OutcomeInv
    BY DEF OutcomeInv, OkMeansCompleted, Pool
  <1> QED
    BY <1>1, <1>2, <1>3, <1>4 DEF PlanInv

LEMMA Inductive == Spec => []IInv
  <1>1. Init => IInv
    BY TypeInit, SafeInit, PlanInit DEF PlanInv, IInv
  <1>2. IInv /\ [Next]_vars => IInv'
    BY TypeStep, SafeStep, ClientStep, StatusStep, TriggerStep, OutcomeStep DEF IInv
  <1> QED
    BY <1>1, <1>2, PTL DEF Spec

\* A move of the first plan goes out only after its leader allows it, for every
\* plan a client can build.
THEOREM TriggersAreRespected == Spec => []TriggerRespected
  <1>1. IInv => TriggerRespected
    BY DEF IInv, TriggerInv
  <1> QED
    BY <1>1, Inductive, PTL

\* A first plan that is never run moves nothing, whenever the scheduler is
\* destroyed.
THEOREM UnrunPlanMovesNothing == Spec => []UnrunPlanStaysPut
  <1>1. IInv => UnrunPlanStaysPut
    BY BoundsAssumption DEF IInv, ClientInv, UnrunPlanStaysPut, TypeInv, TypeOK
  <1> QED
    BY <1>1, Inductive, PTL

\* When run() has seen its plan end, nothing of it is left with a worker.
THEOREM NothingIsLeftBehind == Spec => []RunLeavesNothingBehind
  <1>1. ASSUME IInv PROVE RunLeavesNothingBehind
    <2>1. FifoTypes /\ PlanTypes
      BY <1>1, FifoTypesHold, PlanTypesHold DEF IInv
    <2>2. ASSUME main # "poll", aborts = 0, NEW m \in Motors, Processing(m), cur[m] \in Pool
          PROVE  plan[cur[m]] > runs
      <3>1. status[cur[m]] \notin Terminal
        BY <1>1, <2>2 DEF IInv, StatusInv, Processing, InProcess, Terminal
      <3>2. cur[m] \in Moves
        BY <1>1, <2>1, <2>2 DEF IInv, SafeInv, OwnershipInv, FifoTypes
      <3>3. ~(plan[cur[m]] <= runs)
        BY <1>1, <2>2, <3>1 DEF IInv, OutcomeInv
      <3> QED
        BY <2>1, <3>2, <3>3 DEF PlanTypes
    <2> QED
      BY <1>1, <2>2 DEF IInv, OutcomeInv, RunLeavesNothingBehind
  <1> QED
    BY <1>1, Inductive, PTL

\* OK is not returned over a failure.
THEOREM OkIsTrue == Spec => []OkMeansCompleted
  <1>1. IInv => OkMeansCompleted
    BY DEF IInv, OutcomeInv
  <1> QED
    BY <1>1, Inductive, PTL

LEMMA TerminalStep ==
    IInv /\ [Next]_vars =>
        \A i \in Moves : aborts = 0 /\ status[i] \in Terminal => status'[i] = status[i]
  <1> SUFFICES ASSUME IInv, [Next]_vars, NEW i \in Moves, aborts = 0,
                      status[i] \in Terminal
               PROVE  status'[i] = status[i]
    OBVIOUS
  <1>1. status \in [Moves -> Statuses]
    BY DEF IInv, TypeInv, TypeOK
  <1>2. \A m \in Motors : Processing(m) => cur[m] # i
    BY DEF IInv, StatusInv, Processing, InProcess, Terminal
  <1>3. ASSUME NEW m \in Motors, Worker(m) PROVE status'[i] = status[i]
    <2> USE <1>1, <1>2 DEF Processing, InProcess, SetStatus, moveVars
    <2>1. CASE Pickup(m)
      BY <2>1 DEF Pickup, IsFirst, PendingOf, Terminal
    <2>2. CASE BeginDispatch(m)
      BY <2>2 DEF BeginDispatch
    <2>3. CASE ReadStartFails(m) \/ Send(m) \/ SendFails(m)
      BY <2>3 DEF ReadStartFails, Send, SendFails
    <2>4. CASE PollError(m) \/ PollTimeout(m) \/ Settle(m)
      BY <2>4 DEF PollError, PollTimeout, Settle
    <2>5. CASE Enter(m) \/ Leave(m) \/ ScanFindsNone(m) \/ Rest(m)
      BY <2>5 DEF Enter, Leave, ScanFindsNone, Rest
    <2>6. CASE ReadStart(m) \/ PollFar(m) \/ PollNear(m)
      BY <2>6 DEF ReadStart, PollFar, PollNear
    <2> QED
      BY <1>3, <2>1, <2>2, <2>3, <2>4, <2>5, <2>6 DEF Worker, Poll
  <1>4. CASE Abort
    BY <1>4 DEF Abort, AbortBegin, EmergencyStop, AbortLoad, AbortStore, moveVars,
       IInv, ClientInv
  <1>5. CASE Client
    BY <1>5 DEF Client, RunStep, DestroyStep, Add, Move, SetTrigger, Run, SeesAllDone,
       Collect, Reset, Shutdown, ReleaseAll, Join, moveVars
  <1>6. CASE Terminated \/ UNCHANGED vars
    BY <1>6 DEF Terminated, vars, moveVars
  <1> QED
    BY <1>3, <1>4, <1>5, <1>6 DEF Next

\* Without abort(), the outcome of a move never changes.
THEOREM OutcomesAreFinal == Spec => OutcomeIsFinal
  <1>1. IInv /\ [Next]_vars =>
          [\A i \in Moves :
              aborts = 0 /\ status[i] \in Terminal => status'[i] = status[i]]_vars
    BY TerminalStep
  <1> QED
    BY <1>1, Inductive, PTL DEF Spec, OutcomeIsFinal

\* reset() finds no worker with a move: before the first run() they are at
\* their gates, and after it the moves that were run have ended.
LEMMA ResetFindsNone ==
  ASSUME IInv, ResetSparesProcessed, Reset
  PROVE  \A m \in Motors : ~(Processing(m) /\ plan[cur[m]] = 1 /\ aborts = 0)
  <1> SUFFICES ASSUME NEW m \in Motors, Processing(m), plan[cur[m]] = 1, aborts = 0
               PROVE  FALSE
    OBVIOUS
  <1>1. main = "build"
    BY DEF Reset, Building
  <1>2. CASE runs = 0
    BY <1>2 DEF IInv, ClientInv, Processing, InProcess
  <1>3. CASE runs # 0
    <2>1. cur[m] \in Pool
      BY DEF ResetSparesProcessed, IInv, TypeInv, TypeOK, SafeInv, OwnershipInv, Pool
    <2>2. plan[cur[m]] <= runs
      BY <1>3, BoundsAssumption DEF IInv, TypeInv, TypeOK
    <2>3. status[cur[m]] \in Terminal
      BY <1>1, <2>1, <2>2 DEF IInv, OutcomeInv
    <2> QED
      BY <2>3 DEF IInv, StatusInv, Processing, InProcess, Terminal
  <1> QED
    BY <1>2, <1>3

LEMMA ResetStep == IInv /\ ResetSparesProcessed /\ [Next]_vars => ResetSparesProcessed'
  <1> SUFFICES ASSUME IInv, ResetSparesProcessed, [Next]_vars,
                      NEW m \in Motors, Processing(m)', plan'[cur'[m]] = 1, aborts' = 0
               PROVE  cur'[m] > freed'
    BY DEF ResetSparesProcessed
  <1> USE DEF Processing, InProcess, moveVars, mainVars, workerVars, abortVars, Goto
  <1>1. ASSUME UNCHANGED <<plan, freed, aborts>>, cur'[m] = cur[m], Processing(m)
        PROVE  cur'[m] > freed'
    BY <1>1 DEF ResetSparesProcessed
  <1>2. worker \in [Motors -> InProcess \cup {"absent", "idle", "scan", "done", "stopped"}]
    BY DEF IInv, TypeInv, TypeOK
  <1>3. cur \in [Motors -> {0} \cup Moves]
    BY DEF IInv, TypeInv, TypeOK
  <1>4. ASSUME NEW k \in Motors, Worker(k) PROVE cur'[m] > freed'
    <2>1. UNCHANGED <<plan, freed, aborts>>
      BY <1>4 DEF Worker, Poll, Enter, Leave, Pickup, ScanFindsNone, BeginDispatch, ReadStart,
         ReadStartFails, Send, SendFails, PollFar, PollNear, PollError, PollTimeout, Settle, Rest
    <2>2. CASE Pickup(k) /\ k = m
      <3>1. PICK i \in queue[m] : cur'[m] = i
        BY <1>3, <2>2 DEF Pickup, IsFirst, PendingOf
      <3>2. i \in Pool /\ freed \in Int
        BY <3>1, BoundsAssumption DEF IInv, SafeInv, OwnershipInv, TypeInv, TypeOK
      <3> QED
        BY <2>1, <3>1, <3>2 DEF Pool
    <2>3. CASE Pickup(k) /\ k # m
      BY <1>1, <1>2, <1>3, <2>1, <2>3 DEF Pickup
    <2>4. CASE Enter(k) \/ Leave(k) \/ ScanFindsNone(k) \/ Rest(k)
      BY <1>1, <1>2, <2>1, <2>4 DEF Enter, Leave, ScanFindsNone, Rest
    <2>5. CASE BeginDispatch(k) \/ ReadStart(k) \/ ReadStartFails(k) \/ Send(k) \/ SendFails(k)
      BY <1>1, <1>2, <2>1, <2>5 DEF BeginDispatch, ReadStart, ReadStartFails, Send, SendFails
    <2>6. CASE Poll(k) \/ PollTimeout(k) \/ Settle(k)
      BY <1>1, <1>2, <2>1, <2>6 DEF Poll, PollFar, PollNear, PollError, PollTimeout, Settle
    <2> QED
      BY <1>4, <2>2, <2>3, <2>4, <2>5, <2>6 DEF Worker
  <1>5. CASE Reset
    <2>1. UNCHANGED <<plan, aborts, cur, worker>>
      BY <1>5 DEF Reset
    <2> QED
      BY <1>5, <2>1, ResetFindsNone
  <1>6. ASSUME NEW k \in Motors, Move(k) PROVE cur'[m] > freed'
    <2>1. UNCHANGED <<freed, aborts, cur, worker>> /\ plan' = [plan EXCEPT ![submitted + 1] = runs + 1]
      BY <1>6 DEF Move
    <2>2. cur[m] \in 1..submitted /\ submitted \in Nat
      BY <2>1, BoundsAssumption DEF IInv, SafeInv, OwnershipInv, TypeInv, TypeOK
    <2>3. cur[m] # submitted + 1
      BY <2>2
    <2>4. plan'[cur[m]] = plan[cur[m]]
      BY <2>1, <2>3 DEF IInv, TypeInv, TypeOK
    <2> QED
      BY <2>1, <2>4 DEF ResetSparesProcessed
  <1>7. ASSUME NEW k \in Motors, Add(k) PROVE cur'[m] > freed'
    BY <1>1, <1>2, <1>7 DEF Add
  <1>8. CASE \/ \E i \in Moves, t \in Triggers : SetTrigger(i, t)
             \/ Run \/ SeesAllDone \/ Collect \/ Shutdown \/ ReleaseAll \/ Join
    BY <1>1, <1>8 DEF SetTrigger, Run, SeesAllDone, Collect, Shutdown, ReleaseAll, Join
  <1>9. CASE Abort
    <2>1. aborts = 0
      <3>1. aborts \in Nat
        BY BoundsAssumption DEF IInv, TypeInv, TypeOK
      <3> QED
        BY <1>9, <3>1 DEF Abort, AbortBegin, EmergencyStop, AbortLoad, AbortStore
    <2>2. UNCHANGED <<plan, freed, cur, worker>>
      BY <1>9 DEF Abort, AbortBegin, EmergencyStop, AbortLoad, AbortStore
    <2> QED
      BY <2>1, <2>2 DEF ResetSparesProcessed
  <1>10. CASE Terminated \/ UNCHANGED vars
    BY <1>1, <1>10 DEF Terminated, vars
  <1> QED
    BY <1>4, <1>5, <1>6, <1>7, <1>8, <1>9, <1>10 DEF Next, Client, RunStep, DestroyStep

\* reset() between plans destroys no move of the first plan that a worker
\* processes, whatever the moves, their triggers and their failures.
THEOREM ResetIsSafe == Spec => []ResetSparesProcessed
  <1>1. Init => ResetSparesProcessed
    BY DEF Init, ResetSparesProcessed, Processing, InProcess
  <1> QED
    BY <1>1, ResetStep, Inductive, PTL DEF Spec

----------------------------------------------------------------------------
(* Scheduler implements PlanExecution for the first plan of a scheduler     *)
(* whose abort() is not called, for any motors, moves and triggers.         *)

\* A worker of such a scheduler never processes a move that reset() destroyed.
NoStray == \A m \in Motors : Processing(m) => cur[m] \in Pool

LEMMA InitRefines == Init => Plan!Init
  <1> SUFFICES ASSUME Init PROVE Plan!Init
    OBVIOUS
  <1>1. planMotor = [i \in Moves |-> NoMotor]
    BY DEF Init, planMotor
  <1>2. planNeeds = [i \in Moves |-> [what |-> "nothing", of |-> 0]]
    BY DEF Init, planNeeds, NeedsOf, NoTrigger
  <1>3. planPhase = [i \in Moves |-> "waiting"]
    BY DEF Init, planPhase, PhaseOf
  <1>4. planReport = "building"
    BY DEF Init, planReport
  <1> QED
    BY <1>1, <1>2, <1>3, <1>4 DEF Plan!Init

LEMMA NoStrayStep ==
  ASSUME MaxRuns = 1, MaxAborts = 0, IInv, NoStray, [Next]_vars
  PROVE  NoStray'
  <1>1. FifoTypes /\ PlanTypes
    BY FifoTypesHold, PlanTypesHold DEF IInv
  <1>2. runs \in 0..1 /\ aborts = 0 /\ plan \in [Moves -> 0..1]
    BY DEF IInv, TypeInv, TypeOK
  <1>3. ASSUME main # "poll", NEW m \in Motors PROVE ~Processing(m)
    <2>1. CASE runs = 0
      BY <2>1 DEF IInv, ClientInv, Processing, InProcess
    <2>2. CASE runs = 1
      <3> SUFFICES ASSUME Processing(m) PROVE FALSE
        OBVIOUS
      <3>1. cur[m] \in Pool /\ cur[m] \in Moves
        BY <1>1 DEF NoStray, IInv, SafeInv, OwnershipInv, FifoTypes
      <3>2. plan[cur[m]] <= runs
        BY <1>2, <2>2, <3>1
      <3>3. status[cur[m]] \in Terminal
        BY <1>2, <1>3, <3>1, <3>2 DEF IInv, OutcomeInv
      <3> QED
        BY <1>2, <3>3 DEF IInv, StatusInv, Processing, InProcess, Terminal
    <2> QED
      BY <1>2, <2>1, <2>2
  <1> USE <1>1 DEF FifoTypes, NoStray, Processing, InProcess, Pool, moveVars, schedVars,
          mainVars, workerVars, abortVars, Goto, SetStatus
  <1>4. CASE Client
    <2>1. CASE Reset
      BY <1>3, <2>1 DEF Reset, Building
    <2>2. ASSUME NEW m \in Motors, Add(m) \/ Move(m) PROVE NoStray'
      BY <2>2 DEF Add, Move
    <2>3. CASE \E i \in Moves, t \in Triggers : SetTrigger(i, t)
      BY <2>3 DEF SetTrigger
    <2>4. CASE Run \/ RunStep \/ Shutdown \/ DestroyStep
      BY <2>4 DEF Run, RunStep, SeesAllDone, Collect, Shutdown, DestroyStep, ReleaseAll, Join
    <2> QED
      BY <1>4, <2>1, <2>2, <2>3, <2>4 DEF Client
  <1>5. ASSUME NEW m \in Motors, Worker(m) PROVE NoStray'
    <2>1. CASE Pickup(m)
      BY <2>1 DEF Pickup, IsFirst, PendingOf, IInv, SafeInv, OwnershipInv
    <2>2. CASE Enter(m) \/ Leave(m) \/ ScanFindsNone(m) \/ BeginDispatch(m)
      BY <2>2 DEF Enter, Leave, ScanFindsNone, BeginDispatch
    <2>3. CASE ReadStart(m) \/ ReadStartFails(m) \/ Send(m) \/ SendFails(m)
      BY <2>3 DEF ReadStart, ReadStartFails, Send, SendFails
    <2>4. CASE PollFar(m) \/ PollNear(m) \/ PollError(m)
      BY <2>4 DEF PollFar, PollNear, PollError
    <2>5. CASE PollTimeout(m) \/ Settle(m) \/ Rest(m)
      BY <2>5 DEF PollTimeout, Settle, Rest
    <2> QED
      BY <1>5, <2>1, <2>2, <2>3, <2>4, <2>5 DEF Worker, Poll
  <1>6. CASE Abort
    BY <1>6 DEF Abort, AbortBegin, EmergencyStop, AbortLoad, AbortStore
  <1>7. CASE Terminated \/ UNCHANGED vars
    BY <1>7 DEF Terminated, vars
  <1> QED
    BY <1>4, <1>5, <1>6, <1>7 DEF Next

\* A status change of one move is a change of its phase alone.
LEMMA PhaseStep ==
  ASSUME TypeInv, NEW i \in Moves, NEW st \in Statuses,
         status' = [status EXCEPT ![i] = st]
  PROVE  planPhase' = [planPhase EXCEPT ![i] = PhaseOf(st)]
  BY DEF planPhase, TypeInv, TypeOK

LEMMA StepRefines ==
  ASSUME MaxRuns = 1, MaxAborts = 0, IInv, IInv', NoStray, [Next]_vars
  PROVE  [Plan!Next]_(Plan!vars)
  <1>1. FifoTypes /\ PlanTypes /\ TypeInv
    BY FifoTypesHold, PlanTypesHold DEF IInv
  <1>2. /\ runs \in 0..1 /\ runs' \in 0..1 /\ aborts = 0 /\ plan \in [Moves -> 0..1]
        /\ result \in {"none", "OK", "TransportError"}
        /\ Pool \subseteq Moves
    BY <1>1 DEF IInv, TypeInv, TypeOK, FifoTypes, Pool
  <1>3. /\ planMotor' \in [Moves -> Motors \cup {NoMotor}]
        /\ planNeeds' \in [Moves -> Plan!Needs]
    <2>1. owner' \in [Moves -> Motors \cup {NoMotor}] /\ trig' \in [Moves -> Triggers]
      BY DEF IInv, TypeInv, TypeOK
    <2>2. \A t \in Triggers : NeedsOf(t) \in Plan!Needs
      BY DEF NeedsOf, Triggers, Plan!Needs
    <2> QED
      BY <2>1, <2>2 DEF planMotor, planNeeds
  <1>m. /\ UNCHANGED <<submitted, freed, owner>> => planMotor' = planMotor
        /\ UNCHANGED trig => planNeeds' = planNeeds
        /\ UNCHANGED status => planPhase' = planPhase
        /\ UNCHANGED <<main, runs, result>> => planReport' = planReport
    BY DEF planMotor, planNeeds, planPhase, planReport, Pool
  <1>w. ASSUME NEW m \in Motors, Processing(m)
        PROVE  cur[m] \in Pool /\ cur[m] \in Moves /\ main = "poll" /\ runs = 1
    <2>1. cur[m] \in Pool /\ cur[m] \in Moves
      BY <1>1, <1>2, <1>w DEF NoStray
    <2>2. runs # 0
      BY <1>w DEF IInv, ClientInv, Processing, InProcess
    <2>3. main = "poll"
      <3> SUFFICES ASSUME main # "poll" PROVE FALSE
        OBVIOUS
      <3>1. status[cur[m]] \in Terminal
        BY <1>2, <2>1, <2>2 DEF IInv, OutcomeInv
      <3> QED
        BY <1>2, <1>w, <3>1 DEF IInv, StatusInv, Processing, InProcess, Terminal
    <2> QED
      BY <1>2, <2>1, <2>2, <2>3
  <1>e. ASSUME NEW m \in Motors, NEW st \in {"Completed", "Failed"},
               worker[m] \in {"reading", "sending", "polling", "settling"},
               status' = [status EXCEPT ![cur[m]] = st],
               UNCHANGED <<submitted, freed, owner, trig, main, runs, result>>
        PROVE  Plan!End(cur[m]) /\ cur[m] \in Moves
    <2>1. cur[m] \in Moves
      BY <1>w, <1>e DEF Processing, InProcess
    <2>2. status[cur[m]] \in {"Dispatching", "Polling"}
      BY <1>2, <1>e DEF IInv, StatusInv
    <2>3. planPhase[cur[m]] = "running"
      BY <2>1, <2>2 DEF planPhase, PhaseOf
    <2>4. planPhase' = [planPhase EXCEPT ![cur[m]] = PhaseOf(st)]
      <3>1. st \in Statuses
        BY DEF Statuses
      <3> QED
        BY <1>1, <1>e, <2>1, <3>1, PhaseStep
    <2>5. PhaseOf(st) \in {"succeeded", "failed"}
      BY <1>e DEF PhaseOf
    <2> QED
      BY <1>m, <1>e, <2>1, <2>3, <2>4, <2>5 DEF Plan!End, Plan!Ended

  <1>4. ASSUME NEW m \in Motors, Worker(m) PROVE [Plan!Next]_(Plan!vars)
    <2> USE DEF moveVars, schedVars, mainVars, Goto, SetStatus
    <2>1. CASE Enter(m) \/ Leave(m) \/ ScanFindsNone(m) \/ Rest(m)
      BY <1>m, <2>1 DEF Enter, Leave, ScanFindsNone, Rest, Plan!vars
    <2>2. CASE ReadStart(m) \/ PollFar(m) \/ PollNear(m)
      BY <1>m, <2>2 DEF ReadStart, PollFar, PollNear, Plan!vars
    <2>3. CASE Pickup(m)
      <3>1. PICK i \in Moves : /\ status[i] = "Pending"
                               /\ status' = [status EXCEPT ![i] = "WaitingDeps"]
        BY <2>3 DEF Pickup, IsFirst, PendingOf
      <3>2. planPhase' = planPhase
        <4>1. planPhase' = [planPhase EXCEPT ![i] = "waiting"]
          BY <1>1, <3>1, PhaseStep DEF Statuses, PhaseOf
        <4>2. planPhase[i] = "waiting"
          BY <3>1 DEF planPhase, PhaseOf
        <4> QED
          BY <4>1, <4>2 DEF planPhase
      <3> QED
        BY <1>m, <2>3, <3>2 DEF Pickup, Plan!vars
    <2>4. CASE BeginDispatch(m)
      <3> DEFINE i == cur[m]
      <3>1. /\ i \in Pool /\ i \in Moves /\ main = "poll" /\ runs = 1
            /\ status[i] = "WaitingDeps" /\ owner[i] = m /\ TriggerMet(trig[i])
        BY <1>2, <1>w, <2>4 DEF BeginDispatch, Processing, InProcess, IInv, StatusInv,
           SafeInv, OwnershipInv
      <3>2. planReport = "executing" /\ planMotor[i] = m /\ planPhase[i] = "waiting"
        BY <3>1 DEF planReport, planMotor, planPhase, PhaseOf
      <3>3. Plan!PredecessorsEnded(i)
        <4> SUFFICES ASSUME NEW j \in Moves, j < i, planMotor[j] = planMotor[i]
                     PROVE  planPhase[j] \in Plan!Ended
          BY DEF Plan!PredecessorsEnded
        <4>1. j \in Pool /\ owner[j] = m
          BY <3>2, MotorsAssumption DEF planMotor
        <4>2. status[j] \in Terminal
          BY <2>4, <4>1 DEF BeginDispatch, Processing, InProcess, IInv, SafeInv, OrderInv
        <4> QED
          BY <4>2 DEF planPhase, PhaseOf, Terminal, Plan!Ended
      <3>4. Plan!NeedsMet(planNeeds[i])
        <4> DEFINE t == trig[i]
        <4>1. t \in Triggers /\ TriggerMet(t) /\ (t.kind = "None" => t.ref = 0)
          BY <1>1, <3>1 DEF PlanTypes, IInv, TriggerInv
        <4>2. planNeeds[i] = NeedsOf(t)
          BY <3>1 DEF planNeeds
        <4> HIDE DEF t
        <4>3. CASE NeedsOf(t).what = "nothing"
          BY <4>2, <4>3 DEF Plan!NeedsMet
        <4>4. CASE NeedsOf(t).what = "ended"
          <5>1. t.ref \in Moves /\ t.kind = "AfterCompleted" /\ NeedsOf(t).of = t.ref
            BY <4>1, <4>4 DEF NeedsOf, Triggers
          <5>2. status[t.ref] \in Terminal
            <6>1. t.ref # 0
              BY <1>1, <4>4 DEF NeedsOf
            <6> QED
              BY <4>1, <5>1, <6>1 DEF TriggerMet, Terminal
          <5> QED
            BY <4>2, <4>4, <5>1, <5>2 DEF Plan!NeedsMet, Plan!Ended, planPhase, PhaseOf, Terminal
        <4>5. CASE NeedsOf(t).what = "begun"
          <5>1. /\ t.ref \in Moves /\ t.ref # 0 /\ NeedsOf(t).of = t.ref
                /\ t.val \in 0..Full
                /\ t.kind = "AtProgress" => t.val # 0
                /\ t.kind \in {"AtProgress", "AtTimeAfterStart", "AtTimeBeforeEnd"}
            BY <4>1, <4>5 DEF NeedsOf, Triggers, Kinds
          <5>2. t.kind = "AtProgress" /\ progress[t.ref] >= t.val => progress[t.ref] > 0
            BY <1>1, <5>1, FullAssumption DEF PlanTypes
          <5>3. status[t.ref] \notin {"Pending", "WaitingDeps"}
            BY <1>2, <4>1, <5>1, <5>2 DEF TriggerMet, IInv, StatusInv
          <5>4. status[t.ref] \in Statuses
            BY <1>1, <5>1 DEF FifoTypes
          <5> QED
            BY <4>2, <4>5, <5>1, <5>3, <5>4
            DEF Plan!NeedsMet, planPhase, PhaseOf, Statuses
        <4> QED
          BY <4>3, <4>4, <4>5 DEF NeedsOf
      <3>5. planPhase' = [planPhase EXCEPT ![i] = "running"]
        BY <1>1, <2>4, <3>1, PhaseStep DEF BeginDispatch, Statuses, PhaseOf
      <3>6. Plan!Start(i)
        BY <1>m, <2>4, <3>2, <3>3, <3>4, <3>5, MotorsAssumption
        DEF BeginDispatch, Plan!Start
      <3> QED
        BY <3>1, <3>6 DEF Plan!Next
    <2>5. CASE Send(m)
      <3>1. cur[m] \in Moves /\ status[cur[m]] = "Dispatching"
        BY <1>2, <1>w, <2>5 DEF Send, Processing, InProcess, IInv, StatusInv
      <3>2. planPhase' = planPhase
        <4>1. planPhase' = [planPhase EXCEPT ![cur[m]] = "running"]
          BY <1>1, <2>5, <3>1, PhaseStep DEF Send, Statuses, PhaseOf
        <4>2. planPhase[cur[m]] = "running"
          BY <3>1 DEF planPhase, PhaseOf
        <4> QED
          BY <4>1, <4>2 DEF planPhase
      <3> QED
        BY <1>m, <2>5, <3>2 DEF Send, Plan!vars
    <2>6. CASE ReadStartFails(m) \/ SendFails(m) \/ PollTimeout(m) \/ Settle(m)
      BY <1>e, <2>6 DEF ReadStartFails, SendFails, PollTimeout, Settle, Plan!Next
    <2>7. CASE PollError(m)
      <3>1. CASE UNCHANGED status
        BY <1>m, <2>7, <3>1 DEF PollError, Plan!vars
      <3>2. CASE status' = [status EXCEPT ![cur[m]] = "Failed"]
        BY <1>e, <2>7, <3>2 DEF PollError, Plan!Next
      <3> QED
        BY <2>7, <3>1, <3>2 DEF PollError
    <2> QED
      BY <1>4, <2>1, <2>2, <2>3, <2>4, <2>5, <2>6, <2>7 DEF Worker, Poll
  <1>5. CASE Client
    <2> USE DEF moveVars, schedVars, mainVars, Building
    <2>c. ASSUME main = "build", UNCHANGED <<status, main, runs, result>>
          PROVE  Plan!Compose
      BY <1>2, <1>3, <1>m, <2>c DEF Plan!Compose, planReport
    <2>1. ASSUME NEW m \in Motors, Add(m) PROVE [Plan!Next]_(Plan!vars)
      BY <1>m, <2>1 DEF Add, Plan!vars
    <2>2. ASSUME NEW m \in Motors, Move(m) PROVE [Plan!Next]_(Plan!vars)
      BY <2>c, <2>2 DEF Move, Plan!Next
    <2>3. ASSUME NEW i \in Moves, NEW t \in Triggers, SetTrigger(i, t)
          PROVE  [Plan!Next]_(Plan!vars)
      BY <2>c, <2>3 DEF SetTrigger, Plan!Next
    <2>4. CASE Run
      <3>1. runs = 0 /\ runs' = 1
        BY <1>2, <2>4 DEF Run
      <3>2. Plan!Release
        BY <1>m, <2>4, <3>1 DEF Run, Plan!Release, planReport
      <3> QED
        BY <3>2 DEF Plan!Next
    <2>5. CASE SeesAllDone
      <3>1. planReport' = planReport
        BY <2>5 DEF SeesAllDone, planReport
      <3> QED
        BY <1>m, <2>5, <3>1 DEF SeesAllDone, Plan!vars
    <2>6. CASE Collect
      <3>1. runs = 1
        BY <1>2, <2>6 DEF Collect, IInv, ClientInv
      <3>2. \A i \in Pool : status[i] \in Terminal /\ owner[i] \in Motors
        BY <1>1, <1>2, <2>6, <3>1
        DEF Collect, IInv, OutcomeInv, SafeInv, OwnershipInv, FifoTypes, Pool
      <3>3. Plan!InPlan = Pool
        BY <1>2, <3>2, MotorsAssumption DEF Plan!InPlan, planMotor
      <3>4. planReport = "executing" /\ planReport' = result'
        BY <2>6, <3>1 DEF Collect, planReport
      <3>5. \A i \in Pool : planPhase[i] \in Plan!Ended
        BY <1>2, <3>2 DEF planPhase, PhaseOf, Terminal, Plan!Ended
      <3>6. (FailedMoves = {}) <=> \A i \in Pool : planPhase[i] = "succeeded"
        BY <1>2, <3>2 DEF FailedMoves, planPhase, PhaseOf, Terminal
      <3>7. Plan!Report
        BY <1>m, <2>6, <3>3, <3>4, <3>5, <3>6 DEF Collect, Plan!Report
      <3> QED
        BY <3>7 DEF Plan!Next
    <2>7. CASE Reset
      BY <2>c, <2>7 DEF Reset, Plan!Next
    <2>8. CASE Shutdown \/ DestroyStep
      <3>1. planReport' = planReport
        BY <2>8 DEF Shutdown, DestroyStep, ReleaseAll, Join, planReport
      <3> QED
        BY <1>m, <2>8, <3>1 DEF Shutdown, DestroyStep, ReleaseAll, Join, Plan!vars
    <2> QED
      BY <1>5, <2>1, <2>2, <2>3, <2>4, <2>5, <2>6, <2>7, <2>8 DEF Client, RunStep
  <1>6. CASE Abort
    <2>1. aborts' = 0 /\ aborter = "idle"
      BY <1>2 DEF IInv, TypeInv, TypeOK, ClientInv
    <2> QED
      BY <1>2, <1>6, <2>1 DEF Abort, AbortBegin, EmergencyStop, AbortLoad, AbortStore
  <1>7. CASE Terminated \/ UNCHANGED vars
    BY <1>m, <1>7 DEF Terminated, vars, moveVars, mainVars, Plan!vars
  <1> QED
    BY <1>4, <1>5, <1>6, <1>7 DEF Next

\* The first run() of a scheduler, without abort(), executes the plan that the
\* client composed as PlanExecution says.
THEOREM SchedulerImplementsPlan ==
  ASSUME MaxRuns = 1, MaxAborts = 0
  PROVE  Spec => ImplementsPlan
  <1>1. Init => NoStray
    BY DEF Init, NoStray, Processing, InProcess
  <1>2. IInv /\ NoStray /\ [Next]_vars => NoStray'
    BY NoStrayStep
  <1>3. IInv /\ IInv' /\ NoStray /\ [Next]_vars => [Plan!Next]_(Plan!vars)
    BY StepRefines
  <1> QED
    BY <1>1, <1>2, <1>3, InitRefines, Inductive, PTL DEF Spec, ImplementsPlan, Plan!Spec
=============================================================================
