--------------------------- MODULE MotorGroupProofs ---------------------------
(***************************************************************************)
(* What holds of module MotorGroup for any number of motors, any angles,    *)
(* limits and policies, any window, and any number of calls and faults.     *)
(***************************************************************************)
EXTENDS MotorGroup, TLAPS

Names == {"none", "enable_all", "dispatch_all", "move_all", "wait_all_settled"}

TypeInv ==
    /\ policy \in [Motors -> Policies] /\ offset \in [Motors -> Int]
    /\ call \in Names /\ at \in {"idle", "enabling", "dispatching", "polling"}
    /\ k \in 1..(N + 1) /\ on \in BOOLEAN /\ specs \in [Motors -> Int]
    /\ inWindow \in [Motors -> Nat] /\ done \subseteq Motors /\ expired \in BOOLEAN
    /\ worst \in Statuses /\ out \in [Motors -> Statuses] /\ result \in Statuses
    /\ enc \in [Motors -> Int] /\ goal \in [Motors -> Int]
    /\ moving \in [Motors -> BOOLEAN] /\ coil \in [Motors -> BOOLEAN]
    /\ latched \in [Motors -> BOOLEAN]
    /\ accepted \subseteq Motors /\ held \in [Motors -> Int]
    /\ calls \in Nat /\ faults \in Nat

\* Where a call may be.
CallInv ==
    /\ at = "enabling" => call = "enable_all"
    /\ at = "dispatching" => call \in {"dispatch_all", "move_all"}
    /\ at = "polling" => call \in {"wait_all_settled", "move_all"}

\* dispatch_all(), between two motors: the entries before k are true, and worst
\* is OK or the entry of one of them.  A wait of move_all() follows only if all
\* motors have accepted.
DispatchInv ==
    /\ at = "dispatching" =>
         \A i \in 1..(k - 1) : out[i] \in Success => i \in accepted
    /\ at = "dispatching" /\ worst = "OK" => \A i \in 1..(k - 1) : out[i] \in Success
    /\ at = "dispatching" /\ worst # "OK" => \E i \in 1..(k - 1) : out[i] = worst
    /\ at = "polling" /\ call = "move_all" => accepted = Motors

\* wait_all_settled(): a motor that counts as settled stays where it was seen,
\* and for one that does not, the count of the wait is that of the history.
WaitInv ==
    /\ at \in {"enabling", "dispatching"} =>
         done = {} /\ \A i \in Motors : inWindow[i] = 0 /\ held[i] = 0
    /\ at = "polling" => \A i \in Motors : out[i] = "OK"
    /\ \A i \in done : goal[i] = Asked(i) => Close(i, Asked(i))
    /\ \A i \in Motors \ done :
         inWindow[i] < Window /\ (goal[i] = Asked(i) => held[i] = inWindow[i])

\* What a call has returned.
ReturnInv ==
    /\ EntriesAreTrue
    /\ FailureIsNamed
    /\ Returned({"wait_all_settled", "move_all"}) /\ result = "OK" => done = Motors
    /\ Returned({"wait_all_settled", "move_all"}) =>
         \A i \in Motors : out[i] = "Timeout" => i \notin done

GroupInv == TypeInv /\ CallInv /\ DispatchInv /\ WaitInv /\ ReturnInv

----------------------------------------------------------------------------
(* Types.                                                                   *)

LEMMA TypeInit == Init => TypeInv
PROOF
<1> SUFFICES ASSUME Init PROVE TypeInv
    OBVIOUS
<1>1. 1 \in 1..(N + 1)
      BY SizeAssumption
<1>2. offset \in [Motors -> Int]
      BY AnglesAssumption DEF Init
<1>3. PICK a \in Angles : enc = [i \in Motors |-> a + offset[i]]
      BY DEF Init
<1>4. enc \in [Motors -> Int] /\ goal \in [Motors -> Int]
      BY <1>2, <1>3, AnglesAssumption DEF Init
<1>5. /\ coil \in [Motors -> BOOLEAN] /\ moving \in [Motors -> BOOLEAN] /\ latched \in [Motors -> BOOLEAN]
      /\ out \in [Motors -> Statuses]
      BY DEF Init, Statuses
<1>6. /\ inWindow \in [Motors -> Nat] /\ held \in [Motors -> Int] /\ specs \in [Motors -> Int]
      /\ policy \in [Motors -> Policies]
      BY DEF Init
<1> QED BY <1>1, <1>2, <1>4, <1>5, <1>6 DEF Init, TypeInv, Names, Statuses

LEMMA CallTypes ==
    ASSUME TypeInv, NEW name \in Names, NEW b \in BOOLEAN, NEW a \in [Motors -> Int],
           Call(name, b, a)
    PROVE  /\ call' \in Names /\ on' \in BOOLEAN /\ specs' \in [Motors -> Int]
           /\ calls' \in Nat /\ k' \in 1..(N + 1) /\ worst' \in Statuses
           /\ accepted' \subseteq Motors
           /\ inWindow' \in [Motors -> Nat] /\ done' \subseteq Motors /\ expired' \in BOOLEAN
           /\ held' \in [Motors -> Int]
PROOF
<1>1. 1 \in 1..(N + 1) /\ calls + 1 \in Nat
      BY SizeAssumption DEF TypeInv
<1>2. [i \in Motors |-> 0] \in [Motors -> Nat] /\ [i \in Motors |-> 0] \in [Motors -> Int]
      OBVIOUS
<1> QED BY <1>1, <1>2 DEF Call, NewWait, Statuses

LEMMA WaitTypes ==
    ASSUME BeginWait
    PROVE  /\ k' \in 1..(N + 1) /\ inWindow' \in [Motors -> Nat] /\ done' \subseteq Motors
           /\ expired' \in BOOLEAN /\ held' \in [Motors -> Int] /\ out' \in [Motors -> Statuses]
           /\ at' = "polling"
PROOF
<1>1. 1 \in 1..(N + 1)
      BY SizeAssumption
<1>2. /\ [i \in Motors |-> 0] \in [Motors -> Nat] /\ [i \in Motors |-> 0] \in [Motors -> Int]
      /\ [i \in Motors |-> "OK"] \in [Motors -> Statuses]
      BY DEF Statuses
<1> QED BY <1>1, <1>2 DEF BeginWait, NewWait

LEMMA WritesTypes ==
    ASSUME TypeInv, NEW i \in Motors, NEW status, Writes(i, status)
    PROVE  /\ goal' \in [Motors -> Int] /\ moving' \in [Motors -> BOOLEAN]
           /\ latched' \in [Motors -> BOOLEAN] /\ enc' = enc /\ coil' = coil
           /\ accepted' \subseteq Motors /\ faults' \in Nat
PROOF
<1>1. CASE Ignores
  <2>1. faults' \in Nat
        BY DEF TypeInv, Writes, Fault
  <2> QED BY <1>1, <2>1 DEF Ignores, motorVars, TypeInv
<1>2. CASE Starts(i)
  <2>1. faults' \in Nat
        BY DEF TypeInv, Writes, Fault
  <2>2. \A a \in Int : Clamp(a) \in Int
        BY LimitsAssumption DEF Clamp
  <2>3. goal' \in [Motors -> Int]
        BY <1>2, <2>2 DEF Starts, TypeInv
  <2> QED BY <1>2, <2>1, <2>3 DEF Starts, TypeInv
<1> QED BY <1>1, <1>2 DEF Writes

LEMMA TypeStep == TypeInv /\ [Next]_vars => TypeInv'
PROOF
<1> SUFFICES ASSUME TypeInv, [Next]_vars PROVE TypeInv'
    OBVIOUS
<1> USE DEF config, args, waitVars, motorVars
<1>0. N \in Nat /\ k + 1 \in Nat
      BY SizeAssumption DEF TypeInv
<1>1. ASSUME NEW b \in BOOLEAN, EnableAll(b) PROVE TypeInv'
  <2>1. [i \in Motors |-> 0] \in [Motors -> Int] /\ "enable_all" \in Names
        BY DEF Names
  <2> QED BY <1>1, <2>1, CallTypes DEF EnableAll, TypeInv
<1>2. ASSUME NEW name \in {"dispatch_all", "move_all"}, NEW a \in [Motors -> Angles], Dispatch(name, a)
      PROVE  TypeInv'
  <2>1. a \in [Motors -> Int] /\ name \in Names
        BY AnglesAssumption DEF Names
  <2> QED BY <1>2, <2>1, CallTypes DEF Dispatch, TypeInv
<1>3. ASSUME NEW a \in [Motors -> Angles], WaitAllSettled(a) PROVE TypeInv'
  <2>1. a \in [Motors -> Int] /\ "wait_all_settled" \in Names
        BY AnglesAssumption DEF Names
  <2> QED BY <1>3, <2>1, CallTypes, WaitTypes DEF WaitAllSettled, TypeInv
<1>4. CASE Enabled
  <2>1. k' \in 1..(N + 1)
        BY <1>0, <1>4 DEF Enabled, Motors
  <2> QED BY <1>4, <2>1 DEF Enabled, SetCoil, Note, TypeInv, Statuses
<1>5. CASE NotEnabled
  <2>1. k' \in 1..(N + 1)
        BY <1>0, <1>5 DEF NotEnabled, Motors
  <2> QED BY <1>5, <2>1 DEF NotEnabled, Note, TypeInv, Statuses
<1>6. CASE EnableFails
      BY <1>6 DEF EnableFails, Fault, SetCoil, Note, Return, TypeInv, Statuses
<1>7. CASE EnableEnds
      BY <1>7 DEF EnableEnds, Return, TypeInv
<1>8. CASE DispatchNext
  <2>1. k' \in 1..(N + 1) /\ k \in Motors
        BY <1>0, <1>8 DEF DispatchNext, Motors
  <2>2. PICK status \in Statuses :
          Writes(k, status) /\ Note(k, status)
          /\ worst' = IF worst = "OK" /\ status \notin Success THEN status ELSE worst
        BY <1>8 DEF DispatchNext
  <2>3. out' \in [Motors -> Statuses] /\ worst' \in Statuses
        BY <2>2 DEF Note, TypeInv
  <2> QED BY <1>8, <2>1, <2>2, <2>3, WritesTypes DEF DispatchNext, TypeInv
<1>9. CASE DispatchEnds
  <2>1. CASE Return(worst) /\ UNCHANGED <<k, waitVars, out, held>>
        BY <1>9, <2>1 DEF DispatchEnds, Return, TypeInv
  <2>2. CASE BeginWait /\ UNCHANGED result
        BY <1>9, <2>2, WaitTypes DEF DispatchEnds, TypeInv
  <2> QED BY <1>9, <2>1, <2>2 DEF DispatchEnds
<1>10. ASSUME NEW i \in Motors, PollNear(i) PROVE TypeInv'
  <2>1. k' \in 1..(N + 1)
        BY <1>0, <1>10 DEF PollNear, Motors
  <2>2. inWindow' \in [Motors -> Nat] /\ held' \in [Motors -> Int] /\ done' \subseteq Motors
        BY <1>10 DEF PollNear, Reads, TypeInv
  <2> QED BY <1>10, <2>1, <2>2 DEF PollNear, TypeInv
<1>11. ASSUME NEW i \in Motors, PollFar(i) PROVE TypeInv'
  <2>1. k' \in 1..(N + 1)
        BY <1>0, <1>11 DEF PollFar, Motors
  <2>2. inWindow' \in [Motors -> Nat] /\ held' \in [Motors -> Int]
        BY <1>11 DEF PollFar, Reads, TypeInv
  <2> QED BY <1>11, <2>1, <2>2 DEF PollFar, TypeInv
<1>12. ASSUME NEW i \in Motors, PollFails(i) PROVE TypeInv'
       BY <1>12 DEF PollFails, Fault, Note, Return, TypeInv, Statuses
<1>13. CASE RoundEnds
       BY <1>0, <1>13 DEF RoundEnds, Return, TypeInv, Statuses
<1>14. CASE Expire
       BY <1>14 DEF Expire, TypeInv
<1>15. ASSUME NEW i \in Motors, Turn(i) PROVE TypeInv'
  <2>1. enc' \in [Motors -> Int]
        BY <1>15 DEF Turn, TypeInv
  <2> QED BY <1>15, <2>1 DEF Turn, TypeInv
<1>16. ASSUME NEW i \in Motors, Arrives(i) PROVE TypeInv'
       BY <1>16 DEF Arrives, Stops, TypeInv
<1>17. ASSUME NEW i \in Motors, Stall(i) PROVE TypeInv'
       BY <1>17 DEF Stall, Stops, Fault, TypeInv
<1>18. CASE UNCHANGED vars
       BY <1>18 DEF vars, TypeInv
<1> QED BY <1>1, <1>2, <1>3, <1>4, <1>5, <1>6, <1>7, <1>8, <1>9, <1>10, <1>11, <1>12, <1>13,
           <1>14, <1>15, <1>16, <1>17, <1>18 DEF Next, Calls, Group

----------------------------------------------------------------------------
(* The invariant.                                                           *)

LEMMA CallStep == TypeInv /\ CallInv /\ [Next]_vars => CallInv'
PROOF
<1> SUFFICES ASSUME TypeInv, CallInv, [Next]_vars PROVE CallInv'
    OBVIOUS
<1> USE DEF CallInv, args
<1>1. ASSUME NEW b \in BOOLEAN, EnableAll(b) PROVE CallInv'
      BY <1>1 DEF EnableAll, Call
<1>2. ASSUME NEW name \in {"dispatch_all", "move_all"}, NEW a, Dispatch(name, a) PROVE CallInv'
      BY <1>2 DEF Dispatch, Call
<1>3. ASSUME NEW a, WaitAllSettled(a) PROVE CallInv'
      BY <1>3 DEF WaitAllSettled, Call, BeginWait
<1>4. CASE Enabled \/ NotEnabled \/ EnableFails \/ EnableEnds
      BY <1>4 DEF Enabled, NotEnabled, EnableFails, EnableEnds, Return
<1>5. CASE DispatchNext \/ DispatchEnds
      BY <1>5 DEF DispatchNext, DispatchEnds, Return, BeginWait
<1>6. ASSUME NEW i \in Motors, PollNear(i) \/ PollFar(i) \/ PollFails(i) PROVE CallInv'
      BY <1>6 DEF PollNear, PollFar, PollFails, Return
<1>7. CASE RoundEnds
      BY <1>7 DEF RoundEnds, Return
<1>8. CASE Expire
      BY <1>8 DEF Expire
<1>9. ASSUME NEW i \in Motors, Turn(i) \/ Arrives(i) \/ Stall(i) PROVE CallInv'
      BY <1>9 DEF Turn, Arrives, Stall
<1>10. CASE UNCHANGED vars
      BY <1>10 DEF vars
<1> QED BY <1>1, <1>2, <1>3, <1>4, <1>5, <1>6, <1>7, <1>8, <1>9, <1>10 DEF Next, Calls, Group

LEMMA DispatchStep == TypeInv /\ CallInv /\ DispatchInv /\ [Next]_vars => DispatchInv'
PROOF
<1> SUFFICES ASSUME TypeInv, CallInv, DispatchInv, [Next]_vars PROVE DispatchInv'
    OBVIOUS
<1> USE DEF args
<1>1. ASSUME at' = "enabling" \/ at' = "idle" PROVE DispatchInv'
      BY <1>1 DEF DispatchInv
<1>2. ASSUME NEW b \in BOOLEAN, EnableAll(b) PROVE DispatchInv'
      BY <1>1, <1>2 DEF EnableAll
<1>3. ASSUME NEW name \in {"dispatch_all", "move_all"}, NEW a, Dispatch(name, a) PROVE DispatchInv'
  <2>1. 1..(k' - 1) = {} /\ worst' = "OK" /\ at' = "dispatching"
        BY <1>3 DEF Dispatch, Call
  <2> QED BY <2>1 DEF DispatchInv
<1>4. ASSUME NEW a, WaitAllSettled(a) PROVE DispatchInv'
      BY <1>4 DEF WaitAllSettled, Call, BeginWait, DispatchInv
<1>5. CASE Enabled \/ NotEnabled \/ EnableFails \/ EnableEnds
      BY <1>1, <1>5 DEF Enabled, NotEnabled, EnableFails, EnableEnds, Return
<1>6. CASE DispatchNext
  <2>1. k \in Motors /\ k' = k + 1 /\ at = "dispatching" /\ at' = "dispatching" /\ call' = call
        BY <1>6 DEF DispatchNext
  <2>2. PICK status \in Statuses :
          Writes(k, status) /\ Note(k, status)
          /\ worst' = IF worst = "OK" /\ status \notin Success THEN status ELSE worst
        BY <1>6 DEF DispatchNext
  <2>3. /\ k \in Nat /\ 1..(k' - 1) = 1..(k - 1) \cup {k} /\ k \in 1..(k' - 1)
        /\ 1..(k - 1) \subseteq Motors /\ k \notin 1..(k - 1)
        BY <2>1, SizeAssumption DEF Motors
  <2>4. out'[k] = status /\ \A i \in 1..(k - 1) : out'[i] = out[i]
        BY <2>1, <2>2, <2>3 DEF Note, TypeInv
  <2>5. accepted \subseteq accepted' /\ (status \in Success => k \in accepted')
        BY <2>2 DEF Writes, Starts, Ignores, Success
  <2>6. \A i \in 1..(k' - 1) : out'[i] \in Success => i \in accepted'
        BY <2>1, <2>3, <2>4, <2>5 DEF DispatchInv
  <2>7. worst' = "OK" => \A i \in 1..(k' - 1) : out'[i] \in Success
        BY <2>1, <2>2, <2>3, <2>4 DEF DispatchInv, Success
  <2>8. worst' # "OK" => \E i \in 1..(k' - 1) : out'[i] = worst'
        BY <2>1, <2>2, <2>3, <2>4 DEF DispatchInv
  <2> QED BY <2>1, <2>6, <2>7, <2>8 DEF DispatchInv
<1>7. CASE DispatchEnds
  <2>1. CASE Return(worst)
        BY <1>1, <2>1 DEF Return
  <2>2. CASE worst = "OK" /\ BeginWait
    <3>1. Motors \subseteq 1..(k - 1) /\ at = "dispatching" /\ accepted' = accepted
          BY <1>7, SizeAssumption DEF DispatchEnds, Motors, TypeInv
    <3>2. accepted' = Motors
          BY <2>2, <3>1 DEF DispatchInv, TypeInv
    <3> QED BY <2>2, <3>2 DEF DispatchInv, BeginWait
  <2> QED BY <1>7, <2>1, <2>2 DEF DispatchEnds
<1>8. ASSUME NEW i \in Motors, PollNear(i) \/ PollFar(i) \/ PollFails(i) PROVE DispatchInv'
      BY <1>1, <1>8 DEF PollNear, PollFar, PollFails, Return, DispatchInv
<1>9. CASE RoundEnds
      BY <1>1, <1>9 DEF RoundEnds, Return, DispatchInv
<1>10. CASE Expire
      BY <1>10 DEF Expire, DispatchInv
<1>11. ASSUME NEW i \in Motors, Turn(i) \/ Arrives(i) \/ Stall(i) PROVE DispatchInv'
      BY <1>11 DEF Turn, Arrives, Stall, DispatchInv
<1>12. CASE UNCHANGED vars
      BY <1>12 DEF vars, DispatchInv
<1> QED BY <1>2, <1>3, <1>4, <1>5, <1>6, <1>7, <1>8, <1>9, <1>10, <1>11, <1>12
        DEF Next, Calls, Group

\* A wait that begins: nothing is settled and every count is 0.
LEMMA NewWaitInv ==
    ASSUME TypeInv, NewWait, at' = "polling" => \A i \in Motors : out'[i] = "OK"
    PROVE  WaitInv'
PROOF
<1>1. done' = {} /\ \A i \in Motors : inWindow'[i] = 0 /\ held'[i] = 0
      BY DEF NewWait
<1>2. 0 < Window
      BY WindowAssumption
<1> QED BY <1>1, <1>2 DEF WaitInv

\* Steps that move no motor and read no encoder.
LEMMA NoReading ==
    ASSUME WaitInv, UNCHANGED <<offset, specs, inWindow, done, enc, goal, held>>,
           at' \in {at, "idle"}, at' = "polling" => out' = out
    PROVE  WaitInv'
PROOF BY DEF WaitInv, Asked, Close

LEMMA WaitStep == TypeInv /\ CallInv /\ WaitInv /\ [Next]_vars => WaitInv'
PROOF
<1> SUFFICES ASSUME TypeInv, CallInv, WaitInv, [Next]_vars PROVE WaitInv'
    OBVIOUS
<1> USE DEF args, config, waitVars, motorVars
<1>1. ASSUME NEW b \in BOOLEAN, EnableAll(b) PROVE WaitInv'
      BY <1>1, NewWaitInv DEF EnableAll, Call
<1>2. ASSUME NEW name \in {"dispatch_all", "move_all"}, NEW a, Dispatch(name, a) PROVE WaitInv'
      BY <1>2, NewWaitInv DEF Dispatch, Call
<1>3. ASSUME NEW a, WaitAllSettled(a) PROVE WaitInv'
      BY <1>3, NewWaitInv DEF WaitAllSettled, BeginWait
<1>4. CASE Enabled \/ NotEnabled \/ EnableFails \/ EnableEnds
      BY <1>4, NoReading DEF Enabled, NotEnabled, EnableFails, EnableEnds, Return
<1>5. CASE DispatchNext
  <2>1. at = "dispatching" /\ UNCHANGED <<at, inWindow, done, held>>
        BY <1>5 DEF DispatchNext
  <2>2. 0 < Window
        BY WindowAssumption
  <2> QED BY <2>1, <2>2 DEF WaitInv
<1>6. CASE DispatchEnds
  <2>1. CASE Return(worst) /\ UNCHANGED <<k, waitVars, out, held>>
        BY <1>6, <2>1, NoReading DEF DispatchEnds, Return
  <2>2. CASE BeginWait
        BY <2>2, NewWaitInv DEF BeginWait
  <2> QED BY <1>6, <2>1, <2>2 DEF DispatchEnds
<1>7. ASSUME NEW i \in Motors, PollNear(i) PROVE WaitInv'
  <2>1. /\ at = "polling" /\ at' = "polling" /\ i \notin done
        /\ UNCHANGED <<offset, specs, enc, goal, out>>
        BY <1>7 DEF PollNear, NextToPoll
  <2>2. \A j \in Motors : (Close(j, Asked(j)) <=> Close(j, Asked(j))') /\ Asked(j)' = Asked(j)
        BY <2>1 DEF Close, Asked
  <2>3. Close(i, Asked(i))
        BY <1>7 DEF PollNear, Target, Asked
  <2>4. inWindow'[i] = inWindow[i] + 1 /\ \A j \in Motors \ {i} : inWindow'[j] = inWindow[j]
        BY <1>7 DEF PollNear, TypeInv
  <2>5. goal[i] = Asked(i) /\ inWindow[i] < Window /\ held[i] = inWindow[i] =>
          held'[i] = inWindow[i] + 1
        BY <1>7, <2>3, WindowAssumption DEF PollNear, Reads, TypeInv
  <2>6. \A j \in Motors \ {i} : held'[j] = held[j]
        BY <1>7 DEF PollNear, Reads, TypeInv
  <2>7. \A j \in done' : goal'[j] = Asked(j)' => Close(j, Asked(j))'
        BY <1>7, <2>1, <2>2, <2>3 DEF PollNear, WaitInv, TypeInv
  <2>8. ASSUME NEW j \in Motors \ done'
        PROVE  inWindow'[j] < Window /\ (goal'[j] = Asked(j)' => held'[j] = inWindow'[j])
    <3>1. j \in Motors \ done
          BY <1>7, <2>8 DEF PollNear
    <3>2. CASE j = i
      <4>1. inWindow'[i] < Window
            BY <1>7, <2>4, <2>8, <3>2, WindowAssumption DEF PollNear, Settled, TypeInv
      <4> QED BY <2>1, <2>2, <2>4, <2>5, <3>1, <3>2, <4>1 DEF WaitInv
    <3>3. CASE j # i
          BY <2>1, <2>2, <2>4, <2>6, <3>1, <3>3 DEF WaitInv
    <3> QED BY <3>2, <3>3
  <2> QED BY <2>1, <2>7, <2>8 DEF WaitInv
<1>8. ASSUME NEW i \in Motors, PollFar(i) PROVE WaitInv'
  <2>1. /\ at = "polling" /\ at' = "polling" /\ i \notin done
        /\ UNCHANGED <<offset, specs, enc, goal, out, done>>
        BY <1>8 DEF PollFar, NextToPoll
  <2>2. \A j \in Motors : (Close(j, Asked(j)) <=> Close(j, Asked(j))') /\ Asked(j)' = Asked(j)
        BY <2>1 DEF Close, Asked
  <2>3. ~Close(i, Asked(i))
        BY <1>8 DEF PollFar, Target, Asked
  <2>4. inWindow'[i] = 0 /\ 0 < Window /\ (goal[i] = Asked(i) => held'[i] = 0)
        BY <1>8, <2>3, WindowAssumption DEF PollFar, Reads, TypeInv
  <2>5. \A j \in Motors \ {i} : held'[j] = held[j] /\ inWindow'[j] = inWindow[j]
        BY <1>8 DEF PollFar, Reads, TypeInv
  <2> QED BY <2>1, <2>2, <2>4, <2>5 DEF WaitInv, TypeInv
<1>9. ASSUME NEW i \in Motors, PollFails(i) PROVE WaitInv'
      BY <1>9, NoReading DEF PollFails, Return
<1>10. CASE RoundEnds
       BY <1>10, NoReading DEF RoundEnds, Return
<1>11. CASE Expire
       BY <1>11, NoReading DEF Expire
<1>12. ASSUME NEW i \in Motors, Turn(i) PROVE WaitInv'
  <2>1. /\ UNCHANGED <<at, offset, specs, inWindow, done, goal, held, out>>
        /\ enc[i] \in Int /\ goal[i] \in Int /\ enc[i] # goal[i]
        /\ \A j \in Motors \ {i} : enc'[j] = enc[j]
        /\ enc'[i] = IF enc[i] < goal[i] THEN enc[i] + 1 ELSE enc[i] - 1
        BY <1>12 DEF Turn, TypeInv
  <2>2. \A j \in Motors : Asked(j)' = Asked(j)
        BY <2>1 DEF Asked
  <2>3. ASSUME NEW j \in Motors, j \in done, goal[j] = Asked(j) PROVE Close(j, Asked(j))'
    <3>1. Close(j, Asked(j))
          BY <2>3 DEF WaitInv
    <3>2. CASE j # i
          BY <2>1, <2>2, <3>1, <3>2 DEF Close
    <3>3. CASE j = i
          BY <2>1, <2>2, <2>3, <3>1, <3>3, WindowAssumption DEF Close
    <3> QED BY <3>2, <3>3
  <2>4. \A j \in done' : goal'[j] = Asked(j)' => Close(j, Asked(j))'
    <3>1. done' = done /\ done \subseteq Motors /\ goal' = goal
          BY <2>1 DEF TypeInv
    <3> QED BY <2>2, <2>3, <3>1, Zenon
  <2>5. \A j \in Motors \ done' :
          inWindow'[j] < Window /\ (goal'[j] = Asked(j)' => held'[j] = inWindow'[j])
        BY <2>1, <2>2 DEF WaitInv
  <2> QED BY <2>1, <2>4, <2>5 DEF WaitInv
<1>13. ASSUME NEW i \in Motors, Arrives(i) \/ Stall(i) PROVE WaitInv'
       BY <1>13, NoReading DEF Arrives, Stall
<1>14. CASE UNCHANGED vars
       BY <1>14, NoReading DEF vars
<1> QED BY <1>1, <1>2, <1>3, <1>4, <1>5, <1>6, <1>7, <1>8, <1>9, <1>10, <1>11, <1>12, <1>13, <1>14
        DEF Next, Calls, Group

\* Only a step that ends a call makes a difference to what calls have returned.
LEMMA NoReturn ==
    ASSUME ReturnInv,
           at' # "idle" \/ UNCHANGED <<call, at, out, result, accepted, done>>
    PROVE  ReturnInv'
PROOF BY DEF ReturnInv, EntriesAreTrue, FailureIsNamed, Returned

LEMMA ReturnStep ==
    TypeInv /\ CallInv /\ DispatchInv /\ WaitInv /\ ReturnInv /\ [Next]_vars => ReturnInv'
PROOF
<1> SUFFICES ASSUME TypeInv, CallInv, DispatchInv, WaitInv, ReturnInv, [Next]_vars PROVE ReturnInv'
    OBVIOUS
<1> USE DEF args, config, waitVars, motorVars
<1>1. CASE Calls
  <2>1. at' # "idle"
        BY <1>1 DEF Calls, EnableAll, Dispatch, WaitAllSettled, BeginWait
  <2> QED BY <2>1, NoReturn
<1>2. CASE Enabled \/ NotEnabled \/ EnableFails \/ EnableEnds
  <2>1. call' = "enable_all"
        BY <1>2 DEF Enabled, NotEnabled, EnableFails, EnableEnds, CallInv
  <2> QED BY <2>1 DEF ReturnInv, EntriesAreTrue, FailureIsNamed, Returned
<1>3. CASE DispatchNext
      BY <1>3, NoReturn DEF DispatchNext
<1>4. CASE DispatchEnds
  <2>1. CASE Return(worst) /\ UNCHANGED <<k, waitVars, out, held>>
    <3>1. /\ at = "dispatching" /\ k > N /\ result' = worst /\ call' = call
          /\ UNCHANGED <<out, done, accepted>> /\ call \in {"dispatch_all", "move_all"}
          /\ call = "move_all" => worst # "OK"
          BY <1>4, <2>1 DEF DispatchEnds, Return, BeginWait, CallInv
    <3>2. 1..(k - 1) = Motors
          BY <3>1, SizeAssumption DEF Motors, TypeInv
    <3>3. EntriesAreTrue'
          BY <3>1, <3>2 DEF EntriesAreTrue, DispatchInv
    <3>4. FailureIsNamed'
          BY <3>1, <3>2 DEF FailureIsNamed, DispatchInv, Returned, TypeInv
    <3>5. done' = {}
          BY <3>1 DEF WaitInv
    <3> QED BY <3>1, <3>3, <3>4, <3>5 DEF ReturnInv, Returned
  <2>2. CASE BeginWait
        BY <2>2, NoReturn DEF BeginWait
  <2> QED BY <1>4, <2>1, <2>2 DEF DispatchEnds
<1>5. ASSUME NEW i \in Motors, PollNear(i) \/ PollFar(i) PROVE ReturnInv'
      BY <1>5, NoReturn DEF PollNear, PollFar
<1>6. ASSUME NEW i \in Motors, PollFails(i) PROVE ReturnInv'
  <2>1. /\ at = "polling" /\ i \notin done /\ result' = "TransportError"
        /\ UNCHANGED <<call, done, accepted>>
        BY <1>6 DEF PollFails, NextToPoll, Return
  <2>2. out'[i] = "TransportError" /\ \A j \in Motors \ {i} : out'[j] = "OK"
        BY <1>6, <2>1 DEF PollFails, Note, TypeInv, WaitInv
  <2>3. call = "move_all" => accepted = Motors
        BY <2>1 DEF DispatchInv
  <2>4. call \in {"wait_all_settled", "move_all"}
        BY <2>1 DEF CallInv
  <2>5. EntriesAreTrue' /\ FailureIsNamed'
        BY <2>1, <2>2, <2>3, <2>4 DEF EntriesAreTrue, FailureIsNamed, Returned, Success
  <2> QED BY <2>1, <2>2, <2>5 DEF ReturnInv, Returned
<1>7. CASE RoundEnds
  <2>1. /\ at = "polling" /\ UNCHANGED <<call, done, accepted>>
        /\ call \in {"wait_all_settled", "move_all"} /\ done \subseteq Motors
        /\ call = "move_all" => accepted = Motors
        BY <1>7 DEF RoundEnds, CallInv, DispatchInv, TypeInv
  <2>2. CASE AllSettled /\ Return("OK") /\ UNCHANGED out
        BY <2>1, <2>2 DEF AllSettled, Return, ReturnInv, EntriesAreTrue, FailureIsNamed, Returned,
                          WaitInv, Success
  <2>3. CASE /\ ~AllSettled /\ Return("Timeout")
             /\ out' = [i \in Motors |-> IF i \in done THEN out[i] ELSE "Timeout"]
    <3>1. PICK i \in Motors : i \notin done
          BY <2>1, <2>3 DEF AllSettled
    <3>2. out'[i] = "Timeout" /\ \A j \in Motors : j \in done => out'[j] = "OK"
          BY <2>1, <2>3, <3>1 DEF WaitInv
    <3>3. EntriesAreTrue' /\ FailureIsNamed'
          BY <2>1, <2>3, <3>2 DEF EntriesAreTrue, FailureIsNamed, Returned, Return, Success
    <3> QED BY <2>1, <2>3, <3>2, <3>3 DEF ReturnInv, Returned, Return
  <2>4. CASE at' = at
        BY <2>1, <2>4, NoReturn
  <2> QED BY <1>7, <2>2, <2>3, <2>4 DEF RoundEnds
<1>8. CASE Expire
      BY <1>8, NoReturn DEF Expire
<1>9. ASSUME NEW i \in Motors, Turn(i) \/ Arrives(i) \/ Stall(i) PROVE ReturnInv'
      BY <1>9, NoReturn DEF Turn, Arrives, Stall
<1>10. CASE UNCHANGED vars
       BY <1>10, NoReturn DEF vars
<1> QED BY <1>1, <1>2, <1>3, <1>4, <1>5, <1>6, <1>7, <1>8, <1>9, <1>10 DEF Next, Group

LEMMA GroupInit == Init => GroupInv
PROOF
<1> SUFFICES ASSUME Init PROVE GroupInv
    OBVIOUS
<1>1. TypeInv
      BY TypeInit
<1>2. CallInv /\ DispatchInv /\ ReturnInv
      BY DEF Init, CallInv, DispatchInv, ReturnInv, EntriesAreTrue, FailureIsNamed, Returned
<1>3. WaitInv
      BY WindowAssumption DEF Init, WaitInv
<1> QED BY <1>1, <1>2, <1>3 DEF GroupInv

LEMMA GroupInductive == Spec => []GroupInv
PROOF
<1>1. GroupInv /\ [Next]_vars => GroupInv'
      BY TypeStep, CallStep, DispatchStep, WaitStep, ReturnStep DEF GroupInv
<1> QED BY <1>1, GroupInit, PTL DEF Spec

----------------------------------------------------------------------------
(* What follows.                                                            *)

\* dispatch_all() and move_all() (motor_group.hpp:119-136, :234-265): an entry that
\* reports success means that the firmware of that motor accepted a MOVE in this
\* call, for any number of motors and whichever of them fail.
THEOREM EntriesTellTheTruth == Spec => []EntriesAreTrue
PROOF
<1>1. GroupInv => EntriesAreTrue
      BY DEF GroupInv, ReturnInv
<1> QED BY <1>1, GroupInductive, PTL

\* The status that a dispatch or a wait returns is the entry of some motor; and
\* when a dispatch returns OK, every motor has accepted its MOVE.
THEOREM FailuresAreNamed == Spec => []FailureIsNamed
PROOF
<1>1. GroupInv => FailureIsNamed
      BY DEF GroupInv, ReturnInv
<1> QED BY <1>1, GroupInductive, PTL

\* wait_all_settled() (motor_group.hpp:151-221): a motor that settled early in the
\* wait is still at its target when the last one settles and OK is returned.
THEOREM SettledStaysSettled == Spec => []OkMeansSettled
PROOF
<1>1. GroupInv => OkMeansSettled
      BY DEF GroupInv, ReturnInv, WaitInv, OkMeansSettled
<1> QED BY <1>1, GroupInductive, PTL

\* A time-out is not reported of a motor that the readings of the wait found at
\* its goal Window times in a row.
THEOREM TimeoutsAreReal == Spec => []TimeoutIsReal
PROOF
<1>1. GroupInv => TimeoutIsReal
      BY DEF GroupInv, ReturnInv, WaitInv, TimeoutIsReal
<1> QED BY <1>1, GroupInductive, PTL
=============================================================================
