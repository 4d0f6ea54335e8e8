----------------------------- MODULE MotorProofs -----------------------------
(***************************************************************************)
(* What holds of module Motor for any angles, limits, policies, tolerance   *)
(* and window, any width of an integer, and any number of calls and faults. *)
(***************************************************************************)
EXTENDS Motor, SequenceTheorems, WellFoundedInduction, TLAPS

\* A wait has neither seen enough yet nor failed too often.
PollInv == at = "polling" => inWindow < Window /\ errors <= MaxConsecErrors

\* LimitsKept, with the targets that are sent now or once more.
Limited(a) == a \in Lo..Hi \/ policy \in {"None", "Warn"}
LimitInv == LimitsKept /\ (at \in {"move", "release"} => Limited(target))

----------------------------------------------------------------------------
(* What can be on the line.                                                 *)

Originating == {"zeroing", "zeroing again", "origin"}

\* While the motor has not turned since the call, what a transaction finds on its
\* line tells where the motor is: the line was drained after the call.
FreshInv ==
    /\ at # "idle" => (at \in Originating <=> call = "set_origin")
    /\ at = "reading" => call \in {"read", "set_origin_soft"}
    /\ at # "idle" /\ still =>
         \A k \in DOMAIN line : line[k].op = "ENC" => line[k].val = enc
    /\ at \in {"zeroing", "zeroing again"} /\ still =>
         \A k \in DOMAIN line : line[k].op = "ZERO" /\ line[k].val = 1 => zero = enc
    /\ at = "origin" /\ still => zero = enc
    /\ Returned("set_origin") /\ result = "OK" /\ still /\ ~unread =>
         zero = enc /\ offset = Int32(enc)

\* The request a stage waits for, MOVE aside.
Awaited ==
    CASE at = "release" -> "RELEASE"
      [] at \in {"polling", "reading", "current", "origin"} -> "ENC"
      [] at \in {"zeroing", "zeroing again"} -> "ZERO"
      [] OTHER -> "MOVE"

IsMove(k) == inbox[k].op = "MOVE"
Own(k) == IsMove(k) /\ inbox[k].arg = target

\* Unless a transaction gave up early, all requests on their way are MOVEs but
\* the last, which is the one whose answer is awaited and has no answer yet.
QueueInv ==
    late = 0 =>
      /\ \A k \in DOMAIN inbox : k < Len(inbox) => IsMove(k)
      /\ inbox # <<>> => inbox[Len(inbox)].op = Awaited
      /\ Awaited # "MOVE" /\ inbox # <<>> =>
           \A k \in DOMAIN line : line[k].op # Awaited
      /\ at \in {"move", "retry"} /\ inbox # <<>> => Own(Len(inbox))
      /\ at = "polling" /\ Len(inbox) > 1 => Own(Len(inbox) - 1)

\* The motor turns, if it does, towards the target of the call.
Driven == moving => goal = zero + target
Accepted == \E k \in DOMAIN line : line[k].op = "MOVE" /\ line[k].val = 1
NoMoves == \A k \in DOMAIN inbox : ~IsMove(k)

\* Without a lost frame, the motor is driven to the target once the MOVE of the
\* call has been executed.
ExecutedInv ==
    late = 0 /\ lost = 0 =>
      /\ at \in {"move", "retry"} /\ inbox = <<>> => Driven
      /\ at = "polling" /\ NoMoves => Driven

\* And with lost frames, if no MOVE was sent before whose first answer can stand
\* for that of the call's own, which is then the only one on its way.
Claims ==
    /\ at \notin {"move", "retry"} => NoMoves
    /\ at = "current" => ~refused
    /\ at \in {"move", "retry"} => Len(inbox) <= 1
    /\ at \in {"move", "retry"} /\ inbox # <<>> => ~Accepted
    /\ at \in {"move", "retry"} /\ Accepted => Driven
    /\ at = "move" /\ refused => inbox = <<>> /\ ~moving
    /\ at = "release" => refused /\ ~moving
    /\ at = "retry" => refused
    /\ at = "retry" /\ inbox # <<>> => ~moving /\ ~Has("MOVE")
    /\ at = "polling" => Driven
ClaimedInv == late = 0 /\ ~unclaimed => Claims

\* A firmware with a stall latched does not turn the motor.
LatchInv == ~(latched /\ moving)

CloseTo(c) == (c - (zero + target)) \in -Tolerance..Tolerance

\* A reading near the target is of a motor that stays near it, and so is the last
\* one of a call that succeeds.
Sound == late = 0 /\ (lost = 0 \/ ~unclaimed)
Waited == call \in {"write", "move_relative"} /\ blocking /\ result \in {"OK", "LimitWarned"}
Watched == \A k \in DOMAIN line : line[k].op = "ENC" /\ CloseTo(line[k].val) => CloseTo(enc)
Reached == inbox = <<>> /\ Driven /\ (Aligned /\ InReach => CloseTo(enc))
ArrivalInv ==
    Sound => /\ at = "polling" => Watched
             /\ at = "idle" /\ Waited => Reached

----------------------------------------------------------------------------
(* Lemmas about sequences and integers.                                     *)

Less == {ss \in Nat \X Nat : ss[1] < ss[2]}

\* The order of the natural numbers is well-founded.
LEMMA LessIsWellFounded == IsWellFoundedOn(Less, Nat)
PROOF
<1>1. OpToRel(<, Nat) = Less
      BY DEF OpToRel, Less
<1> QED BY <1>1, NatLessThanWellFounded, Zenon

\* A set of natural numbers that is not empty has a least one.
LEMMA LeastExists ==
    ASSUME NEW T, T \subseteq Nat, T # {}
    PROVE  \E x \in T : \A y \in T : x <= y
PROOF
<1>1. PICK x \in T : \A y \in T : <<y, x>> \notin Less
      BY LessIsWellFounded, WFMin, Zenon
<1>2. ASSUME NEW y \in T PROVE x <= y
  <2>1. x \in Nat /\ y \in Nat
        OBVIOUS
  <2>2. <<y, x>> \in Less <=> y < x
        BY <2>1 DEF Less
  <2> QED BY <1>1, <2>1, <2>2
<1> QED BY <1>2, Zenon

\* The frame that a transaction takes is one of those on the line.
LEMMA FirstIsThere ==
    ASSUME NEW S, line \in Seq(S), NEW op, Has(op)
    PROVE  First(op) \in DOMAIN line /\ line[First(op)].op = op
PROOF
<1> DEFINE T == {j \in DOMAIN line : line[j].op = op}
<1>1. T \subseteq Nat /\ T # {} /\ DOMAIN line = 1..Len(line)
      BY LenProperties DEF Has
<1>2. PICK x \in T : \A y \in T : x <= y
      BY <1>1, LeastExists, Zenon
<1>3. x \in DOMAIN line /\ line[x].op = op /\ \A j \in 1..(x - 1) : line[j].op # op
  <2>1. ASSUME NEW j \in 1..(x - 1), line[j].op = op PROVE FALSE
        BY <1>1, <1>2, <2>1
  <2> QED BY <1>2, <2>1
<1> QED BY <1>3 DEF First

LEMMA Int32Type == \A n \in Int : Int32(n) \in -Half..(Half - 1)
PROOF
<1> SUFFICES ASSUME NEW n \in Int PROVE Int32(n) \in -Half..(Half - 1)
    OBVIOUS
<1> DEFINE m == 2 * Half
<1>1. m \in Nat /\ m > 0 /\ Half \in Nat
      BY CountsAssumption
<1>2. (n + Half) % m \in 0..(m - 1)
  <2> HIDE DEF m
  <2> QED BY <1>1
<1> QED BY <1>1, <1>2 DEF Int32

\* What fits is left as it is.
LEMMA Int32Fits == \A n \in -Half..(Half - 1) : Int32(n) = n
PROOF
<1> SUFFICES ASSUME NEW n \in -Half..(Half - 1) PROVE Int32(n) = n
    OBVIOUS
<1> DEFINE m == 2 * Half
<1>1. m \in Nat /\ m > 0 /\ Half \in Nat /\ n \in Int /\ n + Half \in 0..(m - 1)
      BY CountsAssumption
<1>2. \A x \in 0..(m - 1) : x % m = x
  <2> HIDE DEF m
  <2> QED BY <1>1
<1>3. (n + Half) % m = n + Half
  <2> HIDE DEF m
  <2> QED BY <1>1, <1>2
<1> QED BY <1>1, <1>3 DEF Int32

----------------------------------------------------------------------------
(* Types.                                                                   *)

LEMMA InitTypes == Init => TypeOK /\ PollInv
PROOF
<1> SUFFICES ASSUME Init PROVE TypeOK /\ PollInv
    OBVIOUS
<1> USE LimitsAssumption, CountsAssumption, BoundsAssumption
<1>1. 0 \in -Half..(Half - 1) /\ 0 \in 0..Window /\ 0 \in 0..(MaxConsecErrors + 1)
      OBVIOUS
<1>2. enc \in Int /\ zero \in Int /\ goal \in Int
      BY DEF Init
<1>3. <<>> \in Seq(Request) /\ <<>> \in Seq(Frame)
      OBVIOUS
<1>4. policy \in Policies /\ speedPolicy \in Policies /\ auto \in BOOLEAN
      BY DEF Init
<1>5. inbox \in Seq(Request) /\ line \in Seq(Frame)
      BY <1>3 DEF Init
<1>6. /\ offset \in -Half..(Half - 1) /\ inWindow \in 0..Window /\ errors \in 0..(MaxConsecErrors + 1)
      /\ calls \in 0..MaxCalls
      /\ lost \in 0..MaxFaults /\ late \in 0..MaxFaults /\ stalls \in 0..MaxFaults
      BY <1>1 DEF Init
<1>7. at = "idle" /\ call = "none" /\ target \in Int /\ delta \in Int /\ result = "OK"
      BY DEF Init
<1>8. /\ blocking \in BOOLEAN /\ warned \in BOOLEAN /\ expired \in BOOLEAN
      /\ moving \in BOOLEAN /\ latched \in BOOLEAN /\ still \in BOOLEAN /\ refused \in BOOLEAN
      /\ unread \in BOOLEAN /\ unclaimed \in BOOLEAN
      BY DEF Init
<1> QED BY <1>2, <1>4, <1>5, <1>6, <1>7, <1>8 DEF TypeOK, PollInv, Statuses, CallNames

\* An answer that is taken is a number.
LEMMA AnswerType ==
    ASSUME TypeOK, NEW op, Has(op)
    PROVE  /\ Answer(op) \in Int /\ Rest(op) \in Seq(Frame)
           /\ First(op) \in DOMAIN line /\ line[First(op)].op = op
PROOF
<1>1. line \in Seq(Frame)
      BY DEF TypeOK, Frame, Ops
<1>2. First(op) \in DOMAIN line /\ line[First(op)].op = op
      BY <1>1, FirstIsThere
<1>3. First(op) \in 1..Len(line) /\ Len(line) \in Nat
      BY <1>1, <1>2, LenProperties
<1>4. Answer(op) \in Int
  <2>1. line[First(op)] \in Frame
        BY <1>1, <1>3, ElementOfSeq
  <2> QED BY <2>1 DEF Answer, Frame
<1>5. Rest(op) \in Seq(Frame)
  <2>1. \A i \in (First(op) + 1)..Len(line) : line[i] \in Frame
        BY <1>1, <1>3, ElementOfSeq
  <2> QED BY <1>3, <2>1, SubSeqProperties DEF Rest
<1> QED BY <1>2, <1>4, <1>5

\* A transaction begins.
LEMMA TransactTypes ==
    ASSUME inbox \in Seq(Request), NEW stage, NEW op \in Ops, NEW arg \in Int,
           call' \in CallNames, Transact(stage, op, arg)
    PROVE  inbox' \in Seq(Request) /\ line' \in Seq(Frame) /\ at' = stage
PROOF
<1>1. [op |-> op, arg |-> arg, call |-> call'] \in Request
      BY DEF Request
<1> QED BY <1>1, AppendProperties DEF Transact

Stages == {"idle", "move", "retry", "release", "polling", "reading", "current",
           "zeroing", "zeroing again", "origin"}

\* The parts of the type invariant that change together.
ConfigType ==
    /\ policy \in Policies /\ speedPolicy \in Policies /\ auto \in BOOLEAN
CallType ==
    /\ offset \in -Half..(Half - 1) /\ at \in Stages /\ call \in CallNames
    /\ target \in Int /\ delta \in Int /\ blocking \in BOOLEAN /\ warned \in BOOLEAN
    /\ result \in Statuses /\ calls \in 0..MaxCalls
PollType ==
    /\ expired \in BOOLEAN /\ inWindow \in 0..Window /\ errors \in 0..(MaxConsecErrors + 1)
LineType == inbox \in Seq(Request) /\ line \in Seq(Frame)
FirmwareType ==
    /\ enc \in Int /\ zero \in Int /\ goal \in Int /\ moving \in BOOLEAN /\ latched \in BOOLEAN
HistoryType ==
    /\ still \in BOOLEAN /\ refused \in BOOLEAN /\ unread \in BOOLEAN /\ unclaimed \in BOOLEAN
FaultType == lost \in 0..MaxFaults /\ late \in 0..MaxFaults /\ stalls \in 0..MaxFaults

LEMMA TypeParts ==
    TypeOK <=> /\ ConfigType /\ CallType /\ PollType /\ LineType
               /\ FirmwareType /\ HistoryType /\ FaultType
PROOF BY DEF TypeOK, ConfigType, CallType, PollType, LineType, FirmwareType, HistoryType,
             FaultType, Stages, CallNames, Request, Frame, Ops

LEMMA TypePartsNext ==
    TypeOK' <=> /\ ConfigType' /\ CallType' /\ PollType' /\ LineType'
                /\ FirmwareType' /\ HistoryType' /\ FaultType'
PROOF BY TypeParts, PTL

\* A transaction that gives up.
LEMMA FailsTypes ==
    ASSUME FaultType, NEW op, Fails(op)
    PROVE  FaultType'
PROOF BY BoundsAssumption DEF Fails, Faulty, FaultType

LEMMA PositionType ==
    ASSUME NEW a \in Int
    PROVE  ApplyPosition(a) \in Int
PROOF BY LimitsAssumption DEF ApplyPosition, Clamp

\* write(), from its limits to its first transaction.
LEMMA StartWriteTypes ==
    ASSUME CallType, LineType, NEW a \in Int, NEW fast \in BOOLEAN, call' \in CallNames,
           StartWrite(a, fast)
    PROVE  /\ target' \in Int /\ warned' \in BOOLEAN /\ result' \in Statuses
           /\ at' \in {"idle", "move"} /\ LineType'
PROOF
<1>1. CASE Return("LimitExceeded") /\ UNCHANGED <<target, warned, line, inbox>>
      BY <1>1 DEF CallType, LineType, Return, Statuses
<1>2. CASE /\ target' = ApplyPosition(a) /\ warned' = Warned(a, fast)
           /\ Transact("move", "MOVE", target') /\ UNCHANGED result
  <2>1. target' \in Int
        BY <1>2, PositionType
  <2>2. LineType' /\ at' = "move"
        BY <1>2, <2>1, TransactTypes DEF LineType, Ops
  <2>3. warned' \in BOOLEAN
        BY <1>2 DEF Warned
  <2> QED BY <1>2, <2>1, <2>2, <2>3 DEF CallType
<1> QED BY <1>1, <1>2 DEF StartWrite

\* The client calls.
LEMMA CallTypes ==
    ASSUME CallType, HistoryType, NEW name \in CallNames, Call(name)
    PROVE  /\ call' \in CallNames /\ calls' \in 0..MaxCalls
           /\ HistoryType'
PROOF
<1>1. call' \in CallNames
      BY DEF Call
<1>2. calls' \in 0..MaxCalls
      BY BoundsAssumption DEF Call, CallType
<1>3. HistoryType'
      BY Zenon DEF Call, HistoryType
<1> QED BY <1>1, <1>2, <1>3

LEMMA CallsKeepTypes ==
    ASSUME TypeOK, PollInv, Calls
    PROVE  TypeOK' /\ PollInv'
PROOF
<1> USE DEF config, pollVars, firmware, faults
<1>0. /\ ConfigType /\ CallType /\ PollType /\ LineType /\ FirmwareType /\ HistoryType /\ FaultType
      BY TypeParts
<1>1. ASSUME NEW a \in Angles, NEW fast \in BOOLEAN, NEW block \in BOOLEAN, Write(a, fast, block)
      PROVE  TypeOK' /\ PollInv'
  <2>1. call' \in CallNames /\ calls' \in 0..MaxCalls /\ HistoryType'
        BY <1>0, <1>1, CallTypes DEF Write, CallNames
  <2>2. /\ target' \in Int /\ warned' \in BOOLEAN /\ result' \in Statuses
        /\ at' \in {"idle", "move"} /\ LineType'
        BY <1>0, <1>1, <2>1, StartWriteTypes, LimitsAssumption DEF Write
  <2>3. CallType'
        BY <1>0, <1>1, <2>1, <2>2 DEF CallType, Write, Stages
  <2>4. ConfigType' /\ PollType' /\ FirmwareType' /\ FaultType' /\ PollInv'
        BY <1>0, <1>1, <2>2 DEF Write, ConfigType, PollType, FirmwareType, FaultType, PollInv
  <2> QED BY <2>1, <2>2, <2>3, <2>4, TypePartsNext
<1>2. ASSUME NEW a \in Angles, DispatchWrite(a) PROVE TypeOK' /\ PollInv'
  <2>1. call' \in CallNames /\ calls' \in 0..MaxCalls /\ HistoryType'
        BY <1>0, <1>2, CallTypes DEF DispatchWrite, CallNames
  <2>2. target' \in Int
        BY <1>2, PositionType, LimitsAssumption DEF DispatchWrite
  <2>3. [op |-> "MOVE", arg |-> target', call |-> call'] \in Request
        BY <2>1, <2>2 DEF Request, Ops
  <2>4. LineType'
        BY <1>0, <1>2, <2>3, AppendProperties DEF DispatchWrite, LineType
  <2>5. CallType'
        BY <1>0, <1>2, <2>1, <2>2 DEF CallType, DispatchWrite, Return, Stages, Statuses
  <2>6. ConfigType' /\ PollType' /\ FirmwareType' /\ FaultType' /\ PollInv'
        BY <1>0, <1>2 DEF DispatchWrite, Return, ConfigType, PollType, FirmwareType, FaultType, PollInv
  <2> QED BY <2>1, <2>4, <2>5, <2>6, TypePartsNext
<1>3. ASSUME NEW name \in {"read", "set_origin_soft", "move_relative", "set_origin"}, Call(name),
             NEW stage \in {"reading", "current", "zeroing"}, NEW op \in Ops, Transact(stage, op, 0),
             delta' \in Int, blocking' \in BOOLEAN,
             UNCHANGED <<config, offset, target, warned, result, pollVars, firmware, faults>>
      PROVE  TypeOK' /\ PollInv'
  <2>1. call' \in CallNames /\ calls' \in 0..MaxCalls /\ HistoryType'
        BY <1>0, <1>3, CallTypes DEF CallNames
  <2>2. LineType' /\ at' = stage
        BY <1>0, <1>3, <2>1, TransactTypes DEF LineType
  <2>3. CallType'
        BY <1>0, <1>3, <2>1, <2>2 DEF CallType, Stages
  <2>4. ConfigType' /\ PollType' /\ FirmwareType' /\ FaultType' /\ PollInv'
        BY <1>0, <1>3, <2>2 DEF ConfigType, PollType, FirmwareType, FaultType, PollInv
  <2> QED BY <2>1, <2>2, <2>3, <2>4, TypePartsNext
<1>4. ASSUME NEW name \in {"read", "set_origin_soft"}, Read(name) PROVE TypeOK' /\ PollInv'
      BY <1>0, <1>3, <1>4 DEF Read, Ops, CallType
<1>5. ASSUME NEW d \in Deltas, NEW block \in BOOLEAN, MoveRelative(d, block)
      PROVE  TypeOK' /\ PollInv'
  <2>1. delta' \in Int
        BY <1>5, LimitsAssumption DEF MoveRelative
  <2> QED BY <1>0, <1>3, <1>5, <2>1 DEF MoveRelative, Ops
<1>6. CASE SetOrigin
      BY <1>0, <1>3, <1>6 DEF SetOrigin, Ops, CallType
<1> QED BY <1>1, <1>2, <1>4, <1>5, <1>6 DEF Calls

\* The poll of wait_for_position() goes on, or gives up.
LEMMA PollAgainTypes ==
    ASSUME LineType, CallType, UNCHANGED call, PollAgain
    PROVE  LineType' /\ at' \in {"polling", "idle"} /\ result' \in Statuses
PROOF
<1>1. CASE Return("Timeout") /\ UNCHANGED <<line, inbox>>
      BY <1>1 DEF Return, LineType, Statuses
<1>2. CASE Transact("polling", "ENC", 0) /\ UNCHANGED result
  <2>1. "ENC" \in Ops /\ call' \in CallNames
        BY DEF Ops, CallType
  <2> QED BY <1>2, <2>1, TransactTypes DEF LineType, CallType
<1> QED BY <1>1, <1>2 DEF PollAgain

LEMMA MotorKeepsTypes ==
    ASSUME TypeOK, PollInv, Motor
    PROVE  TypeOK' /\ PollInv'
PROOF
<1> USE DEF config, callVars, pollVars, firmware, history, faults
<1> DEFINE others == ConfigType' /\ FirmwareType' /\ HistoryType' /\ FaultType'
<1>0. /\ ConfigType /\ CallType /\ PollType /\ LineType /\ FirmwareType /\ HistoryType /\ FaultType
      BY TypeParts
<1>1. /\ "ENC" \in Ops /\ "MOVE" \in Ops /\ "ZERO" \in Ops /\ "RELEASE" \in Ops
      /\ 0 \in Int /\ call \in CallNames /\ target \in Int
      BY <1>0 DEF Ops, CallType
<1>2. ASSUME others, CallType', PollType', LineType', PollInv' PROVE TypeOK' /\ PollInv'
      BY <1>2, TypePartsNext
<1>3. CASE MoveAnswered
  <2>1. Has("MOVE") /\ Rest("MOVE") \in Seq(Frame)
        BY <1>3, AnswerType DEF MoveAnswered
  <2>2. ConfigType' /\ FirmwareType' /\ FaultType'
        BY <1>0, <1>3 DEF MoveAnswered, ConfigType, FirmwareType, FaultType
  <2>3. HistoryType'
    <3>1. still' = still /\ refused' = refused /\ unread' = unread
          /\ unclaimed' = (unclaimed \/ (Answer("MOVE") # 1 /\ ~refused))
          BY <1>3 DEF MoveAnswered
    <3> QED BY <1>0, <3>1, Zenon DEF HistoryType
  <2>4. CASE /\ Transact("polling", "ENC", 0) /\ inWindow' = 0 /\ errors' = 0 /\ expired' = FALSE
             /\ UNCHANGED result
    <3>1. LineType' /\ at' = "polling"
          BY <1>0, <1>1, <1>3, <2>4, TransactTypes DEF MoveAnswered, LineType
    <3>2. PollType' /\ PollInv'
      <4>1. inWindow' = 0 /\ errors' = 0 /\ expired' \in BOOLEAN
            BY <2>4
      <4>2. 0 \in 0..Window /\ 0 < Window /\ 0 \in 0..(MaxConsecErrors + 1) /\ 0 <= MaxConsecErrors
            BY CountsAssumption
      <4> QED BY <4>1, <4>2 DEF PollType, PollInv
    <3>3. CallType'
          BY <1>0, <1>3, <2>4, <3>1 DEF MoveAnswered, CallType, Stages
    <3> QED BY <1>2, <2>2, <2>3, <3>1, <3>2, <3>3
  <2>5. CASE /\ at' = "idle" /\ result' \in Statuses /\ line' = Rest("MOVE")
             /\ UNCHANGED <<pollVars, inbox>>
    <3>1. LineType' /\ PollType' /\ PollInv'
          BY <1>0, <2>1, <2>5 DEF LineType, PollType, PollInv
    <3>2. CallType'
          BY <1>0, <1>3, <2>5 DEF MoveAnswered, CallType, Stages
    <3> QED BY <1>2, <2>2, <2>3, <3>1, <3>2
  <2>6. CASE Transact("release", "RELEASE", 0) /\ UNCHANGED <<result, pollVars>>
    <3>1. LineType' /\ at' = "release"
          BY <1>0, <1>1, <1>3, <2>6, TransactTypes DEF MoveAnswered, LineType
    <3>2. CallType' /\ PollType' /\ PollInv'
          BY <1>0, <1>3, <2>6, <3>1 DEF MoveAnswered, CallType, Stages, PollType, PollInv
    <3> QED BY <1>2, <2>2, <2>3, <3>1, <3>2
  <2> QED BY <1>3, <2>4, <2>5, <2>6 DEF MoveAnswered, Return, Statuses
<1>4. ASSUME NEW op, Fails(op), Return("TransportError"),
             UNCHANGED <<config, offset, call, target, delta, blocking, warned, calls, pollVars,
                         inbox, line, firmware, history>>
      PROVE  TypeOK' /\ PollInv'
  <2>1. FaultType'
        BY <1>0, <1>4, FailsTypes
  <2>2. others /\ LineType' /\ PollType' /\ PollInv'
        BY <1>0, <1>4, <2>1
        DEF ConfigType, FirmwareType, HistoryType, LineType, PollType, PollInv, Return
  <2>3. CallType'
        BY <1>0, <1>4 DEF CallType, Return, Stages, Statuses
  <2> QED BY <1>2, <2>2, <2>3
<1>5. CASE MoveFails \/ ReadFails
      BY <1>4, <1>5 DEF MoveFails, ReadFails
<1>6. CASE ReleaseEnds
  <2>1. FaultType'
        BY <1>0, <1>6, FailsTypes DEF ReleaseEnds, FaultType
  <2>2. LineType' /\ at' = "retry"
        BY <1>0, <1>1, <1>6, TransactTypes DEF ReleaseEnds, LineType
  <2>3. others /\ PollType' /\ PollInv'
        BY <1>0, <1>6, <2>1, <2>2 DEF ReleaseEnds, ConfigType, FirmwareType, HistoryType, PollType, PollInv
  <2>4. CallType'
        BY <1>0, <1>6, <2>2 DEF ReleaseEnds, CallType, Stages
  <2> QED BY <1>2, <2>2, <2>3, <2>4
<1>7. CASE Arrived
  <2>1. others /\ PollType'
        BY <1>0, <1>7, CountsAssumption
        DEF Arrived, ConfigType, FirmwareType, HistoryType, FaultType, PollType, PollInv
  <2>2. LineType' /\ PollInv'
        BY <1>0, <1>7 DEF Arrived, Return, LineType, PollInv
  <2>3. CallType'
        BY <1>0, <1>7 DEF Arrived, Return, CallType, Stages, Statuses
  <2> QED BY <1>2, <2>1, <2>2, <2>3
<1>8. CASE NotArrived
  <2>1. LineType' /\ at' \in {"polling", "idle"} /\ result' \in Statuses
        BY <1>0, <1>8, PollAgainTypes DEF NotArrived
  <2>2. others
        BY <1>0, <1>8 DEF NotArrived, ConfigType, FirmwareType, HistoryType, FaultType
  <2>3. PollType' /\ PollInv'
        BY <1>0, <1>8, CountsAssumption DEF NotArrived, PollType, PollInv
  <2>4. CallType'
        BY <1>0, <1>8, <2>1 DEF NotArrived, CallType, Stages
  <2> QED BY <1>2, <2>1, <2>2, <2>3, <2>4
<1>9. CASE PollFails
  <2>1. FaultType'
        BY <1>0, <1>9, FailsTypes DEF PollFails
  <2>2. others
        BY <1>0, <1>9, <2>1 DEF PollFails, ConfigType, FirmwareType, HistoryType
  <2>3. LineType' /\ at' \in {"polling", "idle"} /\ result' \in Statuses
             /\ (at' = "polling" => errors' <= MaxConsecErrors)
    <3>1. CASE errors' > MaxConsecErrors
          BY <1>0, <1>9, <3>1 DEF PollFails, Return, LineType, Statuses
    <3>2. CASE ~(errors' > MaxConsecErrors)
      <4>1. errors' \in Int /\ PollAgain /\ UNCHANGED call
            BY <1>0, <1>9, <3>2, CountsAssumption DEF PollFails, PollType
      <4> QED BY <1>0, <3>2, <4>1, PollAgainTypes, CountsAssumption
    <3> QED BY <3>1, <3>2
  <2>4. PollType' /\ PollInv'
        BY <1>0, <1>9, <2>3, CountsAssumption DEF PollFails, PollType, PollInv
  <2>5. CallType'
        BY <1>0, <1>9, <2>3 DEF PollFails, CallType, Stages
  <2> QED BY <1>2, <2>2, <2>3, <2>4, <2>5
<1>10. CASE ReadAnswered \/ OriginAnswered
  <2>1. Has("ENC") /\ line' = Rest("ENC")
        BY <1>10 DEF ReadAnswered, OriginAnswered
  <2>2. Int32(Answer("ENC")) \in -Half..(Half - 1) /\ line' \in Seq(Frame)
        BY <2>1, AnswerType, Int32Type
  <2>3. others /\ LineType' /\ PollType' /\ PollInv'
        BY <1>0, <1>10, <2>2 DEF ReadAnswered, OriginAnswered, Return, ConfigType, FirmwareType,
                                 HistoryType, FaultType, LineType, PollType, PollInv
  <2>4. CallType'
        BY <1>0, <1>10, <2>2 DEF ReadAnswered, OriginAnswered, Return, CallType, Stages, Statuses
  <2> QED BY <1>2, <2>3, <2>4
<1>11. CASE CurrentAnswered
  <2>1. Answer("ENC") \in Int
        BY <1>11, AnswerType DEF CurrentAnswered
  <2>2. CountsToAngle(Answer("ENC")) + delta \in Int
        BY <1>0, <2>1, CountsAssumption DEF CountsToAngle, CallType
  <2>3. PICK fast \in BOOLEAN : StartWrite(CountsToAngle(Answer("ENC")) + delta, fast)
        BY <1>11 DEF CurrentAnswered
  <2>4. call' \in CallNames
        BY <1>1, <1>11 DEF CurrentAnswered
  <2>5. /\ target' \in Int /\ warned' \in BOOLEAN /\ result' \in Statuses
        /\ at' \in {"idle", "move"} /\ LineType'
        BY <1>0, <2>2, <2>3, <2>4, StartWriteTypes
  <2>6. others /\ PollType' /\ PollInv'
        BY <1>0, <1>11, <2>5 DEF CurrentAnswered, ConfigType, FirmwareType, HistoryType, FaultType,
                                 PollType, PollInv
  <2>7. CallType'
        BY <1>0, <1>11, <2>4, <2>5 DEF CurrentAnswered, CallType, Stages
  <2> QED BY <1>2, <2>5, <2>6, <2>7
<1>12. CASE ZeroAnswered
  <2>1. LineType' /\ at' \in {"origin", "idle"} /\ result' \in Statuses
    <3>1. CASE Transact("origin", "ENC", 0) /\ UNCHANGED result
          BY <1>0, <1>1, <1>12, <3>1, TransactTypes DEF ZeroAnswered, LineType, CallType
    <3>2. CASE Return("NotEnabled") /\ line' = Rest("ZERO") /\ UNCHANGED inbox
          BY <1>0, <1>12, <3>2, AnswerType DEF ZeroAnswered, Return, LineType, Statuses
    <3> QED BY <1>12, <3>1, <3>2 DEF ZeroAnswered
  <2>2. others /\ PollType' /\ PollInv'
        BY <1>0, <1>12, <2>1 DEF ZeroAnswered, ConfigType, FirmwareType, HistoryType, FaultType,
                                 PollType, PollInv
  <2>3. CallType'
        BY <1>0, <1>12, <2>1 DEF ZeroAnswered, CallType, Stages
  <2> QED BY <1>2, <2>1, <2>2, <2>3
<1>13. CASE ZeroFails
  <2>1. FaultType'
        BY <1>0, <1>13, FailsTypes DEF ZeroFails
  <2>2. LineType' /\ at' \in {"zeroing again", "idle"} /\ result' \in Statuses /\ call' = call
    <3>1. CASE Transact("zeroing again", "ZERO", 0) /\ UNCHANGED <<call, result>>
          BY <1>0, <1>1, <3>1, TransactTypes DEF LineType, CallType
    <3>2. CASE Return("TransportError") /\ UNCHANGED <<call, line, inbox>>
          BY <1>0, <3>2 DEF Return, LineType, Statuses
    <3> QED BY <1>13, <3>1, <3>2 DEF ZeroFails
  <2>3. others /\ PollType' /\ PollInv'
        BY <1>0, <1>13, <2>1, <2>2 DEF ZeroFails, ConfigType, FirmwareType, HistoryType, PollType, PollInv
  <2>4. CallType'
        BY <1>0, <1>13, <2>2 DEF ZeroFails, CallType, Stages
  <2> QED BY <1>2, <2>2, <2>3, <2>4
<1>14. CASE OriginFails
  <2>1. FaultType'
        BY <1>0, <1>14, FailsTypes DEF OriginFails
  <2>2. others /\ LineType' /\ PollType' /\ PollInv'
        BY <1>0, <1>14, <2>1 DEF OriginFails, Return, ConfigType, FirmwareType, HistoryType, LineType,
                                 PollType, PollInv
  <2>3. 0 \in -Half..(Half - 1)
        BY CountsAssumption
  <2>4. CallType'
        BY <1>0, <1>14, <2>3 DEF OriginFails, Return, CallType, Stages, Statuses
  <2> QED BY <1>2, <2>2, <2>4
<1> QED BY <1>3, <1>5, <1>6, <1>7, <1>8, <1>9, <1>10, <1>11, <1>12, <1>13, <1>14 DEF Motor

\* The firmware executes a request, or answers.
LEMMA EffectTypes ==
    ASSUME TypeOK, NEW r, NEW val, r \in Request, Effect(r, val)
    PROVE  /\ FirmwareType' /\ refused' \in BOOLEAN /\ r.op \in Ops
PROOF
<1>1. FirmwareType /\ HistoryType /\ r.op \in Ops /\ r.arg \in Int
      BY TypeParts DEF Request
<1>2. refused' \in BOOLEAN
  <2>1. refused' = refused \/ refused' = (refused \/ r.call = call)
        BY DEF Effect
  <2> QED BY <1>1, <2>1, Zenon DEF HistoryType
<1>3. FirmwareType'
  <2>1. zero + r.arg \in Int
        BY <1>1 DEF FirmwareType
  <2> QED BY <1>1, <2>1 DEF Effect, firmware, FirmwareType
<1> QED BY <1>1, <1>2, <1>3

LEMMA ReplyType ==
    ASSUME line \in Seq(Frame), NEW op \in Ops, NEW val \in Int, Reply(op, val)
    PROVE  line' \in Seq(Frame)
PROOF
<1>1. [op |-> op, val |-> val] \in Frame
      BY DEF Frame
<1> QED BY <1>1, AppendProperties DEF Reply

LEMMA HeadType ==
    ASSUME inbox \in Seq(Request), inbox # <<>>
    PROVE  Head(inbox) \in Request /\ Tail(inbox) \in Seq(Request)
PROOF BY HeadTailProperties

LEMMA FirmwareKeepsTypes ==
    ASSUME TypeOK, PollInv, Firmware
    PROVE  TypeOK' /\ PollInv'
PROOF
<1> USE DEF config, callVars, pollVars, faults
<1>0. /\ ConfigType /\ CallType /\ PollType /\ LineType /\ FirmwareType /\ HistoryType /\ FaultType
      BY TypeParts
<1>1. ASSUME UNCHANGED <<config, offset, at, callVars, pollVars>>,
             LineType', FirmwareType', HistoryType', FaultType'
      PROVE  TypeOK' /\ PollInv'
  <2>1. ConfigType' /\ CallType' /\ PollType' /\ PollInv'
        BY <1>0, <1>1 DEF ConfigType, CallType, PollType, PollInv
  <2> QED BY <1>1, <2>1, TypePartsNext
<1>2. CASE Execute
  <2>1. PICK val \in Values : Effect(Head(inbox), val) /\ Reply(Head(inbox).op, val)
        BY <1>2 DEF Execute
  <2>2. Head(inbox) \in Request /\ inbox' \in Seq(Request) /\ val \in Int
        BY <1>0, <1>2, HeadType DEF Execute, LineType, Values, FirmwareType
  <2>3. FirmwareType' /\ refused' \in BOOLEAN /\ Head(inbox).op \in Ops
        BY <2>1, <2>2, EffectTypes
  <2>4. LineType'
        BY <1>0, <2>1, <2>2, <2>3, ReplyType DEF LineType
  <2>5. HistoryType' /\ FaultType'
        BY <1>0, <1>2, <2>3 DEF Execute, HistoryType, FaultType
  <2> QED BY <1>1, <1>2, <2>3, <2>4, <2>5 DEF Execute
<1>3. CASE RefuseZero
  <2>1. inbox' \in Seq(Request)
        BY <1>0, <1>3, HeadType DEF RefuseZero, LineType
  <2>2. LineType'
        BY <1>0, <1>3, <2>1, ReplyType DEF RefuseZero, LineType, Ops
  <2>3. FirmwareType' /\ HistoryType' /\ FaultType'
        BY <1>0, <1>3 DEF RefuseZero, firmware, history, FirmwareType, HistoryType, FaultType
  <2> QED BY <1>1, <1>3, <2>2, <2>3 DEF RefuseZero
<1>4. CASE Lose
  <2>1. Head(inbox) \in Request /\ inbox' \in Seq(Request)
        BY <1>0, <1>4, HeadType DEF Lose, LineType
  <2>2. FirmwareType' /\ refused' \in BOOLEAN
    <3>1. CASE UNCHANGED <<firmware, refused>>
          BY <1>0, <3>1 DEF firmware, FirmwareType, HistoryType
    <3>2. ASSUME NEW val \in Values, Effect(Head(inbox), val) PROVE FirmwareType' /\ refused' \in BOOLEAN
          BY <2>1, <3>2, EffectTypes
    <3> QED BY <1>4, <3>1, <3>2 DEF Lose
  <2>3. LineType'
        BY <1>0, <1>4, <2>1 DEF Lose, LineType
  <2>4. FaultType'
        BY <1>0, <1>4, BoundsAssumption DEF Lose, Faulty, FaultType
  <2>5. HistoryType'
        BY <1>0, <1>4, <2>2 DEF Lose, HistoryType
  <2> QED BY <1>1, <1>4, <2>2, <2>3, <2>4, <2>5 DEF Lose
<1>5. CASE Turn
  <2>1. FirmwareType'
        BY <1>0, <1>5 DEF Turn, FirmwareType
  <2>2. LineType' /\ HistoryType' /\ FaultType'
        BY <1>0, <1>5 DEF Turn, LineType, HistoryType, FaultType
  <2> QED BY <1>1, <1>5, <2>1, <2>2 DEF Turn
<1>6. CASE Complete
  <2>1. LineType'
        BY <1>0, <1>6, ReplyType DEF Complete, LineType, Ops
  <2>2. FirmwareType' /\ HistoryType' /\ FaultType'
        BY <1>0, <1>6 DEF Complete, history, FirmwareType, HistoryType, FaultType
  <2> QED BY <1>1, <1>6, <2>1, <2>2 DEF Complete
<1>7. CASE Stall
  <2>1. FaultType'
        BY <1>0, <1>7, BoundsAssumption DEF Stall, Faulty, FaultType
  <2>2. LineType' /\ FirmwareType' /\ HistoryType'
        BY <1>0, <1>7 DEF Stall, history, FirmwareType, HistoryType, LineType
  <2> QED BY <1>1, <1>7, <2>1, <2>2 DEF Stall
<1> QED BY <1>2, <1>3, <1>4, <1>5, <1>6, <1>7 DEF Firmware

LEMMA TypeStep == TypeOK /\ PollInv /\ [Next]_vars => TypeOK' /\ PollInv'
PROOF
<1> SUFFICES ASSUME TypeOK, PollInv, [Next]_vars PROVE TypeOK' /\ PollInv'
    OBVIOUS
<1>0. /\ ConfigType /\ CallType /\ PollType /\ LineType /\ FirmwareType /\ HistoryType /\ FaultType
      BY TypeParts
<1>1. ASSUME UNCHANGED <<config, offset, at, callVars, inWindow, errors, inbox, line, firmware,
                         history, faults>>, expired' \in BOOLEAN
      PROVE  TypeOK' /\ PollInv'
  <2>1. ConfigType' /\ CallType' /\ PollType' /\ LineType' /\ PollInv'
        BY <1>0, <1>1 DEF config, callVars, ConfigType, CallType, PollType, LineType, PollInv
  <2>2. FirmwareType' /\ HistoryType' /\ FaultType'
        BY <1>0, <1>1 DEF firmware, history, faults, FirmwareType, HistoryType, FaultType
  <2> QED BY <2>1, <2>2, TypePartsNext
<1>2. CASE Expire
      BY <1>1, <1>2 DEF Expire
<1>3. CASE UNCHANGED vars
      BY <1>0, <1>1, <1>3 DEF vars, pollVars, PollType
<1> QED BY <1>2, <1>3, CallsKeepTypes, MotorKeepsTypes, FirmwareKeepsTypes DEF Next

LEMMA Typed == Spec => [](TypeOK /\ PollInv)
PROOF BY InitTypes, TypeStep, PTL DEF Spec

\* Every variable of a Motor, of its line and of its firmware keeps its type: the
\* offset its 32 bits, the counters of wait_for_position() their bounds.
THEOREM MotorTyped == Spec => []TypeOK
PROOF BY Typed, PTL

----------------------------------------------------------------------------
(* How the requests on their way change.                                    *)

\* What a sequence holds once something was appended.
LEMMA Appended ==
    ASSUME NEW S, NEW s \in Seq(S), NEW e \in S
    PROVE  \A k \in DOMAIN Append(s, e) :
              \/ k \in DOMAIN s /\ Append(s, e)[k] = s[k]
              \/ k = Len(s) + 1 /\ Append(s, e)[k] = e
PROOF BY AppendProperties, LenProperties

\* What it holds once its head was taken.
LEMMA Dropped ==
    ASSUME NEW S, NEW s \in Seq(S), s # <<>>
    PROVE  /\ Head(s) = s[1] /\ 1 \in DOMAIN s /\ Len(Tail(s)) = Len(s) - 1
           /\ \A k \in DOMAIN Tail(s) : k + 1 \in DOMAIN s /\ Tail(s)[k] = s[k + 1]
PROOF
<1>1. Len(s) \in Nat /\ Len(s) # 0 /\ DOMAIN s = 1..Len(s)
      BY EmptySeq, LenProperties
<1>2. /\ Tail(s) \in Seq(S) /\ Len(Tail(s)) = Len(s) - 1
      /\ \A i \in 1..Len(Tail(s)) : Tail(s)[i] = s[i + 1]
      BY HeadTailProperties
<1>3. DOMAIN Tail(s) = 1..Len(Tail(s))
      BY <1>2, LenProperties
<1>4. Head(s) = s[1]
      OBVIOUS
<1> QED BY <1>1, <1>2, <1>3, <1>4

\* A transaction begins: one more request is on its way.
LEMMA Sent ==
    ASSUME inbox \in Seq(Request), NEW stage, NEW op \in Ops, NEW arg \in Int,
           call' \in CallNames, Transact(stage, op, arg)
    PROVE  /\ Len(inbox') = Len(inbox) + 1 /\ inbox' # <<>> /\ inbox' \in Seq(Request)
           /\ inbox'[Len(inbox) + 1] = [op |-> op, arg |-> arg, call |-> call']
           /\ \A k \in DOMAIN inbox : k \in DOMAIN inbox' /\ inbox'[k] = inbox[k]
           /\ \A k \in DOMAIN inbox' : k \in DOMAIN inbox \/ k = Len(inbox) + 1
PROOF
<1> DEFINE e == [op |-> op, arg |-> arg, call |-> call']
<1>1. e \in Request /\ inbox' = Append(inbox, e)
      BY DEF Request, Transact
<1> HIDE DEF e
<1>2. inbox' \in Seq(Request) /\ Len(inbox') = Len(inbox) + 1
      BY <1>1, AppendProperties
<1>3. Len(inbox) \in Nat /\ DOMAIN inbox = 1..Len(inbox) /\ DOMAIN inbox' = 1..Len(inbox')
      BY <1>2, LenProperties
<1>4. inbox' # <<>>
      BY <1>2, <1>3, EmptySeq
<1>5. inbox'[Len(inbox) + 1] = e /\ \A k \in 1..Len(inbox) : inbox'[k] = inbox[k]
      BY <1>1, <1>2, <1>3, AppendProperties
<1> QED BY <1>2, <1>3, <1>4, <1>5 DEF e
----------------------------------------------------------------------------
(* The limits of position.                                                  *)

\* What a policy lets through is limited, Reject's own refusal aside.
LEMMA AppliedIsLimited ==
    ASSUME policy \in Policies, NEW a \in Int, policy = "Reject" => Within(a)
    PROVE  Limited(ApplyPosition(a))
PROOF BY LimitsAssumption DEF Limited, ApplyPosition, Within, Clamp, Policies

\* A step that sends nothing.
LEMMA LimitsUnsent ==
    ASSUME TypeOK, LimitInv, UNCHANGED <<policy, target>>,
           at' \in {"move", "release"} => at \in {"move", "release"},
           inbox' = inbox \/ (inbox # <<>> /\ inbox' = Tail(inbox))
    PROVE  LimitInv'
PROOF
<1>1. at' \in {"move", "release"} => Limited(target)'
      BY DEF LimitInv, Limited
<1>2. CASE inbox' = inbox
      BY <1>1, <1>2 DEF LimitInv, LimitsKept
<1>3. CASE inbox # <<>> /\ inbox' = Tail(inbox)
  <2>1. \A k \in DOMAIN inbox' : k + 1 \in DOMAIN inbox /\ inbox'[k] = inbox[k + 1]
        BY <1>3, Dropped, TypeParts DEF LineType
  <2> QED BY <1>1, <2>1 DEF LimitInv, LimitsKept
<1> QED BY <1>2, <1>3

\* A step that begins a transaction.
LEMMA LimitsSent ==
    ASSUME TypeOK, LimitInv, UNCHANGED policy, call' \in CallNames,
           NEW stage, NEW op \in Ops, NEW arg \in Int, Transact(stage, op, arg),
           op = "MOVE" => Limited(arg),
           stage \in {"move", "release"} => Limited(target')
    PROVE  LimitInv'
PROOF
<1>1. at' \in {"move", "release"} => Limited(target)'
      BY DEF Transact, Limited
<1>2. /\ inbox'[Len(inbox) + 1] = [op |-> op, arg |-> arg, call |-> call']
      /\ \A k \in DOMAIN inbox : inbox'[k] = inbox[k]
      /\ \A k \in DOMAIN inbox' : k \in DOMAIN inbox \/ k = Len(inbox) + 1
      BY Sent, TypeParts DEF LineType
<1>3. LimitsKept'
  <2> SUFFICES ASSUME NEW k \in DOMAIN inbox', inbox'[k].op = "MOVE"
               PROVE  \/ inbox'[k].arg \in Lo..Hi
                      \/ policy' \in {"None", "Warn"}
                      \/ policy' = "Reject" /\ inbox'[k].call = "dispatch_write"
      BY DEF LimitsKept
  <2>1. CASE k \in DOMAIN inbox
        BY <1>2, <2>1 DEF LimitInv, LimitsKept
  <2>2. CASE k = Len(inbox) + 1
        BY <1>2, <2>2 DEF Limited
  <2> QED BY <1>2, <2>1, <2>2
<1> QED BY <1>1, <1>3 DEF LimitInv

\* write() from its limits to its first transaction.
LEMMA LimitsStartWrite ==
    ASSUME TypeOK, LimitInv, UNCHANGED policy, call' \in CallNames, NEW a \in Int, NEW fast,
           StartWrite(a, fast)
    PROVE  LimitInv'
PROOF
<1>1. CASE Return("LimitExceeded") /\ UNCHANGED <<target, warned, line, inbox>>
      BY <1>1, LimitsUnsent DEF Return
<1>2. CASE /\ ~(~Within(a) /\ policy = "Reject") /\ target' = ApplyPosition(a)
           /\ Transact("move", "MOVE", target')
  <2>1. Limited(target') /\ target' \in Int /\ "MOVE" \in Ops
        BY <1>2, AppliedIsLimited, PositionType, TypeParts DEF ConfigType, Ops
  <2> QED BY <1>2, <2>1, LimitsSent
<1> QED BY <1>1, <1>2 DEF StartWrite

LEMMA LimitStep == TypeOK /\ LimitInv /\ [Next]_vars => LimitInv'
PROOF
<1> SUFFICES ASSUME TypeOK, LimitInv, [Next]_vars PROVE LimitInv'
    OBVIOUS
<1> USE DEF config, callVars, pollVars, firmware, history, faults
<1>0. /\ "ENC" \in Ops /\ "MOVE" \in Ops /\ "ZERO" \in Ops /\ "RELEASE" \in Ops /\ 0 \in Int
      /\ ConfigType /\ CallType /\ LineType /\ call \in CallNames /\ target \in Int
      BY TypeParts DEF Ops, CallType
<1>1. ASSUME NEW a \in Angles, NEW fast, NEW block, Write(a, fast, block) PROVE LimitInv'
  <2>1. call' \in CallNames /\ UNCHANGED policy /\ a \in Int /\ StartWrite(a, fast)
        BY <1>1, LimitsAssumption DEF Write, Call, CallNames
  <2> QED BY <2>1, LimitsStartWrite
<1>2. ASSUME NEW a \in Angles, DispatchWrite(a) PROVE LimitInv'
  <2> DEFINE e == [op |-> "MOVE", arg |-> target', call |-> call']
  <2>1. a \in Int /\ target' = ApplyPosition(a) /\ target' \in Int /\ call' = "dispatch_write"
        /\ policy' = policy /\ at' = "idle" /\ inbox' = Append(inbox, e)
        BY <1>2, LimitsAssumption, PositionType DEF DispatchWrite, Call, Return
  <2>2. e \in Request /\ e.arg = target' /\ e.call = "dispatch_write"
        BY <1>0, <2>1 DEF Request, CallNames
  <2> HIDE DEF e
  <2>3. \A k \in DOMAIN inbox' : (k \in DOMAIN inbox /\ inbox'[k] = inbox[k]) \/ inbox'[k] = e
        BY <1>0, <2>1, <2>2, Appended DEF LineType
  <2>4. policy = "Reject" \/ Limited(target')
        BY <1>0, <2>1, AppliedIsLimited DEF ConfigType
  <2> QED BY <2>1, <2>2, <2>3, <2>4 DEF LimitInv, LimitsKept, Limited
<1>3. ASSUME NEW name \in CallNames, Call(name), UNCHANGED <<config, target>>, NEW stage \in {"reading", "current", "zeroing"},
             NEW op \in Ops \ {"MOVE"}, Transact(stage, op, 0)
      PROVE  LimitInv'
  <2>1. call' \in CallNames /\ UNCHANGED policy
        BY <1>3 DEF Call
  <2> QED BY <1>0, <1>3, <2>1, LimitsSent
<1>4. CASE Calls
  <2>1. ASSUME NEW name \in {"read", "set_origin_soft"}, Read(name) PROVE LimitInv'
        BY <1>0, <1>3, <2>1 DEF Read, CallNames
  <2>2. ASSUME NEW d, NEW block, MoveRelative(d, block) PROVE LimitInv'
        BY <1>0, <1>3, <2>2 DEF MoveRelative, CallNames
  <2>3. CASE SetOrigin
        BY <1>0, <1>3, <2>3 DEF SetOrigin, CallNames
  <2> QED BY <1>1, <1>2, <1>4, <2>1, <2>2, <2>3 DEF Calls
<1>5. ASSUME UNCHANGED <<config, target, call>>, NEW stage \in Stages \ {"move", "release"}, NEW op \in Ops \ {"MOVE"},
             Transact(stage, op, 0)
      PROVE  LimitInv'
      BY <1>0, <1>5, LimitsSent
<1>6. CASE MoveAnswered
  <2>1. CASE Transact("release", "RELEASE", 0) /\ at = "move"
    <3>1. Limited(target') /\ UNCHANGED <<policy, call>>
          BY <1>6, <2>1 DEF MoveAnswered, LimitInv, Limited
    <3> QED BY <1>0, <2>1, <3>1, LimitsSent
  <2>2. CASE at' = "idle" /\ UNCHANGED inbox
        BY <1>6, <2>2, LimitsUnsent DEF MoveAnswered
  <2>3. CASE Transact("polling", "ENC", 0)
        BY <1>0, <1>5, <1>6, <2>3 DEF MoveAnswered, Stages
  <2> QED BY <1>6, <2>1, <2>2, <2>3 DEF MoveAnswered, Return
<1>7. CASE ReleaseEnds
  <2>1. Limited(target) /\ UNCHANGED <<policy, call>> /\ Transact("retry", "MOVE", target)
        BY <1>7 DEF ReleaseEnds, LimitInv
  <2> QED BY <1>0, <2>1, LimitsSent
<1>8. CASE CurrentAnswered
  <2>1. PICK fast \in BOOLEAN : StartWrite(CountsToAngle(Answer("ENC")) + delta, fast)
        BY <1>8 DEF CurrentAnswered
  <2>2. Has("ENC")
        BY <1>8 DEF CurrentAnswered
  <2>3. CountsToAngle(Answer("ENC")) + delta \in Int
        BY <1>0, <2>2, AnswerType, CountsAssumption DEF CountsToAngle, CallType
  <2>4. call' \in CallNames /\ UNCHANGED policy
        BY <1>0, <1>8 DEF CurrentAnswered
  <2> QED BY <2>1, <2>3, <2>4, LimitsStartWrite
<1>9. CASE NotArrived \/ PollFails \/ ZeroAnswered \/ ZeroFails
  <2>1. \/ at' = "idle" /\ UNCHANGED inbox
        \/ Transact("polling", "ENC", 0)
        \/ Transact("origin", "ENC", 0)
        \/ Transact("zeroing again", "ZERO", 0)
        BY <1>9 DEF NotArrived, PollFails, ZeroAnswered, ZeroFails, PollAgain, Return
  <2>2. UNCHANGED <<config, target, call>>
        BY <1>9 DEF NotArrived, PollFails, ZeroAnswered, ZeroFails
  <2> QED BY <1>0, <1>5, <2>1, <2>2, LimitsUnsent DEF Stages
<1>10. CASE MoveFails \/ Arrived \/ ReadAnswered \/ ReadFails \/ OriginAnswered \/ OriginFails
       BY <1>10, LimitsUnsent
       DEF MoveFails, Arrived, ReadAnswered, ReadFails, OriginAnswered, OriginFails, Return
<1>11. CASE Expire
       BY <1>11, LimitsUnsent DEF Expire
<1>12. CASE Firmware
       BY <1>12, LimitsUnsent DEF Firmware, Execute, RefuseZero, Lose, Turn, Complete, Stall
<1>13. CASE UNCHANGED vars
       BY <1>13, LimitsUnsent DEF vars
<1> QED BY <1>4, <1>6, <1>7, <1>8, <1>9, <1>10, <1>11, <1>12, <1>13 DEF Next, Motor

LEMMA InitLimits == Init => LimitInv
PROOF BY DEF Init, LimitInv, LimitsKept

\* Reject and Clamp let no MOVE leave with a target beyond the limits: not the one
\* that is sent again after a protection was released, nor the one that
\* move_relative() makes of whatever the encoder said.
THEOREM LimitsAreKept == Spec => []LimitsKept
PROOF
<1>1. LimitInv => LimitsKept
      BY DEF LimitInv
<1> QED BY <1>1, Typed, InitLimits, LimitStep, PTL DEF Spec

----------------------------------------------------------------------------
(* The frames of reference.                                                 *)

\* A step with which a call returns.
LEMMA FreshReturns ==
    ASSUME UNCHANGED <<enc, zero>>, at' = "idle",
           call' = "set_origin" /\ result' = "OK" /\ still' /\ ~unread' =>
               zero = enc /\ offset' = Int32(enc)
    PROVE  FreshInv'
PROOF BY DEF FreshInv, Originating, Returned, Int32

\* A step that begins a transaction, and drains the line for it.
LEMMA FreshSends ==
    ASSUME UNCHANGED <<enc, zero>>, NEW stage \in Stages \ {"idle"}, NEW op, NEW arg,
           Transact(stage, op, arg),
           stage \in Originating <=> call' = "set_origin",
           stage = "reading" => call' \in {"read", "set_origin_soft"},
           stage = "origin" /\ still' => zero = enc
    PROVE  FreshInv'
PROOF
<1>1. at' = stage /\ at' # "idle" /\ line' = <<>>
      BY DEF Transact, Stages
<1>2. DOMAIN line' = {}
  <2>1. DOMAIN <<>> = {}
        OBVIOUS
  <2> QED BY <1>1, <2>1, Zenon
<1> QED BY <1>1, <1>2 DEF FreshInv, Originating, Returned

\* A step of the firmware.
LEMMA FreshFrames ==
    ASSUME TypeOK, FreshInv, UNCHANGED <<at, call, result, offset, unread>>, still' => still,
           still' => enc' = enc /\ zero' \in {zero, enc},
           \/ line' = line
           \/ \E f \in Frame :
                 /\ line' = Append(line, f)
                 /\ f.op = "ENC" => f.val = enc
                 /\ f.op = "ZERO" /\ f.val = 1 => zero' = enc
    PROVE  FreshInv'
PROOF
<1>1. ASSUME ~still' PROVE FreshInv'
      BY <1>1 DEF FreshInv, Originating, Returned
<1>2. ASSUME still' PROVE FreshInv'
  <2>1. /\ still /\ enc' = enc /\ zero' \in {zero, enc}
        BY <1>2
  <2>2. ASSUME at # "idle" PROVE \A k \in DOMAIN line' : line'[k].op = "ENC" => line'[k].val = enc
    <3>1. CASE line' = line
          BY <2>1, <2>2, <3>1 DEF FreshInv
    <3>2. ASSUME NEW f \in Frame, line' = Append(line, f), f.op = "ENC" => f.val = enc
          PROVE  \A k \in DOMAIN line' : line'[k].op = "ENC" => line'[k].val = enc
      <4>1. \A k \in DOMAIN line' : (k \in DOMAIN line /\ line'[k] = line[k]) \/ line'[k] = f
            BY <3>2, Appended, TypeParts DEF LineType
      <4> QED BY <2>1, <2>2, <3>2, <4>1 DEF FreshInv
    <3> QED BY <3>1, <3>2
  <2>3. ASSUME at \in {"zeroing", "zeroing again"}
        PROVE  \A k \in DOMAIN line' : line'[k].op = "ZERO" /\ line'[k].val = 1 => zero' = enc
    <3>1. CASE line' = line
          BY <2>1, <2>3, <3>1 DEF FreshInv
    <3>2. ASSUME NEW f \in Frame, line' = Append(line, f), f.op = "ZERO" /\ f.val = 1 => zero' = enc
          PROVE  \A k \in DOMAIN line' : line'[k].op = "ZERO" /\ line'[k].val = 1 => zero' = enc
      <4>1. \A k \in DOMAIN line' : (k \in DOMAIN line /\ line'[k] = line[k]) \/ line'[k] = f
            BY <3>2, Appended, TypeParts DEF LineType
      <4> QED BY <2>1, <2>3, <3>2, <4>1 DEF FreshInv
    <3> QED BY <3>1, <3>2
  <2>4. /\ at' # "idle" => (at' \in Originating' <=> call' = "set_origin")
        /\ at' = "reading" => call' \in {"read", "set_origin_soft"}
        /\ at' = "origin" /\ still' => zero' = enc'
        BY <2>1 DEF FreshInv, Originating
  <2>5. Returned("set_origin")' /\ result' = "OK" /\ still' /\ ~unread' =>
             zero' = enc' /\ offset' = Int32(enc')
        BY <2>1 DEF FreshInv, Returned
  <2> QED BY <2>1, <2>2, <2>3, <2>4, <2>5 DEF FreshInv, Int32
<1> QED BY <1>1, <1>2

\* write() goes on, or is refused.
LEMMA FreshStartWrite ==
    ASSUME UNCHANGED <<enc, zero>>, call' # "set_origin", NEW a, NEW fast, StartWrite(a, fast)
    PROVE  FreshInv'
PROOF
<1>1. CASE Return("LimitExceeded")
      BY <1>1, FreshReturns DEF Return
<1>2. CASE Transact("move", "MOVE", target')
      BY <1>2, FreshSends DEF Originating, Stages
<1> QED BY <1>1, <1>2 DEF StartWrite

\* The reading that a call takes is of where the motor is, if it has not turned.
LEMMA ReadingIsFresh ==
    ASSUME TypeOK, FreshInv, at # "idle", still, Has("ENC")
    PROVE  Answer("ENC") = enc
PROOF BY AnswerType DEF FreshInv, Answer

LEMMA FreshStep == TypeOK /\ FreshInv /\ [Next]_vars => FreshInv'
PROOF
<1> SUFFICES ASSUME TypeOK, FreshInv, [Next]_vars PROVE FreshInv'
    OBVIOUS
<1> USE DEF config, callVars, pollVars, firmware, history, faults
<1>0. LineType /\ at \in Stages /\ call \in CallNames /\ enc \in Int
      BY TypeParts DEF CallType, FirmwareType
<1>1. CASE Calls
  <2>1. ASSUME NEW a, NEW fast, NEW block, Write(a, fast, block) PROVE FreshInv'
        BY <2>1, FreshStartWrite DEF Write, Call
  <2>2. ASSUME NEW a, DispatchWrite(a) PROVE FreshInv'
        BY <2>2, FreshReturns DEF DispatchWrite, Call, Return
  <2>3. ASSUME NEW name \in {"read", "set_origin_soft"}, Read(name) PROVE FreshInv'
        BY <2>3, FreshSends DEF Read, Call, Originating, Stages
  <2>4. ASSUME NEW d, NEW block, MoveRelative(d, block) PROVE FreshInv'
        BY <2>4, FreshSends DEF MoveRelative, Call, Originating, Stages
  <2>5. CASE SetOrigin
        BY <2>5, FreshSends DEF SetOrigin, Call, Originating, Stages
  <2> QED BY <1>1, <2>1, <2>2, <2>3, <2>4, <2>5 DEF Calls
<1>2. ASSUME UNCHANGED <<enc, zero, call>>, call # "set_origin", at' = "idle" PROVE FreshInv'
      BY <1>2, FreshReturns
<1>3. ASSUME UNCHANGED <<enc, zero, call>>, call # "set_origin", NEW stage \in {"release", "retry", "polling"},
             NEW op, NEW arg, Transact(stage, op, arg)
      PROVE  FreshInv'
      BY <1>3, FreshSends DEF Originating, Stages
<1>4. at \notin Originating /\ at # "idle" => call # "set_origin"
      BY DEF FreshInv
<1>5. CASE MoveAnswered \/ MoveFails \/ ReleaseEnds
  <2>1. UNCHANGED <<enc, zero, call>> /\ call # "set_origin"
        BY <1>4, <1>5 DEF MoveAnswered, MoveFails, ReleaseEnds, Originating
  <2>2. \/ at' = "idle" \/ Transact("polling", "ENC", 0) \/ Transact("release", "RELEASE", 0)
        \/ Transact("retry", "MOVE", target)
        BY <1>5 DEF MoveAnswered, MoveFails, ReleaseEnds, Return
  <2> QED BY <1>2, <1>3, <2>1, <2>2
<1>6. CASE Arrived \/ NotArrived \/ PollFails
  <2>1. UNCHANGED <<enc, zero, call>> /\ call # "set_origin"
        BY <1>4, <1>6 DEF Arrived, NotArrived, PollFails, Originating
  <2>2. at' = "idle" \/ Transact("polling", "ENC", 0)
        BY <1>6 DEF Arrived, NotArrived, PollFails, PollAgain, Return
  <2> QED BY <1>2, <1>3, <2>1, <2>2
<1>7. CASE ReadAnswered \/ ReadFails
      BY <1>2, <1>4, <1>7 DEF ReadAnswered, ReadFails, Return, Originating
<1>8. CASE CurrentAnswered
  <2>1. call' # "set_origin" /\ UNCHANGED <<enc, zero>>
        BY <1>4, <1>8 DEF CurrentAnswered, Originating
  <2> QED BY <1>8, <2>1, FreshStartWrite DEF CurrentAnswered
<1>9. CASE ZeroAnswered
  <2>1. at \in {"zeroing", "zeroing again"} /\ call = "set_origin" /\ Has("ZERO")
        /\ UNCHANGED <<enc, zero, call, still>>
        BY <1>9 DEF ZeroAnswered, FreshInv, Originating
  <2>2. CASE Answer("ZERO") = 1 /\ Transact("origin", "ENC", 0)
    <3>1. still => zero = enc
          BY <2>1, <2>2, AnswerType DEF FreshInv, Answer
    <3> QED BY <2>1, <2>2, <3>1, FreshSends DEF Originating, Stages
  <2>3. CASE Return("NotEnabled")
        BY <2>1, <2>3, FreshReturns DEF Return
  <2> QED BY <1>9, <2>2, <2>3 DEF ZeroAnswered
<1>10. CASE ZeroFails
  <2>1. UNCHANGED <<enc, zero, call>> /\ call = "set_origin"
        BY <1>10 DEF ZeroFails, FreshInv, Originating
  <2>2. CASE Transact("zeroing again", "ZERO", 0)
        BY <2>1, <2>2, FreshSends DEF Originating, Stages
  <2>3. CASE Return("TransportError")
        BY <2>1, <2>3, FreshReturns DEF Return
  <2> QED BY <1>10, <2>2, <2>3 DEF ZeroFails
<1>11. CASE OriginAnswered
  <2>1. UNCHANGED <<enc, zero, still>> /\ at' = "idle" /\ offset' = Int32(Answer("ENC"))
        BY <1>11 DEF OriginAnswered, Return
  <2>2. still => zero = enc /\ Answer("ENC") = enc
        BY <1>11, ReadingIsFresh DEF OriginAnswered, FreshInv
  <2> QED BY <2>1, <2>2, FreshReturns
<1>12. CASE OriginFails
       BY <1>12, FreshReturns DEF OriginFails, Return
<1>13. CASE UNCHANGED <<at, call, result, offset, unread, still, enc, zero, line>>
       BY <1>13, FreshFrames
<1>14. CASE Expire \/ UNCHANGED vars \/ Stall
       BY <1>13, <1>14 DEF Expire, vars, Stall
<1>15. ASSUME NEW r, NEW val \in Values, Effect(r, val)
       PROVE  /\ enc' = enc /\ zero' \in {zero, enc}
              /\ r.op = "ENC" => val = enc
              /\ r.op = "ZERO" /\ val = 1 => zero' = enc
       BY <1>15 DEF Effect
<1>16. CASE Execute
  <2>1. PICK val \in Values : Effect(Head(inbox), val) /\ Reply(Head(inbox).op, val)
        BY <1>16 DEF Execute
  <2> DEFINE f == [op |-> Head(inbox).op, val |-> val]
  <2>2. f \in Frame /\ f.op = Head(inbox).op /\ f.val = val
        BY <1>0, <1>16, HeadType DEF Execute, LineType, Frame, Request, Values
  <2>3. line' = Append(line, f)
        BY <2>1 DEF Reply
  <2>4. UNCHANGED <<at, call, result, offset, unread, still>>
        BY <1>16 DEF Execute
  <2> HIDE DEF f
  <2> QED BY <1>15, <2>1, <2>2, <2>3, <2>4, FreshFrames
<1>17. CASE RefuseZero
  <2> DEFINE f == [op |-> "ZERO", val |-> 0]
  <2>1. f \in Frame /\ f.op = "ZERO" /\ f.val = 0 /\ line' = Append(line, f)
        BY <1>17 DEF RefuseZero, Reply, Frame, Ops
  <2>2. UNCHANGED <<at, call, result, offset, unread, still, enc, zero>>
        BY <1>17 DEF RefuseZero
  <2> HIDE DEF f
  <2> QED BY <2>1, <2>2, FreshFrames
<1>18. CASE Lose
  <2>1. UNCHANGED <<at, call, result, offset, unread, still, line>>
        BY <1>18 DEF Lose
  <2>2. enc' = enc /\ zero' \in {zero, enc}
        BY <1>15, <1>18 DEF Lose
  <2> QED BY <2>1, <2>2, FreshFrames
<1>19. CASE Turn
  <2>1. UNCHANGED <<at, call, result, offset, unread, line>> /\ ~still'
        BY <1>19 DEF Turn
  <2> QED BY <2>1, FreshFrames
<1>20. CASE Complete
  <2> DEFINE f == [op |-> "MOVE", val |-> 2]
  <2>1. f \in Frame /\ f.op = "MOVE" /\ line' = Append(line, f)
        BY <1>20 DEF Complete, Reply, Frame, Ops
  <2>2. UNCHANGED <<at, call, result, offset, unread, still, enc, zero>>
        BY <1>20 DEF Complete
  <2> HIDE DEF f
  <2> QED BY <2>1, <2>2, FreshFrames
<1>21. CASE Firmware
       BY <1>14, <1>16, <1>17, <1>18, <1>19, <1>20, <1>21 DEF Firmware
<1> QED BY <1>1, <1>5, <1>6, <1>7, <1>8, <1>9, <1>10, <1>11, <1>12, <1>14, <1>21 DEF Next, Motor

LEMMA InitFresh == Init => FreshInv
PROOF BY DEF Init, FreshInv, Originating, Returned

\* A set_origin() that succeeds leaves the offset of a motor at rest equal to the
\* zero of the firmware's axis, to 32 bits, however often SET_ZERO_POINT was sent
\* and executed, if the encoder could be read.
THEOREM OriginIsAligned == Spec => []OriginAligns
PROOF
<1>1. FreshInv => OriginAligns
      BY DEF FreshInv, OriginAligns
<1> QED BY <1>1, Typed, InitFresh, FreshStep, PTL DEF Spec

\* move_relative() of a motor at rest sends the target that is delta away from
\* where the motor is: the reading it starts from is not older than the call.
THEOREM RelativeIsFromHere == Spec => RelativeFromHere
PROOF
<1>1. ASSUME TypeOK, FreshInv, [Next]_vars,
             at = "current", at' = "move", still, Aligned, policy \in {"None", "Warn"}
      PROVE  zero + target' = enc + delta
  <2>1. CurrentAnswered
    <3>1. at # at'
          BY <1>1
    <3>2. ~Calls
          BY <1>1 DEF Calls, Write, DispatchWrite, Read, MoveRelative, SetOrigin, Call
    <3>3. ~Firmware
          BY <1>1, <3>1 DEF Firmware, Execute, RefuseZero, Lose, Turn, Complete, Stall
    <3>4. ~ReadFails
          BY <1>1 DEF ReadFails, Return
    <3>5. ~Expire /\ ~UNCHANGED vars
          BY <1>1, <3>1 DEF Expire, vars
    <3>6. Motor
          BY <1>1, <3>2, <3>3, <3>5 DEF Next
    <3>7. ~(\/ MoveAnswered \/ MoveFails \/ ReleaseEnds \/ Arrived \/ NotArrived \/ PollFails)
          BY <1>1 DEF MoveAnswered, MoveFails, ReleaseEnds, Arrived, NotArrived, PollFails
    <3>8. ~(\/ ReadAnswered \/ ZeroAnswered \/ ZeroFails \/ OriginAnswered \/ OriginFails)
          BY <1>1 DEF ReadAnswered, ZeroAnswered, ZeroFails, OriginAnswered, OriginFails
    <3> QED BY <3>4, <3>6, <3>7, <3>8 DEF Motor
  <2>2. Answer("ENC") = enc
        BY <1>1, <2>1, ReadingIsFresh DEF CurrentAnswered
  <2>3. target' = ApplyPosition(CountsToAngle(Answer("ENC")) + delta)
        BY <1>1, <2>1 DEF CurrentAnswered, StartWrite, Return
  <2>4. target' = enc - offset + delta
        BY <1>1, <2>2, <2>3 DEF ApplyPosition, CountsToAngle
  <2>5. enc \in Int /\ zero \in Int /\ delta \in Int /\ offset = zero
        BY <1>1, TypeParts DEF FirmwareType, CallType, Aligned
  <2> QED BY <2>4, <2>5
<1>2. TypeOK /\ FreshInv /\ [Next]_vars =>
        [at = "current" /\ at' = "move" /\ still /\ Aligned /\ policy \in {"None", "Warn"}
           => zero + target' = enc + delta]_vars
      BY <1>1
<1> QED BY <1>2, Typed, InitFresh, FreshStep, PTL DEF Spec, RelativeFromHere

----------------------------------------------------------------------------
(* What the steps of the Motor do to the line, in kinds.                    *)

Sends == at \in {"move", "retry"}

\* The MOVE of a call is sent, or sent again.
SendsMove ==
    /\ at \in {"idle", "current"} /\ (at = "current" => inbox = <<>> /\ refused' = refused)
    /\ at = "idle" => ~refused'
    /\ target' \in Int /\ Transact("move", "MOVE", target')
SendsAgain ==
    /\ at = "release" /\ inbox = <<>> /\ UNCHANGED <<target, refused>>
    /\ Transact("retry", "MOVE", target)

\* It was not accepted, or it was.
Releases ==
    /\ at = "move" /\ Has("MOVE") /\ (refused \/ unclaimed') /\ UNCHANGED <<target, refused>>
    /\ Transact("release", "RELEASE", 0)
PollsFirst ==
    /\ Sends /\ Has("MOVE") /\ Answer("MOVE") = 1 /\ UNCHANGED target
    /\ Transact("polling", "ENC", 0)

PollsAgain ==
    /\ at = "polling" /\ inbox = <<>> /\ UNCHANGED target
    /\ Transact("polling", "ENC", 0)

\* The other transactions.
Asks ==
    /\ at = "idle" \/ (inbox = <<>> /\ at \in Originating)
    /\ \/ Transact("reading", "ENC", 0)
       \/ Transact("current", "ENC", 0) /\ ~refused'
       \/ Transact("zeroing", "ZERO", 0) \/ Transact("zeroing again", "ZERO", 0)
       \/ Transact("origin", "ENC", 0)

Dispatches ==
    /\ at = "idle" /\ at' = "idle" /\ call' = "dispatch_write" /\ unclaimed' = TRUE
    /\ target' \in Int
    /\ inbox' = Append(inbox, [op |-> "MOVE", arg |-> target', call |-> call'])

\* A call returns: after a wait that succeeds ...
Arrives ==
    /\ at = "polling" /\ Has("ENC") /\ Near(Answer("ENC"))
    /\ at' = "idle" /\ inbox = <<>> /\ UNCHANGED <<inbox, target, offset>>

\* ... or otherwise.
Ends ==
    /\ at' = "idle" /\ UNCHANGED inbox /\ ~Waited'
    /\ at = "idle" \/ Sends \/ inbox = <<>>
    /\ Sends => inbox = <<>> \/ (Has("MOVE") /\ (Answer("MOVE") = 1 \/ refused \/ unclaimed'))

Kinds ==
    \/ SendsMove \/ SendsAgain \/ Releases \/ PollsFirst \/ PollsAgain \/ Asks \/ Dispatches
    \/ Arrives \/ Ends

Quiet ==
    /\ UNCHANGED <<firmware, lost>> /\ call' \in CallNames /\ (unclaimed => unclaimed')

\* If no transaction gave up early, nothing is on its way when one ends.
LEMMA Emptied ==
    ASSUME QueueInv, late = 0, Awaited # "MOVE", Has(Awaited) \/ inbox = <<>>
    PROVE  inbox = <<>>
PROOF BY DEF QueueInv, Has

LEMMA FailedEmpty ==
    ASSUME TypeOK, NEW op, Fails(op), late' = 0
    PROVE  late = 0 /\ inbox = <<>>
PROOF BY TypeParts DEF Fails, FaultType

LEMMA StartWriteKinds ==
    ASSUME TypeOK, NEW a \in Int, NEW fast, StartWrite(a, fast),
           at = "idle" \/ (at = "current" /\ inbox = <<>> /\ refused' = refused),
           at = "idle" => ~refused'
    PROVE  SendsMove \/ Ends
PROOF
<1>1. CASE Return("LimitExceeded") /\ UNCHANGED <<target, warned, line, inbox>>
      BY <1>1 DEF Ends, Return, Sends, Waited
<1>2. CASE target' = ApplyPosition(a) /\ Transact("move", "MOVE", target')
  <2>1. target' \in Int
        BY <1>2, PositionType
  <2> QED BY <1>2, <2>1 DEF SendsMove
<1> QED BY <1>1, <1>2 DEF StartWrite

\* Without early ends, every step of the Motor is of one of these kinds.
LEMMA StepKinds ==
    ASSUME TypeOK, QueueInv, FreshInv, late' = 0, Calls \/ Motor
    PROVE  late = 0 /\ Quiet /\ Kinds
PROOF
<1> USE DEF config, callVars, pollVars, firmware, history, faults
<1>0. /\ late \in Nat /\ at \in Stages /\ call \in CallNames /\ target \in Int /\ LineType
      BY TypeParts, BoundsAssumption DEF FaultType, CallType
<1>1. CASE Calls
  <2>1. ASSUME NEW name \in CallNames, Call(name)
        PROVE  call' \in CallNames /\ (unclaimed => unclaimed') /\ ~refused'
        BY <2>1 DEF Call
  <2>2. ASSUME NEW a \in Angles, NEW fast, NEW block, Write(a, fast, block) PROVE late = 0 /\ Quiet /\ Kinds
    <3>1. at = "idle" /\ a \in Int /\ StartWrite(a, fast) /\ ~refused'
          BY <2>2, LimitsAssumption DEF Write, Call
    <3>2. late = 0 /\ Quiet
          BY <2>1, <2>2 DEF Write, Quiet, CallNames
    <3>3. SendsMove \/ Ends
          BY <3>1, StartWriteKinds, Zenon
    <3> QED BY <3>2, <3>3 DEF Kinds
  <2>3. ASSUME NEW a \in Angles, DispatchWrite(a) PROVE late = 0 /\ Quiet /\ Kinds
    <3>1. target' \in Int
          BY <2>3, LimitsAssumption, PositionType DEF DispatchWrite
    <3>2. Dispatches
          BY <2>3, <3>1 DEF DispatchWrite, Dispatches, Call, Return
    <3> QED BY <2>1, <2>3, <3>2 DEF DispatchWrite, Quiet, Kinds, CallNames
  <2>4. ASSUME NEW name \in {"read", "set_origin_soft", "move_relative", "set_origin"}, Call(name),
               UNCHANGED <<late, enc, zero, goal, moving, latched, lost>>,
               \/ Transact("reading", "ENC", 0) \/ Transact("current", "ENC", 0)
               \/ Transact("zeroing", "ZERO", 0)
        PROVE  late = 0 /\ Quiet /\ Kinds
    <3>1. at = "idle" /\ ~refused' /\ call' \in CallNames /\ (unclaimed => unclaimed')
          BY <2>1, <2>4 DEF Call, CallNames
    <3>2. Asks
          BY <2>4, <3>1 DEF Asks
    <3>3. Quiet
          BY <2>4, <3>1 DEF Quiet
    <3> QED BY <2>4, <3>2, <3>3 DEF Kinds
  <2>5. ASSUME NEW name \in {"read", "set_origin_soft"}, Read(name) PROVE late = 0 /\ Quiet /\ Kinds
        BY <2>4, <2>5 DEF Read
  <2>6. ASSUME NEW d, NEW block, MoveRelative(d, block) PROVE late = 0 /\ Quiet /\ Kinds
        BY <2>4, <2>6 DEF MoveRelative
  <2>7. CASE SetOrigin
        BY <2>4, <2>7 DEF SetOrigin
  <2> QED BY <1>1, <2>2, <2>3, <2>5, <2>6, <2>7 DEF Calls
<1>2. CASE MoveAnswered
  <2>1. /\ late = 0 /\ Quiet /\ UNCHANGED <<target, refused, call, blocking>> /\ Sends /\ Has("MOVE")
        /\ unclaimed' = (unclaimed \/ (Answer("MOVE") # 1 /\ ~refused))
        BY <1>0, <1>2 DEF MoveAnswered, Quiet, Sends
  <2>2. Answer("MOVE") = 1 \/ refused \/ unclaimed'
        BY <2>1, Zenon
  <2>3. CASE Answer("MOVE") = 1 /\ Transact("polling", "ENC", 0)
        BY <2>1, <2>3 DEF Kinds, PollsFirst
  <2>4. CASE Answer("MOVE") = 1 /\ ~blocking /\ at' = "idle" /\ UNCHANGED inbox
        BY <2>1, <2>2, <2>4 DEF Kinds, Ends, Waited
  <2>5. CASE Answer("MOVE") # 1 /\ at = "move" /\ Transact("release", "RELEASE", 0)
        BY <2>1, <2>2, <2>5 DEF Kinds, Releases
  <2>6. CASE Return("NotEnabled") /\ UNCHANGED inbox
        BY <2>1, <2>2, <2>6 DEF Kinds, Ends, Waited, Return
  <2> QED BY <1>2, <2>3, <2>4, <2>5, <2>6 DEF MoveAnswered, Return
<1>3. CASE MoveFails \/ ReadFails
  <2>1. late = 0 /\ inbox = <<>>
        BY <1>3, FailedEmpty DEF MoveFails, ReadFails
  <2>2. Quiet /\ at' = "idle" /\ result' = "TransportError" /\ UNCHANGED inbox
        BY <1>0, <1>3 DEF MoveFails, ReadFails, Return, Quiet, Fails
  <2>3. Ends
        BY <2>1, <2>2 DEF Ends, Waited
  <2> QED BY <2>1, <2>2, <2>3 DEF Kinds
<1>4. CASE ReleaseEnds
  <2>1. late = 0 /\ inbox = <<>>
        BY <1>4, FailedEmpty, Emptied DEF ReleaseEnds, Awaited
  <2>2. Quiet
        BY <1>0, <1>4, <2>1 DEF ReleaseEnds, Quiet, Fails
  <2>3. SendsAgain
        BY <1>4, <2>1 DEF ReleaseEnds, SendsAgain
  <2> QED BY <2>1, <2>2, <2>3 DEF Kinds
<1>5. CASE Arrived
  <2>1. late = 0 /\ inbox = <<>>
        BY <1>5, Emptied DEF Arrived, Awaited
  <2> QED BY <1>0, <1>5, <2>1 DEF Arrived, Return, Quiet, Kinds, Arrives
<1>6. CASE NotArrived \/ PollFails
  <2>1. late = 0 /\ inbox = <<>>
        BY <1>6, FailedEmpty, Emptied DEF NotArrived, PollFails, Awaited
  <2>2. Quiet /\ at = "polling" /\ UNCHANGED <<target, call, blocking>>
        BY <1>0, <1>6 DEF NotArrived, PollFails, Quiet, Fails
  <2>3. CASE Return("Timeout") /\ UNCHANGED inbox
        BY <2>1, <2>2, <2>3 DEF Return, Kinds, Ends, Sends, Waited
  <2>4. CASE Return("TransportError") /\ UNCHANGED inbox
        BY <2>1, <2>2, <2>4 DEF Return, Kinds, Ends, Sends, Waited
  <2>5. CASE Transact("polling", "ENC", 0)
        BY <2>1, <2>2, <2>5 DEF Kinds, PollsAgain
  <2> QED BY <1>6, <2>3, <2>4, <2>5 DEF NotArrived, PollFails, PollAgain
<1>7. CASE ReadAnswered
  <2>1. late = 0 /\ inbox = <<>>
        BY <1>7, Emptied DEF ReadAnswered, Awaited
  <2>2. call' \in {"read", "set_origin_soft"}
        BY <1>7 DEF ReadAnswered, FreshInv
  <2> QED BY <1>0, <1>7, <2>1, <2>2 DEF ReadAnswered, Return, Quiet, Kinds, Ends, Waited, Sends
<1>8. CASE CurrentAnswered
  <2>1. late = 0 /\ inbox = <<>>
        BY <1>8, Emptied DEF CurrentAnswered, Awaited
  <2>2. PICK fast \in BOOLEAN : StartWrite(CountsToAngle(Answer("ENC")) + delta, fast)
        BY <1>8 DEF CurrentAnswered
  <2>3. CountsToAngle(Answer("ENC")) + delta \in Int
    <3>1. Answer("ENC") \in Int
          BY <1>8, AnswerType DEF CurrentAnswered
    <3> QED BY <3>1, TypeParts, CountsAssumption DEF CountsToAngle, CallType
  <2>4. SendsMove \/ Ends
        BY <1>8, <2>1, <2>2, <2>3, StartWriteKinds DEF CurrentAnswered
  <2> QED BY <1>0, <1>8, <2>1, <2>4 DEF CurrentAnswered, Quiet, Kinds
<1>9. CASE ZeroAnswered
  <2>1. late = 0 /\ inbox = <<>>
        BY <1>9, Emptied DEF ZeroAnswered, Awaited
  <2>2. call' = "set_origin"
        BY <1>9 DEF ZeroAnswered, FreshInv, Originating
  <2> QED BY <1>0, <1>9, <2>1, <2>2 DEF ZeroAnswered, Return, Quiet, Kinds, Ends, Asks, Waited, Sends,
                                        Originating
<1>10. CASE ZeroFails
  <2>1. late = 0 /\ inbox = <<>>
        BY <1>10, FailedEmpty DEF ZeroFails
  <2>2. call' = "set_origin"
        BY <1>10 DEF ZeroFails, FreshInv, Originating
  <2>3. Quiet
        BY <1>0, <1>10 DEF ZeroFails, Quiet, Fails
  <2>4. Asks \/ Ends
        BY <1>10, <2>1, <2>2 DEF ZeroFails, Return, Ends, Asks, Waited, Originating
  <2> QED BY <2>1, <2>3, <2>4 DEF Kinds
<1>11. CASE OriginAnswered \/ OriginFails
  <2>1. late = 0 /\ inbox = <<>>
        BY <1>11, FailedEmpty, Emptied DEF OriginAnswered, OriginFails, Awaited
  <2>2. call' = "set_origin"
        BY <1>11 DEF OriginAnswered, OriginFails, FreshInv, Originating
  <2>3. Quiet
        BY <1>0, <1>11 DEF OriginAnswered, OriginFails, Quiet, Fails
  <2>4. Ends
        BY <1>11, <2>1, <2>2 DEF OriginAnswered, OriginFails, Return, Ends, Waited
  <2> QED BY <2>1, <2>3, <2>4 DEF Kinds
<1> QED BY <1>1, <1>2, <1>3, <1>4, <1>5, <1>6, <1>7, <1>8, <1>9, <1>10, <1>11 DEF Motor

\* What the firmware's steps, and those of time, leave alone.
Same == UNCHANGED <<at, call, target, offset, blocking, result, unclaimed, late>>

Rests == Same /\ UNCHANGED <<inbox, line, firmware, refused, lost>>
Turns ==
    /\ Same /\ Turn /\ UNCHANGED <<inbox, line, zero, goal, moving, latched, refused, lost>>
Stops ==
    /\ Same /\ moving /\ moving' = FALSE /\ UNCHANGED <<inbox, enc, zero, goal, refused, lost>>
    /\ line' = line \/ line' = Append(line, [op |-> "MOVE", val |-> 2])

\* A request is taken off the line: and executed, or refused, or not understood,
\* or executed and its answer is lost.
Takes ==
    /\ Same /\ inbox # <<>> /\ inbox' = Tail(inbox)
    /\ \/ UNCHANGED <<firmware, refused, line>>
       \/ \E val \in Values : Effect(Head(inbox), val)
       \/ UNCHANGED <<firmware, refused>> /\ Head(inbox).op = "ZERO"
    /\ \/ lost' = lost + 1 /\ UNCHANGED line
       \/ /\ UNCHANGED lost
          /\ \E val \in Values :
                /\ \/ Effect(Head(inbox), val)
                   \/ UNCHANGED <<firmware, refused>> /\ Head(inbox).op = "ZERO"
                /\ line' = Append(line, [op |-> Head(inbox).op, val |-> val])

LEMMA OtherKinds ==
    ASSUME TypeOK, Expire \/ Firmware \/ UNCHANGED vars
    PROVE  Rests \/ Turns \/ Stops \/ Takes
PROOF
<1> USE DEF config, callVars, pollVars, history, faults, Same
<1>1. CASE Expire \/ UNCHANGED vars
      BY <1>1 DEF Expire, vars, Rests
<1>2. CASE Turn
      BY <1>2 DEF Turn, Turns
<1>3. CASE Complete \/ Stall
      BY <1>3 DEF Complete, Stall, Reply, Stops
<1>4. CASE Execute
      BY <1>4, Zenon DEF Execute, Reply, Takes
<1>5. CASE RefuseZero
  <2>1. 0 \in Values /\ line' = Append(line, [op |-> Head(inbox).op, val |-> 0])
        /\ UNCHANGED <<firmware, refused, lost>> /\ Head(inbox).op = "ZERO"
        /\ inbox # <<>> /\ inbox' = Tail(inbox) /\ Same
        BY <1>5 DEF RefuseZero, Reply, Values
  <2> QED BY <2>1, Zenon DEF Takes
<1>6. CASE Lose
  <2>1. Same /\ inbox # <<>> /\ inbox' = Tail(inbox) /\ lost' = lost + 1 /\ UNCHANGED line
        BY <1>6 DEF Lose
  <2>2. UNCHANGED <<firmware, refused, line>> \/ \E val \in Values : Effect(Head(inbox), val)
        BY <1>6, <2>1 DEF Lose
  <2> QED BY <2>1, <2>2, Zenon DEF Takes
<1> QED BY <1>1, <1>2, <1>3, <1>4, <1>5, <1>6 DEF Firmware

----------------------------------------------------------------------------
(* The requests on their way.                                               *)

LEMMA AllMoves ==
    ASSUME TypeOK, QueueInv, late = 0, Awaited = "MOVE" \/ inbox = <<>>
    PROVE  \A k \in DOMAIN inbox : IsMove(k)
PROOF
<1>1. DOMAIN inbox = 1..Len(inbox) /\ Len(inbox) \in Nat /\ (inbox = <<>> => Len(inbox) = 0)
      BY TypeParts, LenProperties, EmptySeq DEF LineType
<1> QED BY <1>1 DEF QueueInv, IsMove

\* The head is a MOVE, or the one request whose answer is awaited.
LEMMA HeadKinds ==
    ASSUME TypeOK, QueueInv, late = 0, inbox # <<>>
    PROVE  /\ Head(inbox) = inbox[1] /\ inbox[1] \in Request /\ Len(inbox) \in Nat \ {0}
           /\ \/ IsMove(1)
              \/ Len(inbox) = 1 /\ inbox[1].op = Awaited
PROOF
<1>1. inbox \in Seq(Request) /\ DOMAIN inbox = 1..Len(inbox) /\ Len(inbox) \in Nat /\ Len(inbox) # 0
      BY TypeParts, LenProperties, EmptySeq DEF LineType
<1>2. Head(inbox) = inbox[1] /\ inbox[1] \in Request
      BY <1>1, Dropped, ElementOfSeq
<1> QED BY <1>1, <1>2 DEF QueueInv, IsMove

\* What is left when the head is taken.
LEMMA Taken ==
    ASSUME TypeOK, inbox # <<>>, inbox' = Tail(inbox)
    PROVE  /\ inbox' \in Seq(Request) /\ Len(inbox') = Len(inbox) - 1
           /\ DOMAIN inbox' = 1..(Len(inbox) - 1) /\ DOMAIN inbox = 1..Len(inbox)
           /\ Len(inbox) \in Nat \ {0} /\ (inbox' = <<>> <=> Len(inbox) = 1)
           /\ \A k \in DOMAIN inbox' : inbox'[k] = inbox[k + 1]
PROOF
<1>1. inbox \in Seq(Request) /\ DOMAIN inbox = 1..Len(inbox) /\ Len(inbox) \in Nat /\ Len(inbox) # 0
      BY TypeParts, LenProperties, EmptySeq DEF LineType
<1>2. /\ inbox' \in Seq(Request) /\ Len(inbox') = Len(inbox) - 1
      /\ \A k \in DOMAIN inbox' : inbox'[k] = inbox[k + 1]
      BY <1>1, Dropped, HeadType
<1>3. DOMAIN inbox' = 1..Len(inbox') /\ (inbox' = <<>> <=> Len(inbox') = 0)
      BY <1>2, LenProperties, EmptySeq
<1> QED BY <1>1, <1>2, <1>3

\* A transaction begins with only MOVEs on their way.
LEMMA QueueSends ==
    ASSUME TypeOK, \A k \in DOMAIN inbox : IsMove(k), call' \in CallNames,
           NEW stage, NEW op \in Ops, NEW arg \in Int, Transact(stage, op, arg),
           op = Awaited',
           stage \in {"move", "retry"} => op = "MOVE" /\ arg = target',
           stage = "polling" /\ inbox # <<>> => Own(Len(inbox)) /\ target' = target
    PROVE  QueueInv'
PROOF
<1>1. /\ inbox \in Seq(Request) /\ DOMAIN inbox = 1..Len(inbox) /\ Len(inbox) \in Nat
      /\ (inbox = <<>> <=> Len(inbox) = 0)
      BY TypeParts, LenProperties, EmptySeq DEF LineType
<1>2. /\ inbox' \in Seq(Request) /\ Len(inbox') = Len(inbox) + 1 /\ inbox' # <<>>
      /\ inbox'[Len(inbox) + 1] = [op |-> op, arg |-> arg, call |-> call']
      /\ \A k \in DOMAIN inbox : inbox'[k] = inbox[k]
      BY <1>1, Sent
<1>3. DOMAIN inbox' = 1..(Len(inbox) + 1)
      BY <1>2, LenProperties
<1>4. at' = stage /\ line' = <<>>
      BY DEF Transact
<1>5. DOMAIN line' = {}
  <2>1. DOMAIN <<>> = {}
        OBVIOUS
  <2> QED BY <1>4, <2>1, Zenon
<1>6. \A k \in DOMAIN inbox' : k < Len(inbox') => IsMove(k)'
      BY <1>1, <1>2, <1>3 DEF IsMove
<1>7. inbox'[Len(inbox')].op = Awaited'
      BY <1>2
<1>8. at' \in {"move", "retry"} => Own(Len(inbox))'
      BY <1>2, <1>4 DEF Own, IsMove
<1>9. ASSUME at' = "polling", Len(inbox') > 1 PROVE Own(Len(inbox) - 1)'
  <2>1. Len(inbox) \in DOMAIN inbox /\ Len(inbox') - 1 = Len(inbox)
        BY <1>1, <1>2, <1>9
  <2>2. Own(Len(inbox)) /\ target' = target
        BY <1>1, <1>4, <1>9, <2>1
  <2> QED BY <1>2, <2>1, <2>2 DEF Own, IsMove
<1> QED BY <1>2, <1>5, <1>6, <1>7, <1>8, <1>9 DEF QueueInv

\* A request is taken off.
LEMMA QueueTakes ==
    ASSUME TypeOK, QueueInv, late = 0, Takes
    PROVE  QueueInv'
PROOF
<1>1. /\ inbox # <<>> /\ inbox' = Tail(inbox) /\ UNCHANGED <<at, target>>
      BY DEF Takes, Same
<1>2. /\ Len(inbox') = Len(inbox) - 1
      /\ DOMAIN inbox' = 1..(Len(inbox) - 1) /\ DOMAIN inbox = 1..Len(inbox)
      /\ Len(inbox) \in Nat \ {0} /\ (inbox' = <<>> <=> Len(inbox) = 1)
      /\ \A k \in DOMAIN inbox' : inbox'[k] = inbox[k + 1]
      BY <1>1, Taken
<1>3. Awaited' = Awaited
      BY <1>1 DEF Awaited
<1>4. \A k \in DOMAIN inbox' : k < Len(inbox') => IsMove(k)'
      BY <1>2 DEF QueueInv, IsMove
<1>5. inbox' # <<>> => inbox'[Len(inbox')].op = Awaited'
      BY <1>1, <1>2, <1>3 DEF QueueInv
<1>6. ASSUME Awaited # "MOVE", inbox' # <<>> PROVE \A k \in DOMAIN line' : line'[k].op # Awaited
  <2>1. Head(inbox).op = "MOVE"
        BY <1>1, <1>2, <1>6, HeadKinds DEF IsMove
  <2>2. \A k \in DOMAIN line : line[k].op # Awaited
        BY <1>1, <1>6 DEF QueueInv
  <2>3. CASE line' = line
        BY <2>2, <2>3
  <2>4. ASSUME NEW val \in Values, line' = Append(line, [op |-> "MOVE", val |-> val])
        PROVE  \A k \in DOMAIN line' : line'[k].op # Awaited
    <3> DEFINE f == [op |-> "MOVE", val |-> val]
    <3>1. f \in Frame /\ f.op = "MOVE" /\ line \in Seq(Frame)
          BY TypeParts DEF Frame, Ops, Values, FirmwareType, LineType
    <3> HIDE DEF f
    <3>2. \A k \in DOMAIN line' : (k \in DOMAIN line /\ line'[k] = line[k]) \/ line'[k] = f
          BY <2>4, <3>1, Appended DEF f
    <3> QED BY <1>6, <2>2, <3>1, <3>2
  <2> QED BY <2>1, <2>3, <2>4 DEF Takes
<1>7. ASSUME at' \in {"move", "retry"}, inbox' # <<>>
      PROVE  inbox'[Len(inbox')].op = "MOVE" /\ inbox'[Len(inbox')].arg = target'
      BY <1>1, <1>2, <1>7 DEF QueueInv, Own, IsMove
<1>8. ASSUME at' = "polling", Len(inbox') > 1
      PROVE  inbox'[Len(inbox') - 1].op = "MOVE" /\ inbox'[Len(inbox') - 1].arg = target'
  <2>1. Own(Len(inbox) - 1) /\ Len(inbox') - 1 \in DOMAIN inbox'
        BY <1>1, <1>2, <1>8 DEF QueueInv
  <2> QED BY <1>1, <1>2, <1>8, <2>1 DEF Own, IsMove
<1> QED BY <1>3, <1>4, <1>5, <1>6, <1>7, <1>8 DEF QueueInv, Own, IsMove

LEMMA QueueStep == TypeOK /\ FreshInv /\ QueueInv /\ [Next]_vars => QueueInv'
PROOF
<1> SUFFICES ASSUME TypeOK, FreshInv, QueueInv, [Next]_vars, late' = 0 PROVE QueueInv'
    BY DEF QueueInv
<1>0. /\ "ENC" \in Ops /\ "MOVE" \in Ops /\ "ZERO" \in Ops /\ "RELEASE" \in Ops /\ 0 \in Int
      /\ target \in Int /\ LineType
      BY TypeParts DEF Ops, CallType
<1>1. CASE Calls \/ Motor
  <2>1. late = 0 /\ Quiet /\ Kinds
        BY <1>1, StepKinds
  <2>2. call' \in CallNames
        BY <2>1 DEF Quiet
  <2>3. CASE SendsMove
    <3>1. \A k \in DOMAIN inbox : IsMove(k)
          BY <2>1, <2>3, AllMoves DEF SendsMove, Awaited
    <3>2. at' = "move" /\ target' \in Int /\ Transact("move", "MOVE", target')
          BY <2>3 DEF SendsMove, Transact
    <3> QED BY <1>0, <2>2, <3>1, <3>2, QueueSends DEF Awaited
  <2>4. CASE SendsAgain
    <3>1. \A k \in DOMAIN inbox : IsMove(k)
          BY <2>1, <2>4, AllMoves DEF SendsAgain
    <3>2. at' = "retry" /\ target' = target /\ Transact("retry", "MOVE", target)
          BY <2>4 DEF SendsAgain, Transact
    <3> QED BY <1>0, <2>2, <3>1, <3>2, QueueSends DEF Awaited
  <2>5. CASE Releases
    <3>1. \A k \in DOMAIN inbox : IsMove(k)
          BY <2>1, <2>5, AllMoves DEF Releases, Awaited
    <3>2. at' = "release" /\ Transact("release", "RELEASE", 0)
          BY <2>5 DEF Releases, Transact
    <3> QED BY <1>0, <2>2, <3>1, <3>2, QueueSends DEF Awaited
  <2>6. CASE PollsFirst
    <3>1. \A k \in DOMAIN inbox : IsMove(k)
          BY <2>1, <2>6, AllMoves DEF PollsFirst, Sends, Awaited
    <3>2. at' = "polling" /\ target' = target /\ Transact("polling", "ENC", 0)
          BY <2>6 DEF PollsFirst, Transact
    <3>3. inbox # <<>> => Own(Len(inbox))
          BY <2>1, <2>6 DEF PollsFirst, Sends, QueueInv
    <3> QED BY <1>0, <2>2, <3>1, <3>2, <3>3, QueueSends DEF Awaited
  <2>7. CASE PollsAgain
    <3>1. inbox = <<>> /\ \A k \in DOMAIN inbox : IsMove(k)
          BY <2>1, <2>7, AllMoves DEF PollsAgain
    <3>2. at' = "polling" /\ Transact("polling", "ENC", 0)
          BY <2>7 DEF PollsAgain, Transact
    <3> QED BY <1>0, <2>2, <3>1, <3>2, QueueSends DEF Awaited
  <2>8. CASE Asks
    <3>1. \A k \in DOMAIN inbox : IsMove(k)
          BY <2>1, <2>8, AllMoves DEF Asks, Awaited
    <3>2. ASSUME NEW stage \in {"reading", "current", "origin"}, Transact(stage, "ENC", 0) PROVE QueueInv'
          BY <1>0, <2>2, <3>1, <3>2, QueueSends DEF Awaited, Transact
    <3>3. ASSUME NEW stage \in {"zeroing", "zeroing again"}, Transact(stage, "ZERO", 0) PROVE QueueInv'
          BY <1>0, <2>2, <3>1, <3>3, QueueSends DEF Awaited, Transact
    <3> QED BY <2>8, <3>2, <3>3 DEF Asks
  <2>9. CASE Dispatches
    <3> DEFINE e == [op |-> "MOVE", arg |-> target', call |-> call']
    <3>1. \A k \in DOMAIN inbox : IsMove(k)
          BY <2>1, <2>9, AllMoves DEF Dispatches, Awaited
    <3>2. e \in Request /\ e.op = "MOVE" /\ inbox' = Append(inbox, e) /\ at' = "idle"
          BY <1>0, <2>2, <2>9 DEF Dispatches, Request
    <3> HIDE DEF e
    <3>3. \A k \in DOMAIN inbox' : inbox'[k].op = "MOVE"
      <4>1. \A k \in DOMAIN inbox' : (k \in DOMAIN inbox /\ inbox'[k] = inbox[k]) \/ inbox'[k] = e
            BY <1>0, <3>2, Appended DEF LineType
      <4> QED BY <3>1, <3>2, <4>1 DEF IsMove
    <3>4. inbox' # <<>> => Len(inbox') \in DOMAIN inbox'
      <4>1. inbox' \in Seq(Request)
            BY <1>0, <3>2, AppendProperties DEF LineType
      <4> QED BY <4>1, LenProperties, EmptySeq
    <3> QED BY <3>2, <3>3, <3>4 DEF QueueInv, Awaited, IsMove
  <2>10. CASE Arrives \/ Ends
    <3>1. \A k \in DOMAIN inbox : IsMove(k)
          BY <2>1, <2>10, AllMoves DEF Arrives, Ends, Sends, Awaited
    <3>2. at' = "idle" /\ inbox' = inbox
          BY <2>10 DEF Arrives, Ends
    <3>3. inbox # <<>> => Len(inbox) \in DOMAIN inbox
          BY <1>0, LenProperties, EmptySeq DEF LineType
    <3> QED BY <3>1, <3>2, <3>3 DEF QueueInv, Awaited, IsMove
  <2> QED BY <2>1, <2>3, <2>4, <2>5, <2>6, <2>7, <2>8, <2>9, <2>10 DEF Kinds
<1>2. CASE Expire \/ Firmware \/ UNCHANGED vars
  <2>1. Rests \/ Turns \/ Stops \/ Takes
        BY <1>2, OtherKinds
  <2>2. late = 0 /\ Awaited' = Awaited
        BY <2>1 DEF Rests, Turns, Stops, Takes, Same, Awaited
  <2>3. CASE Rests \/ Turns
    <3>1. UNCHANGED <<at, target, inbox, line>>
          BY <2>3 DEF Rests, Turns, Same
    <3> QED BY <2>2, <3>1 DEF QueueInv, Own, IsMove
  <2>4. CASE Stops
    <3>1. UNCHANGED <<at, target, inbox>>
          BY <2>4 DEF Stops, Same
    <3>2. ASSUME Awaited # "MOVE", inbox # <<>> PROVE \A k \in DOMAIN line' : line'[k].op # Awaited
      <4> DEFINE f == [op |-> "MOVE", val |-> 2]
      <4>1. f \in Frame /\ f.op = "MOVE"
            BY <1>0 DEF Frame
      <4>2. line' = line \/ line' = Append(line, f)
            BY <2>4 DEF Stops
      <4> HIDE DEF f
      <4>3. \A k \in DOMAIN line' : (k \in DOMAIN line /\ line'[k] = line[k]) \/ line'[k] = f
            BY <1>0, <4>1, <4>2, Appended DEF LineType
      <4> QED BY <2>2, <3>2, <4>1, <4>3 DEF QueueInv
    <3> QED BY <2>2, <3>1, <3>2 DEF QueueInv, Own, IsMove
  <2>5. CASE Takes
        BY <2>2, <2>5, QueueTakes
  <2> QED BY <2>1, <2>3, <2>4, <2>5
<1> QED BY <1>1, <1>2 DEF Next

LEMMA InitQueue == Init => QueueInv
PROOF
<1>1. Init => inbox = <<>> /\ at = "idle" /\ DOMAIN inbox = {}
  <2>1. DOMAIN <<>> = {}
        OBVIOUS
  <2> QED BY <2>1 DEF Init
<1> QED BY <1>1 DEF QueueInv

----------------------------------------------------------------------------
(* Where the motor is driven to.                                            *)

LEMMA CallsSpareFirmware == Calls => UNCHANGED firmware
PROOF BY DEF Calls, Write, DispatchWrite, Read, MoveRelative, SetOrigin

LEMMA MotorSparesFirmware == Motor => UNCHANGED firmware
PROOF
<1>1. MoveAnswered \/ MoveFails \/ ReleaseEnds => UNCHANGED firmware
      BY DEF MoveAnswered, MoveFails, ReleaseEnds
<1>2. Arrived \/ NotArrived \/ PollFails => UNCHANGED firmware
      BY DEF Arrived, NotArrived, PollFails
<1>3. ReadAnswered \/ CurrentAnswered \/ ReadFails => UNCHANGED firmware
      BY DEF ReadAnswered, CurrentAnswered, ReadFails
<1>4. ZeroAnswered \/ ZeroFails \/ OriginAnswered \/ OriginFails => UNCHANGED firmware
      BY DEF ZeroAnswered, ZeroFails, OriginAnswered, OriginFails, firmware
<1> QED BY <1>1, <1>2, <1>3, <1>4 DEF Motor

\* A request starts the motor only if no stall is latched.
LEMMA EffectLatch ==
    ASSUME LatchInv, NEW r, NEW val, Effect(r, val)
    PROVE  LatchInv'
PROOF BY DEF Effect, LatchInv, firmware

LEMMA LatchStep == LatchInv /\ [Next]_vars => LatchInv'
PROOF
<1> SUFFICES ASSUME LatchInv, [Next]_vars PROVE LatchInv'
    OBVIOUS
<1>1. CASE UNCHANGED firmware
      BY <1>1 DEF firmware, LatchInv
<1>2. CASE Firmware
  <2>1. CASE Execute \/ Lose
        BY <1>1, <2>1, EffectLatch DEF Execute, Lose
  <2>2. CASE RefuseZero
        BY <1>1, <2>2 DEF RefuseZero
  <2>3. CASE Turn \/ Complete \/ Stall
        BY <2>3 DEF Turn, Complete, Stall, LatchInv
  <2> QED BY <1>2, <2>1, <2>2, <2>3 DEF Firmware
<1>3. CASE Expire \/ UNCHANGED vars
      BY <1>1, <1>3 DEF Expire, vars
<1> QED BY <1>1, <1>2, <1>3, CallsSpareFirmware, MotorSparesFirmware DEF Next

\* The firmware executes the call's own MOVE: the motor is driven to its target, or
\* does not turn.
LEMMA OwnDrives ==
    ASSUME LatchInv, NEW r, NEW val, r.op = "MOVE", Effect(r, val)
    PROVE  /\ enc' = enc /\ zero' = zero
           /\ (r.arg = target /\ UNCHANGED target => Driven')
           /\ (val = 1 => ~latched /\ UNCHANGED refused)
           /\ (latched => ~moving')
           /\ latched \/ UNCHANGED refused
PROOF BY DEF Effect, firmware, Driven, LatchInv

LEMMA OtherSpares ==
    ASSUME NEW r, NEW val, r.op # "MOVE", Effect(r, val)
    PROVE  /\ UNCHANGED <<enc, goal, moving, refused>>
           /\ r.op # "ZERO" => UNCHANGED zero
PROOF BY DEF Effect, firmware

LEMMA ExecutedStep ==
    TypeOK /\ FreshInv /\ QueueInv /\ LatchInv /\ ExecutedInv /\ [Next]_vars => ExecutedInv'
PROOF
<1> SUFFICES ASSUME TypeOK, FreshInv, QueueInv, LatchInv, ExecutedInv, [Next]_vars,
                    late' = 0, lost' = 0
             PROVE  /\ at' \in {"move", "retry"} /\ inbox' = <<>> => Driven'
                    /\ at' = "polling" /\ NoMoves' => Driven'
    BY DEF ExecutedInv
<1>0. /\ inbox \in Seq(Request) /\ DOMAIN inbox = 1..Len(inbox) /\ Len(inbox) \in Nat
      /\ (inbox = <<>> <=> Len(inbox) = 0) /\ lost \in Nat
      /\ "ENC" \in Ops /\ "MOVE" \in Ops /\ 0 \in Int /\ target \in Int
      BY TypeParts, LenProperties, EmptySeq, BoundsAssumption
      DEF LineType, FaultType, Ops, CallType
<1>1. CASE Calls \/ Motor
  <2>1. late = 0 /\ Quiet /\ Kinds
        BY <1>1, StepKinds
  <2>2. lost = 0 /\ call' \in CallNames /\ UNCHANGED <<zero, goal, moving>>
        BY <2>1 DEF Quiet, firmware
  <2>3. ASSUME at' \in {"move", "retry"} PROVE inbox' # <<>>
    <3>1. SendsMove \/ SendsAgain
          BY <2>1, <2>3 DEF Kinds, Releases, PollsFirst, PollsAgain, Asks, Dispatches, Arrives, Ends,
                            Transact
    <3> QED BY <1>0, <2>2, <3>1, Sent DEF SendsMove, SendsAgain
  <2>4. ASSUME at' = "polling", NoMoves' PROVE Driven'
    <3>1. PollsFirst \/ PollsAgain
          BY <2>1, <2>4 DEF Kinds, SendsMove, SendsAgain, Releases, Asks, Dispatches, Arrives, Ends,
                            Transact
    <3>2. Transact("polling", "ENC", 0) /\ UNCHANGED target
          BY <3>1 DEF PollsFirst, PollsAgain
    <3>3. \A k \in DOMAIN inbox : k \in DOMAIN inbox' /\ inbox'[k] = inbox[k]
          BY <1>0, <2>2, <3>2, Sent
    <3>4. NoMoves
          BY <2>4, <3>3 DEF NoMoves, IsMove
    <3>5. Driven
      <4>1. CASE PollsAgain
            BY <2>1, <2>2, <3>4, <4>1 DEF PollsAgain, ExecutedInv
      <4>2. CASE PollsFirst
        <5>1. \A k \in DOMAIN inbox : IsMove(k)
              BY <2>1, <4>2, AllMoves DEF PollsFirst, Sends, Awaited
        <5>2. inbox = <<>>
          <6>1. ASSUME inbox # <<>> PROVE FALSE
            <7>1. Len(inbox) \in DOMAIN inbox
                  BY <1>0, <6>1
            <7> QED BY <3>4, <5>1, <7>1, Zenon DEF NoMoves
          <6> QED BY <6>1
        <5> QED BY <2>1, <2>2, <4>2, <5>2 DEF PollsFirst, Sends, ExecutedInv
      <4> QED BY <3>1, <4>1, <4>2
    <3> QED BY <2>2, <3>2, <3>5 DEF Driven
  <2> QED BY <2>3, <2>4
<1>2. CASE Expire \/ Firmware \/ UNCHANGED vars
  <2>1. Rests \/ Turns \/ Stops \/ Takes
        BY <1>2, OtherKinds
  <2>2. late = 0 /\ lost = 0 /\ UNCHANGED <<at, target>>
        BY <1>0, <2>1 DEF Rests, Turns, Stops, Takes, Same
  <2>3. CASE Rests \/ Turns
    <3>1. UNCHANGED <<inbox, moving, goal, zero>>
          BY <2>3 DEF Rests, Turns, firmware
    <3> QED BY <2>2, <3>1 DEF ExecutedInv, NoMoves, IsMove, Driven
  <2>4. CASE Stops
        BY <2>4 DEF Stops, Driven
  <2>5. CASE Takes
    <3>1. inbox # <<>> /\ inbox' = Tail(inbox)
          BY <2>5 DEF Takes
    <3>2. /\ Len(inbox') = Len(inbox) - 1 /\ DOMAIN inbox' = 1..(Len(inbox) - 1)
          /\ (inbox' = <<>> <=> Len(inbox) = 1)
          /\ \A k \in DOMAIN inbox' : inbox'[k] = inbox[k + 1]
          BY <3>1, Taken
    <3>3. /\ Head(inbox) = inbox[1] /\ Len(inbox) \in Nat \ {0}
          /\ IsMove(1) \/ (Len(inbox) = 1 /\ inbox[1].op = Awaited)
          BY <2>2, <3>1, HeadKinds
    <3>4. at \in {"move", "retry", "polling"} => Head(inbox).op # "ZERO"
          BY <3>3 DEF Awaited, IsMove
    <3>5. at \in {"move", "retry", "polling"} => \E val \in Values : Effect(Head(inbox), val)
      <4>1. ~(lost' = lost + 1)
            BY <2>2
      <4>2. PICK val \in Values : \/ Effect(Head(inbox), val)
                                  \/ UNCHANGED <<firmware, refused>> /\ Head(inbox).op = "ZERO"
            BY <2>5, <4>1, Zenon DEF Takes
      <4> QED BY <3>4, <4>2, Zenon
    <3>6. ASSUME at' \in {"move", "retry"}, inbox' = <<>> PROVE Driven'
      <4>1. Own(1)
            BY <2>2, <3>1, <3>2, <3>6 DEF QueueInv
      <4> QED BY <2>2, <3>3, <3>5, <3>6, <4>1, OwnDrives DEF Own, IsMove
    <3>7. ASSUME at' = "polling", NoMoves' PROVE Driven'
      <4>1. CASE IsMove(1)
        <5>1. inbox[Len(inbox)].op = "ENC"
              BY <2>2, <3>1, <3>7 DEF QueueInv, Awaited
        <5>2. Len(inbox) = 2
          <6>1. Len(inbox) # 1
                BY <4>1, <5>1 DEF IsMove
          <6>2. ~(Len(inbox) > 2)
            <7>1. ASSUME Len(inbox) > 2 PROVE FALSE
              <8>1. IsMove(2) /\ 1 \in DOMAIN inbox' /\ inbox'[1] = inbox[2]
                    BY <1>0, <2>2, <3>2, <7>1 DEF QueueInv
              <8> QED BY <3>7, <8>1 DEF NoMoves, IsMove
            <7> QED BY <7>1
          <6>3. Len(inbox) \in Nat /\ Len(inbox) # 0
                BY <3>3
          <6>4. \A n \in Nat : n # 0 /\ n # 1 /\ ~(n > 2) => n = 2
                OBVIOUS
          <6> QED BY <6>1, <6>2, <6>3, <6>4, Zenon
        <5>3. Own(1)
              BY <2>2, <3>7, <5>2 DEF QueueInv
        <5> QED BY <2>2, <3>3, <3>5, <3>7, <5>3, OwnDrives DEF Own, IsMove
      <4>2. CASE Len(inbox) = 1 /\ inbox[1].op = Awaited
        <5>1. inbox[1].op = "ENC"
              BY <2>2, <3>7, <4>2 DEF Awaited
        <5>2. NoMoves
              BY <1>0, <4>2, <5>1 DEF NoMoves, IsMove
        <5>3. Driven
              BY <2>2, <3>7, <5>2 DEF ExecutedInv
        <5>4. UNCHANGED <<goal, moving, zero>>
              BY <2>2, <3>3, <3>5, <3>7, <5>1, OtherSpares
        <5> QED BY <2>2, <5>3, <5>4 DEF Driven
      <4> QED BY <3>3, <4>1, <4>2
    <3> QED BY <3>6, <3>7
  <2> QED BY <2>1, <2>3, <2>4, <2>5
<1> QED BY <1>1, <1>2 DEF Next

----------------------------------------------------------------------------
(* Whose answer it is.                                                      *)

\* A transaction with nothing on its way.
LEMMA SendsAlone ==
    ASSUME TypeOK, inbox = <<>>, call' \in CallNames, NEW stage, NEW op \in Ops, NEW arg \in Int,
           Transact(stage, op, arg)
    PROVE  /\ at' = stage /\ Len(inbox') = 1 /\ ~Has("MOVE")' /\ ~Accepted'
           /\ op # "MOVE" => NoMoves'
PROOF
<1>1. inbox \in Seq(Request) /\ Len(inbox) = 0 /\ DOMAIN inbox = {}
  <2>1. inbox \in Seq(Request) /\ DOMAIN inbox = 1..Len(inbox) /\ Len(inbox) = 0
        BY TypeParts, LenProperties, EmptySeq DEF LineType
  <2> QED BY <2>1
<1>2. /\ Len(inbox') = Len(inbox) + 1
      /\ inbox'[Len(inbox) + 1] = [op |-> op, arg |-> arg, call |-> call']
      /\ \A k \in DOMAIN inbox' : k \in DOMAIN inbox \/ k = Len(inbox) + 1
      BY <1>1, Sent
<1>3. DOMAIN line' = {} /\ at' = stage
  <2>1. DOMAIN <<>> = {}
        OBVIOUS
  <2> QED BY <2>1, Zenon DEF Transact
<1>4. \A k \in DOMAIN inbox' : inbox'[k].op = op
      BY <1>1, <1>2
<1> QED BY <1>1, <1>2, <1>3, <1>4 DEF Has, Accepted, NoMoves, IsMove

\* A transaction other than a MOVE.
LEMMA SendsNoMove ==
    ASSUME TypeOK, NoMoves, call' \in CallNames, NEW stage, NEW op \in Ops, op # "MOVE",
           Transact(stage, op, 0)
    PROVE  at' = stage /\ NoMoves'
PROOF
<1>1. inbox \in Seq(Request) /\ 0 \in Int
      BY TypeParts DEF LineType
<1>2. /\ inbox'[Len(inbox) + 1] = [op |-> op, arg |-> 0, call |-> call']
      /\ \A k \in DOMAIN inbox : inbox'[k] = inbox[k]
      /\ \A k \in DOMAIN inbox' : k \in DOMAIN inbox \/ k = Len(inbox) + 1
      BY <1>1, Sent
<1>3. ASSUME NEW k \in DOMAIN inbox' PROVE inbox'[k].op # "MOVE"
  <2>1. CASE k \in DOMAIN inbox
        BY <1>2, <2>1 DEF NoMoves, IsMove
  <2>2. CASE k = Len(inbox) + 1
        BY <1>2, <2>2
  <2> QED BY <1>2, <2>1, <2>2
<1> QED BY <1>3 DEF NoMoves, IsMove, Transact

LEMMA NoneLeft ==
    ASSUME TypeOK, NoMoves, \A k \in DOMAIN inbox : IsMove(k)
    PROVE  inbox = <<>>
PROOF
<1>1. inbox \in Seq(Request) /\ DOMAIN inbox = 1..Len(inbox) /\ Len(inbox) \in Nat
      BY TypeParts, LenProperties DEF LineType
<1>2. ASSUME Len(inbox) # 0 PROVE FALSE
  <2>1. Len(inbox) \in DOMAIN inbox
        BY <1>1, <1>2
  <2> QED BY <2>1, Zenon DEF NoMoves
<1> QED BY <1>1, <1>2, EmptySeq

LEMMA NoneNoMoves == inbox = <<>> => NoMoves
PROOF
<1>1. DOMAIN <<>> = {}
      OBVIOUS
<1> QED BY <1>1, Zenon DEF NoMoves

LEMMA AnswerAccepts ==
    ASSUME TypeOK, Has("MOVE"), Answer("MOVE") = 1
    PROVE  Accepted
PROOF BY AnswerType DEF Accepted, Answer

\* A step of the Motor, before any MOVE was left unclaimed.
LEMMA ClaimsByMotor ==
    ASSUME TypeOK, QueueInv, late = 0, ~unclaimed', Claims, Quiet, Kinds
    PROVE  Claims'
PROOF
<1>0. /\ "ENC" \in Ops /\ "MOVE" \in Ops /\ "ZERO" \in Ops /\ "RELEASE" \in Ops /\ 0 \in Int
      /\ target \in Int /\ call' \in CallNames /\ UNCHANGED <<moving, goal, zero>>
      BY TypeParts DEF Ops, CallType, Quiet, firmware
<1>1. CASE SendsMove
  <2>1. inbox = <<>>
    <3>1. CASE at = "idle"
          BY <3>1, AllMoves, NoneLeft DEF Claims, Awaited
    <3> QED BY <1>1, <3>1 DEF SendsMove
  <2>2. ~refused'
        BY <1>1 DEF SendsMove, Claims
  <2>3. at' = "move" /\ Len(inbox') = 1 /\ ~Accepted'
        BY <1>0, <1>1, <2>1, SendsAlone DEF SendsMove
  <2> QED BY <2>2, <2>3 DEF Claims
<1>2. CASE SendsAgain
  <2>1. at' = "retry" /\ Len(inbox') = 1 /\ ~Accepted' /\ ~Has("MOVE")'
        BY <1>0, <1>2, SendsAlone DEF SendsAgain
  <2>2. refused' /\ ~moving'
        BY <1>0, <1>2 DEF SendsAgain, Claims
  <2> QED BY <2>1, <2>2 DEF Claims
<1>3. CASE Releases
  <2>1. refused /\ inbox = <<>> /\ ~moving
        BY <1>3 DEF Releases, Claims
  <2>2. at' = "release" /\ NoMoves'
        BY <1>0, <1>3, <2>1, SendsAlone DEF Releases
  <2>3. refused' /\ ~moving'
        BY <1>0, <1>3, <2>1 DEF Releases
  <2> QED BY <2>2, <2>3 DEF Claims
<1>4. CASE PollsFirst
  <2>1. Accepted
        BY <1>4, AnswerAccepts DEF PollsFirst
  <2>2. inbox = <<>> /\ Driven
        BY <1>4, <2>1 DEF PollsFirst, Sends, Claims
  <2>3. at' = "polling" /\ NoMoves'
        BY <1>0, <1>4, <2>2, SendsAlone DEF PollsFirst
  <2> QED BY <1>0, <1>4, <2>2, <2>3 DEF PollsFirst, Claims, Driven
<1>5. CASE PollsAgain
  <2>1. at' = "polling" /\ NoMoves'
        BY <1>0, <1>5, SendsAlone DEF PollsAgain
  <2> QED BY <1>0, <1>5, <2>1 DEF PollsAgain, Claims, Driven
<1>6. CASE Asks
  <2>1. NoMoves
        BY <1>6, NoneNoMoves DEF Asks, Claims
  <2>2. ASSUME NEW stage \in {"reading", "current", "zeroing", "zeroing again", "origin"},
               NEW op \in {"ENC", "ZERO"}, Transact(stage, op, 0), stage = "current" => ~refused'
        PROVE  Claims'
    <3>1. op \in Ops /\ op # "MOVE"
          BY <1>0
    <3>2. at' = stage /\ NoMoves'
          BY <1>0, <2>1, <2>2, <3>1, SendsNoMove
    <3> QED BY <2>2, <3>2 DEF Claims
  <2> QED BY <1>6, <2>2 DEF Asks
<1>7. CASE Arrives
      BY <1>7, NoneNoMoves DEF Arrives, Claims, NoMoves, IsMove
<1>8. CASE Ends
  <2>1. NoMoves
    <3>1. CASE Sends /\ inbox # <<>>
      <4>1. Has("MOVE") /\ (Answer("MOVE") = 1 \/ refused)
            BY <1>8, <3>1 DEF Ends
      <4> QED BY <3>1, <4>1, AnswerAccepts DEF Claims, Sends
    <3> QED BY <1>8, <3>1, NoneNoMoves DEF Ends, Claims
  <2> QED BY <1>8, <2>1 DEF Ends, Claims, NoMoves, IsMove
<1>9. CASE Dispatches
      BY <1>9 DEF Dispatches
<1> QED BY <1>1, <1>2, <1>3, <1>4, <1>5, <1>6, <1>7, <1>8, <1>9 DEF Kinds

\* A request is taken off the line, before any MOVE was left unclaimed.
LEMMA ClaimsByTaking ==
    ASSUME TypeOK, QueueInv, LatchInv, late = 0, Claims, Takes
    PROVE  Claims'
PROOF
<1>1. inbox # <<>> /\ inbox' = Tail(inbox) /\ UNCHANGED <<at, target>>
      BY DEF Takes, Same
<1>2. /\ Head(inbox) = inbox[1] /\ Len(inbox) \in Nat \ {0}
      /\ IsMove(1) \/ (Len(inbox) = 1 /\ inbox[1].op = Awaited)
      BY <1>1, HeadKinds
<1>3. 1 \in DOMAIN inbox /\ (inbox' = <<>> <=> Len(inbox) = 1)
      BY <1>1, Taken
<1>4. \/ UNCHANGED <<moving, goal, zero, refused>>
      \/ \E val \in Values : Effect(Head(inbox), val)
      BY DEF Takes, firmware
<1>5. CASE at \in {"move", "retry"}
  <2>1. Own(1) /\ Len(inbox) = 1 /\ inbox' = <<>> /\ ~Accepted
    <3>1. Len(inbox) = 1 /\ ~Accepted
      <4>1. Len(inbox) <= 1 /\ ~Accepted /\ Len(inbox) \in Nat /\ Len(inbox) # 0
            BY <1>1, <1>2, <1>5 DEF Claims
      <4>2. \A n \in Nat : n <= 1 /\ n # 0 => n = 1
            OBVIOUS
      <4> QED BY <4>1, <4>2, Zenon
    <3> QED BY <1>1, <1>3, <1>5, <3>1 DEF QueueInv
  <2>2. Head(inbox).op = "MOVE" /\ Head(inbox).arg = target
        BY <1>2, <2>1 DEF Own, IsMove
  <2>3. ASSUME Accepted' PROVE Driven'
    <3>1. line' # line
          BY <2>1, <2>3 DEF Accepted
    <3>2. PICK val \in Values : Effect(Head(inbox), val)
      <4>1. \/ \E val \in Values : Effect(Head(inbox), val)
            \/ Head(inbox).op = "ZERO"
            BY <3>1, Zenon DEF Takes
      <4> QED BY <2>2, <4>1
    <3> QED BY <1>1, <2>2, <3>2, OwnDrives
  <2>4. ASSUME refused', ~refused PROVE ~moving'
    <3>1. PICK val \in Values : Effect(Head(inbox), val)
          BY <1>4, <2>4
    <3>2. latched
          BY <2>2, <2>4, <3>1, OwnDrives
    <3> QED BY <2>2, <3>1, <3>2, OwnDrives
  <2>5. refused => refused'
        BY <1>4, Zenon DEF Effect
  <2>6. at = "move" => ~refused
        BY <1>1 DEF Claims
  <2>7. at = "retry" => refused
        BY DEF Claims
  <2>8. Len(inbox') = 0
        BY <2>1, EmptySeq
  <2> QED BY <1>1, <1>5, <2>1, <2>3, <2>4, <2>5, <2>6, <2>7, <2>8 DEF Claims
<1>6. CASE at \notin {"move", "retry"}
  <2>1. NoMoves
        BY <1>6 DEF Claims
  <2>2. Len(inbox) = 1 /\ inbox[1].op = Awaited /\ Head(inbox).op # "MOVE"
        BY <1>2, <1>3, <2>1 DEF NoMoves, IsMove
  <2>3. NoMoves'
    <3>1. inbox' = <<>> /\ DOMAIN <<>> = {}
          BY <1>3, <2>2
    <3>2. DOMAIN inbox' = {}
          BY <3>1, Zenon
    <3> QED BY <3>2, Zenon DEF NoMoves
  <2>4. UNCHANGED <<moving, goal, refused>>
        BY <1>4, <2>2, OtherSpares
  <2>5. at = "polling" => UNCHANGED zero
        BY <1>2, <1>4, <2>2, OtherSpares DEF Awaited
  <2> QED BY <1>1, <1>6, <2>3, <2>4, <2>5 DEF Claims, Driven
<1> QED BY <1>5, <1>6

LEMMA ClaimedStep ==
    TypeOK /\ FreshInv /\ QueueInv /\ LatchInv /\ ClaimedInv /\ [Next]_vars => ClaimedInv'
PROOF
<1> SUFFICES ASSUME TypeOK, FreshInv, QueueInv, LatchInv, ClaimedInv, [Next]_vars,
                    late' = 0, ~unclaimed'
             PROVE  Claims'
    BY DEF ClaimedInv
<1>1. CASE Calls \/ Motor
  <2>1. late = 0 /\ Quiet /\ Kinds
        BY <1>1, StepKinds
  <2>2. Claims
        BY <2>1 DEF Quiet, ClaimedInv
  <2> QED BY <2>1, <2>2, ClaimsByMotor
<1>2. CASE Expire \/ Firmware \/ UNCHANGED vars
  <2>1. Rests \/ Turns \/ Stops \/ Takes
        BY <1>2, OtherKinds
  <2>2. late = 0 /\ ~unclaimed /\ UNCHANGED <<at, target>>
        BY <2>1 DEF Rests, Turns, Stops, Takes, Same
  <2>3. Claims
        BY <2>2 DEF ClaimedInv
  <2>4. CASE Rests \/ Turns
    <3>1. UNCHANGED <<inbox, line, zero, goal, moving, refused>>
          BY <2>4 DEF Rests, Turns, firmware
    <3> QED BY <2>2, <2>3, <3>1 DEF Claims, NoMoves, IsMove, Accepted, Driven, Has
  <2>5. CASE Stops
    <3>1. moving /\ ~moving' /\ UNCHANGED <<inbox, refused>>
          BY <2>5 DEF Stops
    <3>2. Accepted' => Accepted
      <4> DEFINE f == [op |-> "MOVE", val |-> 2]
      <4>1. f \in Frame /\ f.val = 2 /\ line \in Seq(Frame)
            BY TypeParts DEF Frame, Ops, LineType
      <4>2. line' = line \/ line' = Append(line, f)
            BY <2>5 DEF Stops
      <4> HIDE DEF f
      <4>3. \A k \in DOMAIN line' : (k \in DOMAIN line /\ line'[k] = line[k]) \/ line'[k] = f
            BY <4>1, <4>2, Appended
      <4> QED BY <4>1, <4>3 DEF Accepted
    <3> QED BY <2>2, <2>3, <3>1, <3>2 DEF Claims, NoMoves, IsMove, Driven
  <2>6. CASE Takes
        BY <2>2, <2>3, <2>6, ClaimsByTaking
  <2> QED BY <2>1, <2>4, <2>5, <2>6
<1> QED BY <1>1, <1>2 DEF Next

----------------------------------------------------------------------------
(* What a wait has seen.                                                    *)

LEMMA SoundBefore ==
    ASSUME TypeOK, late = 0, unclaimed => unclaimed', lost' = lost \/ lost' = lost + 1, Sound'
    PROVE  Sound
PROOF
<1>1. lost \in Nat
      BY TypeParts, BoundsAssumption DEF FaultType
<1>2. lost' = 0 => lost = 0
      BY <1>1
<1> QED BY <1>2, Zenon DEF Sound

LEMMA PolledIsDriven ==
    ASSUME TypeOK, QueueInv, ExecutedInv, ClaimedInv, Sound, at = "polling",
           Has("ENC") \/ inbox = <<>>
    PROVE  inbox = <<>> /\ Driven
PROOF
<1>1. inbox = <<>>
      BY Emptied DEF Sound, Awaited
<1>2. NoMoves
      BY <1>1, NoneNoMoves
<1> QED BY <1>1, <1>2 DEF Sound, ExecutedInv, ClaimedInv, Claims

\* A motor that is driven to the target stays near it.
LEMMA StaysClose ==
    ASSUME TypeOK, Driven, Turn, CloseTo(enc), UNCHANGED <<zero, target>>
    PROVE  CloseTo(enc)'
PROOF
<1>1. /\ enc \in Int /\ zero \in Int /\ target \in Int /\ goal = zero + target /\ Tolerance \in Nat
      BY TypeParts, CountsAssumption DEF FirmwareType, CallType, Driven, Turn
<1>2. /\ enc' \in {enc - 1, enc + 1}
      /\ \/ enc < goal /\ enc' > enc
         \/ enc > goal /\ enc' < enc
         \/ (enc' - goal) \in -Tolerance..Tolerance
      BY DEF Turn
<1>3. enc - goal \in -Tolerance..Tolerance
      BY <1>1 DEF CloseTo
<1>4. enc' - goal \in -Tolerance..Tolerance
  <2>1. CASE enc < goal /\ enc' > enc
    <3>1. enc' = enc + 1
          BY <1>1, <1>2, <2>1
    <3> QED BY <1>1, <1>3, <2>1, <3>1
  <2>2. CASE enc > goal /\ enc' < enc
    <3>1. enc' = enc - 1
          BY <1>1, <1>2, <2>2
    <3> QED BY <1>1, <1>3, <2>2, <3>1
  <2> QED BY <1>2, <2>1, <2>2
<1> QED BY <1>1, <1>4 DEF CloseTo

LEMMA ArrivalStep ==
    /\ TypeOK /\ FreshInv /\ QueueInv /\ ExecutedInv /\ ClaimedInv /\ ArrivalInv
    /\ [Next]_vars
    => ArrivalInv'
PROOF
<1> SUFFICES ASSUME TypeOK, FreshInv, QueueInv, ExecutedInv, ClaimedInv, ArrivalInv, [Next]_vars,
                    Sound'
             PROVE  (at' = "polling" => Watched') /\ (at' = "idle" /\ Waited' => Reached')
    BY DEF ArrivalInv
<1>1. CASE Calls \/ Motor
  <2>1. late = 0 /\ Quiet /\ Kinds
        BY <1>1, StepKinds DEF Sound
  <2>2. Sound /\ UNCHANGED <<enc, zero, goal, moving>>
        BY <2>1, SoundBefore DEF Quiet, firmware
  <2>3. ASSUME at' = "polling" PROVE Watched'
    <3>1. PollsFirst \/ PollsAgain
          BY <2>1, <2>3 DEF Kinds, SendsMove, SendsAgain, Releases, Asks, Dispatches, Arrives, Ends,
                            Transact
    <3>2. line' = <<>> /\ DOMAIN <<>> = {}
          BY <3>1 DEF PollsFirst, PollsAgain, Transact
    <3>3. DOMAIN line' = {}
          BY <3>2, Zenon
    <3> QED BY <3>3, Zenon DEF Watched
  <2>4. ASSUME at' = "idle", Waited' PROVE Reached'
    <3>1. Arrives
          BY <2>1, <2>4 DEF Kinds, SendsMove, SendsAgain, Releases, PollsFirst, PollsAgain, Asks,
                            Dispatches, Ends, Transact, Waited
    <3>2. inbox = <<>> /\ Driven
          BY <2>2, <3>1, PolledIsDriven DEF Arrives
    <3>3. UNCHANGED <<inbox, target, offset>> /\ Near(Answer("ENC")) /\ Has("ENC") /\ at = "polling"
          BY <3>1 DEF Arrives
    <3>4. inbox' = <<>> /\ Driven'
          BY <2>2, <3>2, <3>3 DEF Driven
    <3>5. ASSUME Aligned', InReach' PROVE CloseTo(enc)'
      <4>1. offset = zero /\ zero + target \in -Half..(Half - 1) /\ target \in Int /\ zero \in Int
            BY <2>2, <3>3, <3>5, TypeParts DEF Aligned, InReach, CallType, FirmwareType
      <4>2. EncoderTarget(target) = zero + target
        <5>1. target + offset = zero + target
              BY <4>1
        <5> QED BY <4>1, <5>1, Int32Fits DEF EncoderTarget
      <4>3. CloseTo(Answer("ENC"))
            BY <3>3, <4>2 DEF Near, CloseTo
      <4>4. First("ENC") \in DOMAIN line /\ line[First("ENC")].op = "ENC"
            BY <3>3, AnswerType
      <4>5. CloseTo(enc)
            BY <2>2, <3>3, <4>3, <4>4 DEF ArrivalInv, Watched, Answer
      <4> QED BY <2>2, <3>3, <4>5 DEF CloseTo
    <3> QED BY <3>4, <3>5 DEF Reached
  <2> QED BY <2>3, <2>4
<1>2. CASE Expire \/ Firmware \/ UNCHANGED vars
  <2>1. Rests \/ Turns \/ Stops \/ Takes
        BY <1>2, OtherKinds
  <2>2. UNCHANGED <<at, call, target, offset, blocking, result, unclaimed>> /\ late = 0
        BY <2>1 DEF Rests, Turns, Stops, Takes, Same, Sound
  <2>3. lost' = lost \/ lost' = lost + 1
        BY <2>1 DEF Rests, Turns, Stops, Takes
  <2>4. Sound
        BY <2>2, <2>3, SoundBefore
  <2>5. Waited' = Waited
        BY <2>2 DEF Waited
  <2>6. CASE Rests
    <3>1. UNCHANGED <<inbox, line, enc, zero, goal, moving>>
          BY <2>6 DEF Rests, firmware
    <3> QED BY <2>2, <2>4, <2>5, <3>1
            DEF ArrivalInv, Watched, Reached, CloseTo, Driven, Aligned, InReach
  <2>7. CASE Turns
    <3>1. Turn /\ UNCHANGED <<inbox, line, zero, goal, moving>>
          BY <2>7 DEF Turns
    <3>2. ASSUME at' = "polling" PROVE Watched'
      <4> SUFFICES ASSUME NEW k \in DOMAIN line, line[k].op = "ENC", CloseTo(line[k].val)
                   PROVE  CloseTo(enc)'
          BY <2>2, <3>1 DEF Watched, CloseTo
      <4>1. CloseTo(enc)
            BY <2>2, <2>4, <3>2 DEF ArrivalInv, Watched
      <4>2. Driven
        <5>1. Has("ENC")
              BY DEF Has
        <5> QED BY <2>2, <2>4, <3>2, <5>1, PolledIsDriven
      <4> QED BY <2>2, <3>1, <4>1, <4>2, StaysClose
    <3>3. ASSUME at' = "idle", Waited' PROVE Reached'
      <4>1. Reached
            BY <2>2, <2>4, <2>5, <3>3 DEF ArrivalInv
      <4>2. inbox' = <<>> /\ Driven'
            BY <2>2, <3>1, <4>1 DEF Reached, Driven
      <4>3. ASSUME Aligned', InReach' PROVE CloseTo(enc)'
        <5>1. CloseTo(enc) /\ Driven
              BY <2>2, <3>1, <4>1, <4>3 DEF Reached, Aligned, InReach
        <5> QED BY <2>2, <3>1, <5>1, StaysClose
      <4> QED BY <4>2, <4>3 DEF Reached
    <3> QED BY <3>2, <3>3
  <2>8. ASSUME UNCHANGED <<enc, zero>>, at = "polling",
               \/ line' = line
               \/ \E f \in Frame : line' = Append(line, f) /\ (f.op = "ENC" => f.val = enc)
        PROVE  Watched'
    <3>1. CASE line' = line
          BY <2>2, <2>4, <2>8, <3>1 DEF ArrivalInv, Watched, CloseTo
    <3>2. ASSUME NEW f \in Frame, line' = Append(line, f), f.op = "ENC" => f.val = enc PROVE Watched'
      <4>1. \A k \in DOMAIN line' : (k \in DOMAIN line /\ line'[k] = line[k]) \/ line'[k] = f
            BY <3>2, Appended, TypeParts DEF LineType
      <4> QED BY <2>2, <2>4, <2>8, <3>2, <4>1 DEF ArrivalInv, Watched, CloseTo
    <3> QED BY <2>8, <3>1, <3>2
  <2>9. CASE Stops
    <3>1. ~moving' /\ UNCHANGED <<inbox, enc, zero, goal>>
          BY <2>9 DEF Stops
    <3>2. at = "polling" => Watched'
      <4>1. [op |-> "MOVE", val |-> 2] \in Frame
            BY DEF Frame, Ops
      <4> QED BY <2>8, <2>9, <3>1, <4>1 DEF Stops
    <3>3. at = "idle" /\ Waited => Reached'
          BY <2>2, <2>4, <3>1 DEF ArrivalInv, Reached, Driven, Aligned, InReach, CloseTo
    <3> QED BY <2>2, <2>5, <3>2, <3>3
  <2>10. CASE Takes
    <3>1. inbox # <<>> /\ inbox' = Tail(inbox)
          BY <2>10 DEF Takes
    <3>2. ~(at = "idle" /\ Waited)
          BY <2>4, <3>1 DEF ArrivalInv, Reached
    <3>3. ASSUME at = "polling" PROVE Watched'
      <4> DEFINE r == Head(inbox)
      <4>1. r \in Request /\ r.op \in {"MOVE", "ENC"}
            BY <2>2, <3>1, <3>3, HeadKinds DEF Awaited, IsMove
      <4>2. \A val : Effect(r, val) => enc' = enc /\ zero' = zero /\ (r.op = "ENC" => val = enc)
            BY <4>1 DEF Effect, firmware
      <4> HIDE DEF r
      <4>3. UNCHANGED <<enc, zero>>
        <5>1. UNCHANGED firmware \/ \E val : Effect(r, val)
              BY <2>10, Zenon DEF Takes, r
        <5> QED BY <4>2, <5>1 DEF firmware
      <4>4. \/ line' = line
            \/ \E f \in Frame : line' = Append(line, f) /\ (f.op = "ENC" => f.val = enc)
        <5>1. CASE line' # line
          <6>1. PICK val \in Values :
                   /\ Effect(r, val) \/ r.op = "ZERO"
                   /\ line' = Append(line, [op |-> r.op, val |-> val])
                BY <2>10, <5>1, Zenon DEF Takes, r
          <6>2. [op |-> r.op, val |-> val] \in Frame
                BY <4>1, TypeParts DEF Frame, Ops, Values, FirmwareType
          <6>3. r.op = "ENC" => val = enc
                BY <4>1, <4>2, <6>1
          <6> QED BY <6>1, <6>2, <6>3
        <5> QED BY <5>1
      <4> QED BY <2>8, <3>3, <4>3, <4>4
    <3> QED BY <2>2, <2>5, <3>2, <3>3
  <2> QED BY <2>1, <2>6, <2>7, <2>9, <2>10
<1> QED BY <1>1, <1>2 DEF Next

LEMMA InitArrival == Init => LatchInv /\ ExecutedInv /\ ClaimedInv /\ ArrivalInv
PROOF
<1> SUFFICES ASSUME Init PROVE LatchInv /\ ExecutedInv /\ ClaimedInv /\ ArrivalInv
    OBVIOUS
<1>1. inbox = <<>> /\ at = "idle" /\ call = "none" /\ ~moving
      BY DEF Init
<1>2. NoMoves
      BY <1>1, NoneNoMoves
<1> QED BY <1>1, <1>2 DEF LatchInv, ExecutedInv, ClaimedInv, Claims, ArrivalInv, Waited

\* A blocking write() or move_relative() that succeeds has brought the motor within
\* the tolerance of the angle asked for, counted from the zero of the firmware's
\* axis, whatever else was refused, lost or answered late, under the premises that
\* OkMeansArrived states.
THEOREM OkIsArrived == Spec => []OkMeansArrived
PROOF
<1> DEFINE Inv ==
      /\ TypeOK /\ PollInv /\ FreshInv /\ QueueInv /\ LatchInv
      /\ ExecutedInv /\ ClaimedInv /\ ArrivalInv
<1>1. Init => Inv
      BY InitTypes, InitFresh, InitQueue, InitArrival
<1>2. Inv /\ [Next]_vars => Inv'
      BY TypeStep, FreshStep, QueueStep, LatchStep, ExecutedStep, ClaimedStep, ArrivalStep
<1>3. Inv => OkMeansArrived
      BY DEF ArrivalInv, Sound, Waited, Reached, CloseTo, OkMeansArrived, Returned
<1> QED BY <1>1, <1>2, <1>3, PTL DEF Spec
=============================================================================
