------------------------------- MODULE Motor -------------------------------
(***************************************************************************)
(* Motor (src/include/mks_servo/motor.hpp) on RawDriver (raw_driver.hpp),   *)
(* with the firmware at the other end of the line.                          *)
(*                                                                         *)
(* A transaction drains the line, sends one request and takes the first     *)
(* frame with its opcode (Transact shows that of transact()).  The firmware *)
(* is external: it executes requests in order, answers a MOVE twice, and    *)
(* neither knows nor cares whether anyone still waits for an answer.        *)
(*                                                                         *)
(* Angles are measured in encoder counts of the motor, so that what is left *)
(* of a conversion is its change of frame; rpm is "within the limit or not".*)
(***************************************************************************)
EXTENDS Integers, Sequences

CONSTANTS
    Angles, Deltas,   \* what the client asks for
    Lo, Hi,           \* the limits of position
    PositionPolicies, \* position policies of the clients, "None" for no limit
    SpeedPolicies,    \* speed policies of the clients
    AutoClear,        \* settings of auto_clear_protection
    Tolerance,        \* tolerance_counts
    Window,           \* consecutive_in_window
    MaxConsecErrors,  \* MAX_CONSEC_ERRORS
    Half,             \* 2^31
    StartCounts,      \* encoder counts, of the motor and of its zero, at the start
    MaxCalls,         \* bound: calls of the client
    MaxFaults         \* bound: requests or answers that are lost, transactions
                      \* that give up before their answer, and stalls

Policies == {"None", "Reject", "Clamp", "Warn"}

ASSUME LimitsAssumption ==
    /\ Angles \subseteq Int /\ Deltas \subseteq Int /\ StartCounts \subseteq Int
    /\ Lo \in Int /\ Hi \in Int /\ Lo <= Hi
    /\ PositionPolicies \subseteq Policies /\ SpeedPolicies \subseteq Policies
    /\ AutoClear \subseteq BOOLEAN
ASSUME CountsAssumption ==
    /\ Tolerance \in Nat /\ Window \in Nat \ {0} /\ MaxConsecErrors \in Nat
    /\ Half \in Nat \ {0}
ASSUME BoundsAssumption ==
    MaxCalls \in Nat /\ MaxFaults \in Nat

VARIABLES
    \* configuration of the Motor
    policy, speedPolicy, auto,
    \* the Motor, and its call under way
    offset,     \* mech_.origin_offset_counts
    at,         \* what the call waits for
    call,       \* the call under way, or the last one
    target,     \* firmware_target
    delta,      \* delta_deg of move_relative()
    blocking,   \* its parameter
    warned,     \* a policy answered LimitWarned
    inWindow, errors, expired,    \* wait_for_position()
    result,     \* status of the last call
    \* the line
    inbox,      \* requests on their way to the firmware
    line,       \* frames that have arrived
    \* the firmware
    enc,        \* encoder counts, never reset
    zero,       \* encoder counts at the zero of its axis
    goal, moving, latched,
    \* history, of the call
    still,      \* the motor has not turned
    refused,    \* the firmware refused a MOVE
    unread,     \* set_origin() could not read the encoder
    unclaimed,  \* a MOVE was sent whose first answer no call has read
    \* bounds
    calls, lost, late, stalls

config == <<policy, speedPolicy, auto>>
callVars == <<call, target, delta, blocking, warned, result, calls>>
pollVars == <<inWindow, errors, expired>>
firmware == <<enc, zero, goal, moving, latched>>
history == <<still, refused, unread, unclaimed>>
faults == <<lost, late, stalls>>
vars == <<config, offset, at, callVars, pollVars, inbox, line, firmware, history, faults>>

Init ==
    /\ policy \in PositionPolicies /\ speedPolicy \in SpeedPolicies /\ auto \in AutoClear
    /\ offset = 0 /\ at = "idle" /\ call = "none" /\ target = 0 /\ delta = 0
    /\ blocking = FALSE /\ warned = FALSE
    /\ inWindow = 0 /\ errors = 0 /\ expired = FALSE /\ result = "OK"
    /\ inbox = <<>> /\ line = <<>>
    /\ enc \in StartCounts /\ zero \in StartCounts /\ goal = enc /\ moving = FALSE /\ latched = FALSE
    /\ still = TRUE /\ refused = FALSE /\ unread = FALSE /\ unclaimed = FALSE
    /\ calls = 0 /\ lost = 0 /\ late = 0 /\ stalls = 0

----------------------------------------------------------------------------
(* Frames of reference.                                                     *)

\* static_cast<std::int32_t>
Int32(n) == ((n + Half) % (2 * Half)) - Half

\* Mutant: the two frames are mixed up.
EncoderTarget_firmware(t) == Int32(t)
\* encoder_target_for(): what the encoder reads at a target of the firmware.
EncoderTarget(t) == Int32(t + offset)

\* Mutant: the origin is forgotten.
CountsToAngle_raw(c) == c
\* counts_to_angle()
CountsToAngle(c) == c - offset

----------------------------------------------------------------------------
(* Transactions.                                                            *)

\* The frame a transaction takes, if there is one.
Has(op) == \E k \in DOMAIN line : line[k].op = op
First(op) == CHOOSE k \in DOMAIN line :
                 line[k].op = op /\ \A j \in 1..(k - 1) : line[j].op # op
Answer(op) == line[First(op)].val
Rest(op) == SubSeq(line, First(op) + 1, Len(line))

\* drain_input() and the write of the next request of the call.
Transact(stage, op, arg) ==
    /\ at' = stage
    /\ line' = <<>>
    /\ inbox' = Append(inbox, [op |-> op, arg |-> arg, call |-> call'])

Faulty == lost + late + stalls < MaxFaults

\* The transaction fails: nothing was read in time, and unless everything sent
\* was executed, or lost, the answer may yet come.
Fails(op) ==
    /\ ~Has(op)
    /\ IF inbox = <<>> THEN UNCHANGED late ELSE Faulty /\ late' = late + 1
    /\ UNCHANGED <<lost, stalls>>

\* The call returns.
Return(status) == at' = "idle" /\ result' = status

----------------------------------------------------------------------------
(* Calls of the client.                                                     *)

Call(name) ==
    /\ at = "idle" /\ calls < MaxCalls
    /\ call' = name /\ calls' = calls + 1
    /\ still' = TRUE /\ refused' = FALSE /\ unread' = FALSE
    /\ unclaimed' = (unclaimed \/ name = "dispatch_write")

Within(a) == policy = "None" \/ a \in Lo..Hi
Clamp(a) == IF a < Lo THEN Lo ELSE IF a > Hi THEN Hi ELSE a

\* Mutant: Clamp is not told from Warn.
ApplyPosition_warn(a) == a
\* apply_position_policy() on an angle that is not rejected.
ApplyPosition(a) == IF ~Within(a) /\ policy = "Clamp" THEN Clamp(a) ELSE a

Warned(a, fast) ==
    \/ ~Within(a) /\ policy = "Warn"
    \/ fast /\ speedPolicy = "Warn"

\* write() up to its MOVE: the limits, then the first transaction.
StartWrite(a, fast) ==
    IF \/ ~Within(a) /\ policy = "Reject"
       \/ fast /\ speedPolicy = "Reject"
    THEN /\ Return("LimitExceeded")
         /\ UNCHANGED <<target, warned, line, inbox>>
    ELSE /\ target' = ApplyPosition(a)
         /\ warned' = Warned(a, fast)
         /\ Transact("move", "MOVE", target')
         /\ UNCHANGED result

Write(a, fast, block) ==
    /\ Call("write")
    /\ blocking' = block
    /\ StartWrite(a, fast)
    /\ UNCHANGED <<config, offset, delta, pollVars, firmware, faults>>

\* dispatch_write(): no policy but Clamp, no drain, no answer awaited.
DispatchWrite(a) ==
    /\ Call("dispatch_write")
    /\ target' = ApplyPosition(a)
    /\ inbox' = Append(inbox, [op |-> "MOVE", arg |-> target', call |-> call'])
    /\ Return("OK")
    /\ UNCHANGED <<config, offset, delta, blocking, warned, pollVars, line, firmware, faults>>

\* read(), set_origin_soft(): one reading of the encoder.
Read(name) ==
    /\ Call(name)
    /\ Transact("reading", "ENC", 0)
    /\ UNCHANGED <<config, offset, target, delta, blocking, warned, result, pollVars,
                   firmware, faults>>

MoveRelative(d, block) ==
    /\ Call("move_relative")
    /\ delta' = d /\ blocking' = block
    /\ Transact("current", "ENC", 0)
    /\ UNCHANGED <<config, offset, target, warned, result, pollVars, firmware, faults>>

SetOrigin ==
    /\ Call("set_origin")
    /\ Transact("zeroing", "ZERO", 0)
    /\ UNCHANGED <<config, offset, target, delta, blocking, warned, result, pollVars,
                   firmware, faults>>

----------------------------------------------------------------------------
(* What the calls do with answers.                                          *)

\* The MOVE is answered: by 0x01 if it was accepted.
MoveAnswered ==
    /\ at \in {"move", "retry"} /\ Has("MOVE")
    /\ UNCHANGED call
    /\ unclaimed' = (unclaimed \/ (Answer("MOVE") # 1 /\ ~refused))
    /\ \/ /\ Answer("MOVE") = 1 /\ blocking
          /\ Transact("polling", "ENC", 0)
          /\ inWindow' = 0 /\ errors' = 0 /\ expired' = FALSE
          /\ UNCHANGED result
       \/ /\ Answer("MOVE") = 1 /\ ~blocking
          /\ Return(IF warned THEN "LimitWarned" ELSE "OK")
          /\ line' = Rest("MOVE")
          /\ UNCHANGED <<pollVars, inbox>>
       \/ /\ Answer("MOVE") # 1 /\ at = "move" /\ auto
          /\ Transact("release", "RELEASE", 0)
          /\ UNCHANGED <<result, pollVars>>
       \/ /\ Answer("MOVE") # 1 /\ (at = "retry" \/ ~auto)
          /\ Return("NotEnabled")
          /\ line' = Rest("MOVE")
          /\ UNCHANGED <<pollVars, inbox>>
    /\ UNCHANGED <<config, offset, target, delta, blocking, warned, calls, firmware,
                   still, refused, unread, faults>>

MoveFails ==
    /\ at \in {"move", "retry"} /\ Fails("MOVE")
    /\ Return("TransportError")
    /\ UNCHANGED <<config, offset, call, target, delta, blocking, warned, calls, pollVars,
                   inbox, line, firmware, history>>

\* release_protection() ends, however: the MOVE is sent again.
ReleaseEnds ==
    /\ at = "release"
    /\ \/ Has("RELEASE") /\ UNCHANGED faults
       \/ Fails("RELEASE")
    /\ UNCHANGED call
    /\ Transact("retry", "MOVE", target)
    /\ UNCHANGED <<config, offset, target, delta, blocking, warned, result, calls, pollVars,
                   firmware, history>>

\* The deadline of wait_for_position() passes.
Expire ==
    /\ at = "polling" /\ ~expired
    /\ expired' = TRUE
    /\ UNCHANGED <<config, offset, at, callVars, inWindow, errors, inbox, line, firmware,
                   history, faults>>

Near(c) == LET diff == c - EncoderTarget(target) IN diff \in -Tolerance..Tolerance

\* The target is reached: the late "complete" is drained, if it is there.
Arrived ==
    /\ at = "polling" /\ Has("ENC")
    /\ Near(Answer("ENC")) /\ inWindow + 1 >= Window
    /\ inWindow' = inWindow + 1 /\ errors' = 0
    /\ Return(IF warned THEN "LimitWarned" ELSE "OK")
    /\ line' = <<>>
    /\ UNCHANGED <<config, offset, call, target, delta, blocking, warned, calls, expired,
                   inbox, firmware, history, faults>>

\* Mutant: without a deadline.
PollAgain_patient == Transact("polling", "ENC", 0) /\ UNCHANGED result
\* The deadline is looked at after every reading that does not end the wait.
PollAgain ==
    IF expired
    THEN Return("Timeout") /\ UNCHANGED <<line, inbox>>
    ELSE Transact("polling", "ENC", 0) /\ UNCHANGED result

NotArrived ==
    /\ at = "polling" /\ Has("ENC")
    /\ \/ Near(Answer("ENC")) /\ inWindow + 1 < Window /\ inWindow' = inWindow + 1
       \/ ~Near(Answer("ENC")) /\ inWindow' = 0
    /\ errors' = 0
    /\ UNCHANGED call
    /\ PollAgain
    /\ UNCHANGED <<config, offset, target, delta, blocking, warned, calls, expired, firmware,
                   history, faults>>

PollFails ==
    /\ at = "polling" /\ Fails("ENC")
    /\ errors' = errors + 1
    /\ UNCHANGED call
    /\ IF errors' > MaxConsecErrors
       THEN Return("TransportError") /\ UNCHANGED <<line, inbox>>
       ELSE PollAgain
    /\ UNCHANGED <<config, offset, target, delta, blocking, warned, calls, inWindow, expired,
                   firmware, history>>

\* read() and set_origin_soft() return.
ReadAnswered ==
    /\ at = "reading" /\ Has("ENC")
    /\ offset' = IF call = "set_origin_soft" THEN Int32(Answer("ENC")) ELSE offset
    /\ Return("OK")
    /\ line' = Rest("ENC")
    /\ UNCHANGED <<config, call, target, delta, blocking, warned, calls, pollVars, inbox,
                   firmware, history, faults>>

\* move_relative() goes on as write() ...
CurrentAnswered ==
    /\ at = "current" /\ Has("ENC")
    /\ UNCHANGED call
    /\ \E fast \in BOOLEAN : StartWrite(CountsToAngle(Answer("ENC")) + delta, fast)
    /\ UNCHANGED <<config, offset, delta, blocking, calls, pollVars, firmware, history, faults>>

\* ... and all three give up when the encoder cannot be read.
ReadFails ==
    /\ at \in {"reading", "current"} /\ Fails("ENC")
    /\ Return("TransportError")
    /\ UNCHANGED <<config, offset, call, target, delta, blocking, warned, calls, pollVars,
                   inbox, line, firmware, history>>

ZeroAnswered ==
    /\ at \in {"zeroing", "zeroing again"} /\ Has("ZERO")
    /\ UNCHANGED call
    /\ IF Answer("ZERO") = 1
       THEN Transact("origin", "ENC", 0) /\ UNCHANGED result
       ELSE Return("NotEnabled") /\ line' = Rest("ZERO") /\ UNCHANGED inbox
    /\ UNCHANGED <<config, offset, target, delta, blocking, warned, calls, pollVars, firmware,
                   history, faults>>

\* One time-out is tried again; any other failure, or a second one, is not.
ZeroFails ==
    /\ Fails("ZERO")
    /\ \/ /\ at = "zeroing"
          /\ UNCHANGED call
          /\ Transact("zeroing again", "ZERO", 0)
          /\ UNCHANGED result
       \/ /\ at \in {"zeroing", "zeroing again"}
          /\ Return("TransportError")
          /\ UNCHANGED <<call, line, inbox>>
    /\ UNCHANGED <<config, offset, target, delta, blocking, warned, calls, pollVars, firmware,
                   history>>

\* Mutant: the offset of the time before encoder and axis were told apart.
OriginAnswered_zero ==
    /\ at = "origin" /\ Has("ENC")
    /\ offset' = 0
    /\ Return("OK")
    /\ line' = Rest("ENC")
    /\ UNCHANGED <<config, call, target, delta, blocking, warned, calls, pollVars, inbox,
                   firmware, history, faults>>

\* Mutant: the count is not cut to the width of the offset.
OriginAnswered_wide ==
    /\ at = "origin" /\ Has("ENC")
    /\ offset' = Answer("ENC")
    /\ Return("OK")
    /\ line' = Rest("ENC")
    /\ UNCHANGED <<config, call, target, delta, blocking, warned, calls, pollVars, inbox,
                   firmware, history, faults>>

\* set_origin() returns with the encoder's count as its origin ...
OriginAnswered ==
    /\ at = "origin" /\ Has("ENC")
    /\ offset' = Int32(Answer("ENC"))
    /\ Return("OK")
    /\ line' = Rest("ENC")
    /\ UNCHANGED <<config, call, target, delta, blocking, warned, calls, pollVars, inbox,
                   firmware, history, faults>>

\* ... or, when it cannot be read, with 0, and with OK as well.
OriginFails ==
    /\ at = "origin" /\ Fails("ENC")
    /\ offset' = 0 /\ unread' = TRUE
    /\ Return("OK")
    /\ UNCHANGED <<config, call, target, delta, blocking, warned, calls, pollVars, inbox, line,
                   firmware, still, refused, unclaimed>>

----------------------------------------------------------------------------
(* The firmware.                                                            *)

Reply(op, val) == line' = Append(line, [op |-> op, val |-> val])

\* The effect of a request, and the value of its answer.
Effect(r, val) ==
    \/ /\ r.op = "MOVE" /\ ~latched /\ val = 1
       /\ goal' = zero + r.arg /\ moving' = TRUE
       /\ UNCHANGED <<enc, zero, latched, refused>>
    \/ /\ r.op = "MOVE" /\ latched /\ val = 0
       /\ refused' = (refused \/ r.call = call)
       /\ UNCHANGED firmware
    \/ /\ r.op = "ENC" /\ val = enc
       /\ UNCHANGED <<firmware, refused>>
    \/ /\ r.op = "ZERO" /\ val = 1
       /\ zero' = enc
       /\ UNCHANGED <<enc, goal, moving, latched, refused>>
    \/ /\ r.op = "RELEASE" /\ val = 1
       /\ latched' = FALSE
       /\ UNCHANGED <<enc, zero, goal, moving, refused>>

Values == {0, 1, enc}

Execute ==
    /\ inbox # <<>>
    /\ \E val \in Values : Effect(Head(inbox), val) /\ Reply(Head(inbox).op, val)
    /\ inbox' = Tail(inbox)
    /\ UNCHANGED <<config, offset, at, callVars, pollVars, still, unread, unclaimed, faults>>

\* The flash write of SET_ZERO_POINT does not succeed.
RefuseZero ==
    /\ inbox # <<>> /\ Head(inbox).op = "ZERO"
    /\ Reply("ZERO", 0)
    /\ inbox' = Tail(inbox)
    /\ UNCHANGED <<config, offset, at, callVars, pollVars, firmware, history, faults>>

\* A request is not understood, or its answer is not.
Lose ==
    /\ inbox # <<>> /\ Faulty
    /\ \/ UNCHANGED <<firmware, refused>>
       \/ \E val \in Values : Effect(Head(inbox), val)
    /\ inbox' = Tail(inbox)
    /\ lost' = lost + 1
    /\ UNCHANGED <<config, offset, at, callVars, pollVars, line, still, unread, unclaimed, late,
                   stalls>>

\* The motor turns towards its goal, and settles within the tolerance.
Turn ==
    /\ moving
    /\ enc' \in {enc - 1, enc + 1}
    /\ \/ enc < goal /\ enc' > enc
       \/ enc > goal /\ enc' < enc
       \/ (enc' - goal) \in -Tolerance..Tolerance
    /\ still' = FALSE
    /\ UNCHANGED <<config, offset, at, callVars, pollVars, inbox, line, zero, goal, moving,
                   latched, refused, unread, unclaimed, faults>>

\* The second answer of a MOVE.
Complete ==
    /\ moving /\ enc = goal
    /\ moving' = FALSE
    /\ Reply("MOVE", 2)
    /\ UNCHANGED <<config, offset, at, callVars, pollVars, inbox, enc, zero, goal, latched,
                   history, faults>>

Stall ==
    /\ moving /\ Faulty
    /\ moving' = FALSE /\ latched' = TRUE
    /\ stalls' = stalls + 1
    /\ UNCHANGED <<config, offset, at, callVars, pollVars, inbox, line, enc, zero, goal,
                   history, lost, late>>

----------------------------------------------------------------------------
Calls ==
    \/ \E a \in Angles, fast, block \in BOOLEAN : Write(a, fast, block)
    \/ \E a \in Angles : DispatchWrite(a)
    \/ \E name \in {"read", "set_origin_soft"} : Read(name)
    \/ \E d \in Deltas, block \in BOOLEAN : MoveRelative(d, block)
    \/ SetOrigin

Motor ==
    \/ MoveAnswered \/ MoveFails \/ ReleaseEnds
    \/ Arrived \/ NotArrived \/ PollFails
    \/ ReadAnswered \/ CurrentAnswered \/ ReadFails
    \/ ZeroAnswered \/ ZeroFails \/ OriginAnswered \/ OriginFails

Firmware == Execute \/ RefuseZero \/ Lose \/ Turn \/ Complete \/ Stall

Next == Calls \/ Motor \/ Expire \/ Firmware

Spec == Init /\ [][Next]_vars

\* The thread of the caller runs, requests are executed or lost, time passes.
FairSpec ==
    Spec /\ WF_vars(Motor) /\ WF_vars(Expire) /\ WF_vars(Execute \/ RefuseZero \/ Lose)

----------------------------------------------------------------------------
(* Properties.                                                              *)

Statuses == {"OK", "LimitWarned", "LimitExceeded", "NotEnabled", "Timeout", "TransportError"}
CallNames == {"none", "write", "dispatch_write", "read", "set_origin_soft", "move_relative",
              "set_origin"}
Ops == {"MOVE", "ENC", "ZERO", "RELEASE"}
Request == [op : Ops, arg : Int, call : CallNames]
Frame == [op : Ops, val : Int]

\* Every variable has its type: the type invariant.
TypeOK ==
    /\ policy \in Policies /\ speedPolicy \in Policies /\ auto \in BOOLEAN
    /\ offset \in -Half..(Half - 1)
    /\ at \in {"idle", "move", "retry", "release", "polling", "reading", "current",
               "zeroing", "zeroing again", "origin"}
    /\ call \in CallNames
    /\ target \in Int /\ delta \in Int
    /\ blocking \in BOOLEAN /\ warned \in BOOLEAN /\ expired \in BOOLEAN
    /\ inWindow \in 0..Window /\ errors \in 0..(MaxConsecErrors + 1)
    /\ result \in Statuses
    /\ inbox \in Seq(Request) /\ line \in Seq(Frame)
    /\ enc \in Int /\ zero \in Int /\ goal \in Int
    /\ moving \in BOOLEAN /\ latched \in BOOLEAN
    /\ still \in BOOLEAN /\ refused \in BOOLEAN /\ unread \in BOOLEAN
    /\ unclaimed \in BOOLEAN
    /\ calls \in 0..MaxCalls
    /\ lost \in 0..MaxFaults /\ late \in 0..MaxFaults /\ stalls \in 0..MaxFaults

\* The two frames of reference agree; and the target is within 32 bits of both.
Aligned == offset = zero
InReach == zero + target \in -Half..(Half - 1)

Returned(name) == at = "idle" /\ call = name

\* A blocking write() or move_relative() that succeeds has brought the motor to
\* the angle asked for, counted from the zero of the firmware's axis: neither
\* the second answer of an earlier MOVE, nor a MOVE that was refused, lost or
\* sent twice, makes it believe so.  (Only the first answer of a MOVE that its
\* own call has not read may stand for that of a MOVE that was lost.)
OkMeansArrived ==
    /\ Returned("write") \/ Returned("move_relative")
    /\ blocking /\ result \in {"OK", "LimitWarned"}
    /\ Aligned /\ InReach /\ late = 0 /\ (lost = 0 \/ ~unclaimed)
    => (enc - (zero + target)) \in -Tolerance..Tolerance

\* Under Reject and Clamp no MOVE leaves with a target beyond the limits,
\* whatever the encoder said; dispatch_write() applies Clamp only.
LimitsKept ==
    \A k \in DOMAIN inbox :
        inbox[k].op = "MOVE" =>
            \/ inbox[k].arg \in Lo..Hi
            \/ policy \in {"None", "Warn"}
            \/ policy = "Reject" /\ inbox[k].call = "dispatch_write"

\* set_origin() on a motor at rest makes the frames agree (within 32 bits),
\* also when SET_ZERO_POINT had to be sent twice, and whatever is executed late,
\* if the encoder can be read.
OriginAligns ==
    Returned("set_origin") /\ result = "OK" /\ still /\ ~unread => offset = Int32(zero)

\* move_relative() of a motor at rest sends the target that is delta away: it
\* takes no answer for a reading that is older than the call.
RelativeFromHere ==
    [][at = "current" /\ at' = "move" /\ still /\ Aligned /\ policy \in {"None", "Warn"}
           => zero + target' = enc + delta]_vars

\* Every call returns.
CallReturns == at # "idle" ~> at = "idle"

----------------------------------------------------------------------------
(* What the repository says of Motor, and the code does not do.             *)

\* motor.hpp:243-245: what the second answer of a MOVE leaves in the line is
\* discarded by the next transaction, so that "NotEnabled" is a refusal.
RefusalIsReal ==
    (Returned("write") \/ Returned("move_relative")) /\ result = "NotEnabled" => refused
=============================================================================
