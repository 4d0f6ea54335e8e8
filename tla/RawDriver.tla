------------------------------ MODULE RawDriver ------------------------------
(***************************************************************************)
(* RawDriver (src/include/mks_servo/raw_driver.hpp): one method per command *)
(* of the firmware, as the data bytes it sends for its argument, and the    *)
(* decoding of what comes back.  The exchange itself is module Transact.    *)
(*                                                                         *)
(* A byte has Byte values, 256 in the code and fewer in a run.  Speeds and  *)
(* currents are in hundreds.  The firmware (external) is the record of its  *)
(* registers, and Execute is what a command does to them.                   *)
(***************************************************************************)
EXTENDS Integers, Sequences

CONSTANTS
    Byte,   \* values of a byte: 256
    Nibble  \* values of the high part of a speed: 16

ASSUME DriverAssumption ==
    /\ Byte \in Nat /\ Nibble \in Nat \ {0} /\ 2 * Nibble <= Byte /\ Byte % 2 = 0

----------------------------------------------------------------------------
(* Integers in bytes, most significant first.                               *)

\* Byte to the power k, 1 << (8 * k) in the code.
Power[k \in Nat] == IF k = 0 THEN 1 ELSE Byte * Power[k - 1]

\* The conversion to uint32_t and the shifts of encode_move_axis().
Bytes(n, width) == [i \in 1..width |-> (n \div Power[width - i]) % Byte]

\* decode_int_be(): byte after byte, and then the sign.
DecodeIntBE(bytes, signed) ==
    LET u[i \in 0..Len(bytes)] == IF i = 0 THEN 0 ELSE u[i - 1] * Byte + bytes[i]
        value == u[Len(bytes)]
        top == Power[Len(bytes)]
    IN IF signed /\ value >= top \div 2 THEN value - top ELSE value

EncodeMoveAxis(counts, rpm, acc) == Bytes(rpm, 2) \o <<acc>> \o Bytes(counts, 4)

\* move_speed(): a speed is negative for Direction::CCW.
\* Mutant: the part of the speed beyond a byte is dropped.
EncodeSpeed_low(rpm, acc) ==
    LET n == IF rpm < 0 THEN -rpm ELSE rpm IN
    <<IF rpm < 0 THEN Byte \div 2 ELSE 0, n % Byte, acc>>

EncodeSpeed(rpm, acc) ==
    LET n == IF rpm < 0 THEN -rpm ELSE rpm
        dir == IF rpm < 0 THEN Byte \div 2 ELSE 0
    IN <<dir + ((n \div Byte) % Nibble), n % Byte, acc>>

\* set_subdivision(): the most microsteps do not fit, and are sent as 0.
EncodeSubdivision(microsteps) == IF microsteps = Byte THEN <<0>> ELSE <<microsteps % Byte>>

Rpm == 6    \* of a move, which no property depends on
Acc == 1

\* The data bytes of each command.
Payload(op, arg) ==
    CASE op = "enable"  -> <<IF arg THEN 1 ELSE 0>>
      [] op = "speed"   -> EncodeSpeed(arg, Acc)
      [] op = "move"    -> EncodeMoveAxis(arg, Rpm, Acc)
      [] op = "current" -> Bytes(arg, 2)
      [] op = "micro"   -> EncodeSubdivision(arg)
      [] op = "mode"    -> <<arg>>
      [] OTHER          -> <<>>

\* ack_to_bool(): true for a status byte 1; a call without an answer is not ok().
AckToBool(answer) == IF answer = <<>> THEN "silent" ELSE IF answer[1] = 1 THEN "done" ELSE "refused"

----------------------------------------------------------------------------
(* The firmware.                                                            *)

Factory == [on |-> FALSE, rpm |-> 0, goal |-> 0, latched |-> FALSE,
            mode |-> 0, micro |-> 1, current |-> 16]

SpeedIn(data) ==
    LET ccw == data[1] >= Byte \div 2
        n == (IF ccw THEN data[1] - Byte \div 2 ELSE data[1]) * Byte + data[2]
    IN IF ccw THEN -n ELSE n

\* A motor moves when it is enabled and no stall is latched.
Able(f) == f.on /\ ~f.latched

\* The registers after a command, and the status byte of its answer: 0 refuses.
Execute(f, op, data) ==
    LET Done(g) == [regs |-> g, answer |-> <<1>>]
        Refused == [regs |-> f, answer |-> <<0>>]
    IN CASE op = "enable"  -> Done([f EXCEPT !.on = (data[1] = 1),
                                             !.rpm = IF data[1] = 1 THEN @ ELSE 0])
         [] op = "speed"   -> IF Able(f) THEN Done([f EXCEPT !.rpm = SpeedIn(data)]) ELSE Refused
         [] op = "move"    -> IF Able(f) THEN Done([f EXCEPT !.goal = DecodeIntBE(SubSeq(data, 4, 7), TRUE)])
                              ELSE Refused
         [] op = "turn"    -> IF Able(f) THEN Done(f) ELSE Refused
         [] op = "stop"    -> Done([f EXCEPT !.rpm = 0])
         [] op = "release" -> Done([f EXCEPT !.latched = FALSE])
         [] op = "protect" -> IF f.latched THEN Done(f) ELSE Refused
         [] op = "current" -> Done([f EXCEPT !.current = DecodeIntBE(data, FALSE)])
         [] op = "micro"   -> Done([f EXCEPT !.micro = IF data[1] = 0 THEN Byte ELSE data[1]])
         [] op = "mode"    -> Done([f EXCEPT !.mode = data[1]])
         [] op = "restart" -> Done([f EXCEPT !.on = FALSE, !.rpm = 0, !.latched = FALSE])
         [] op = "defaults" -> Done([f EXCEPT !.mode = Factory.mode, !.micro = Factory.micro,
                                              !.current = Factory.current])
         [] op = "zero" \/ op = "read" -> Done(f)

\* The register that a command sets.
Register(f, op) ==
    CASE op = "enable"  -> f.on
      [] op = "speed"   -> f.rpm
      [] op = "move"    -> f.goal
      [] op = "current" -> f.current
      [] op = "micro"   -> f.micro
      [] op = "mode"    -> f.mode

Setters == {"enable", "speed", "move", "current", "micro", "mode"}
=============================================================================
