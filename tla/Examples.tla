------------------------------ MODULE Examples ------------------------------
(***************************************************************************)
(* The programs of src/examples, and the functions of profile.hpp and       *)
(* characterize.hpp that drive a motor, as sequences of rows: what each     *)
(* says to the motor, in order, and where it goes when a step fails.        *)
(* Module Programs executes them.  What a program measures, computes and    *)
(* prints between two exchanges is left out.                                *)
(*                                                                         *)
(* A row that fails goes to "next", the next row; "skip", the one after it; *)
(* "again" or "out", the end of the loop (continue) or past it (break);     *)
(* "exit", the end of main(); "off", the last row, which disables the motor *)
(* and returns.                                                             *)
(***************************************************************************)
EXTENDS Integers, Sequences, SequencesExt

CONSTANT Lines  \* serial lines of the programs that have several: 2 or 3

ASSUME LinesAssumption == Lines \in Nat /\ Lines >= 2

Low == 38400
High == 256000
NoBaud == 0

Row(kind, line, op, args, bad, fail) ==
    [kind |-> kind, line |-> line, op |-> op, args |-> args, bad |-> bad, fail |-> fail]

\* Calls of the driver: the result is ignored, must be ok(), must be ok() and true.
Try(b, op, args) == Row("call", b, op, args, {}, "next")
Call(b, op, args, fail) == Row("call", b, op, args, {"silent"}, fail)
Ack(b, op, args, fail) == Row("call", b, op, args, {"silent", "refused"}, fail)

\* The driver's dispatch_*(): a request that no answer is read to.
Send(b, op, args, fail) == Row("send", b, op, args, {"silent"}, fail)

\* The arguments of commands without one, and of moves.
Plain == {0}

Open(b, rate, fail) == Row("open", b, "open", {rate}, {"silent"}, fail)
Close(b) == Row("close", b, "close", Plain, {}, "next")

\* send_set_baud(): a transport of its own, slave address 1, no answer read.
TellOr(b, from, to, fail) == Row("tell", b, from, {to}, {"silent"}, fail)
Tell(b, from, to) == TellOr(b, from, to, "next")

\* Reads at a baud rate on a transport of its own: the first that answers is
\* where the motor was found.
Sound(b, rate) == Row("sound", b, "read", {rate}, {}, "next")
Found(b) == Row("found", b, "found", Plain, {"silent"}, "exit")
\* send_set_baud() unless the motor is at 256000 already.
Switch(b, fail) == Row("switch", b, "baud", {High}, {"silent"}, fail)
\* Was the switch heard?  If not the motor is still where it was found.
Verify(b, fail) == Row("verify", b, "read", {High}, {"silent"}, fail)
Recheck(b) == Row("recheck", b, "read", Plain, {"silent"}, "exit")
OpenThere(b) == Row("open", b, "open", {NoBaud}, {"silent"}, "exit")
\* send_set_baud() back if the program did switch.
Back(b) == Row("back", b, "baud", {Low}, {}, "next")

\* The target of a wait is reached, or the wait times out.
Await(b, fail) == Row("await", b, "await", Plain, {"silent"}, fail)

\* Back n rows or on; where the result of the iterations counts, one that succeeds
\* is noted, and needed later.
Loop(n) == Row("loop", 1, "loop", {n}, {}, "next")
Here == Loop(0)
Note == Row("note", 1, "note", Plain, {}, "next")
Needs(fail) == Row("needs", 1, "needs", Plain, {"silent"}, fail)
Return == Row("return", 1, "return", Plain, {}, "exit")

Enable(b) == Try(b, "enable", {TRUE})
Disable(b) == Try(b, "enable", {FALSE})
Stop(b) == Try(b, "speed", {0})
Read(b) == Try(b, "read", Plain)
EndOff == <<Return, Disable(1)>>

\* The same row on every line.
Each(R(_)) == [b \in 1..Lines |-> R(b)]

----------------------------------------------------------------------------
(* Library functions that call several commands in a row.                   *)

\* apply_profile_to_firmware()
WorkMode == 5
WorkCurrent == 15
\* Mutant: a write that fails does not keep the next from being tried.
ApplyProfile_presses_on(microsteps) ==
    <<Try(1, "mode", {WorkMode}), Try(1, "micro", {microsteps}), Try(1, "current", {WorkCurrent})>>

ApplyProfile(microsteps) ==
    <<Ack(1, "mode", {WorkMode}, "exit"),
      Ack(1, "micro", {microsteps}, "exit"),
      Ack(1, "current", {WorkCurrent}, "exit")>>

\* CharacterizationSuite.  Loops within loops are one: each round starts alike.
P1Precision == <<Ack(1, "turn", Plain, "out"), Ack(1, "read", Plain, "out"), Loop(2)>>
P3ErrorVsRpm == <<Ack(1, "turn", Plain, "again"), Ack(1, "read", Plain, "again"), Loop(2)>>
P5FollowError == <<Ack(1, "turn", Plain, "out"), Send(1, "turn", Plain, "out"),
                   Ack(1, "read", Plain, "out"), Loop(1)>>
S2Acceleration(target) ==
    <<Stop(1), Call(1, "speed", {target}, "again"), Read(1), Stop(1), Loop(4)>>

----------------------------------------------------------------------------
(* Programs that switch the line without looking, and switch it back.       *)

Blind(body) ==
    <<Tell(1, Low, High), Open(1, High, "exit"), Enable(1), Ack(1, "zero", Plain, "exit")>>
    \o body \o <<Disable(1), Close(1), Tell(1, High, Low)>>

characterize ==
    Blind(P1Precision \o P3ErrorVsRpm \o P5FollowError \o S2Acceleration(5) \o <<Stop(1)>>)

hil_profile == Blind(<<Try(1, "turn", Plain), Read(1), Try(1, "turn", Plain), Read(1)>>)

\* Without and with auto_clear_protection; three moves each.
hil_auto_clear ==
    LET RunOne(turn) == <<Try(1, "release", Plain), Try(1, "zero", Plain),
                          Try(1, turn, Plain), Try(1, "protect", Plain), Loop(2)>>
    IN Blind(RunOne("turn") \o RunOne("clear_and_turn"))

hil_diagnostics ==
    Blind(<<Call(1, "protect", Plain, "exit"), Read(1), Read(1),
            Try(1, "release", Plain), Try(1, "protect", Plain), Try(1, "turn", Plain),
            Ack(1, "protect", Plain, "out"), Try(1, "release", Plain),
            Try(1, "protect", Plain), Try(1, "turn", Plain), Read(1), Here>>)

hil_drain_timing ==
    Blind(<<Ack(1, "turn", Plain, "again"), Read(1), Await(1, "again"), Note, Loop(4), Needs("exit")>>)

hil_soak ==
    Blind(<<Ack(1, "read", Plain, "out"), Ack(1, "turn", Plain, "out"), Await(1, "out"), Loop(3)>>)

hil_shortest ==
    Blind(<<Ack(1, "read", Plain, "again"), Ack(1, "turn", Plain, "again"),
            Ack(1, "read", Plain, "again"), Loop(3)>>)

\* A scenario, the same retargeted under way, and main().
run_scenario(chained) ==
    <<Ack(1, "zero", Plain, "out"), Send(1, "turn", Plain, "out")>>
    \o (IF chained THEN <<Send(1, "turn", Plain, "out")>> ELSE <<>>) \o <<Await(1, "out"), Here>>
hil_chained_moves ==
    LET scenarios == run_scenario(FALSE) \o run_scenario(TRUE) \o run_scenario(TRUE) \o run_scenario(TRUE)
    IN <<Tell(1, Low, High), Open(1, High, "exit"), Enable(1)>> \o scenarios
       \o <<Disable(1), Close(1), Tell(1, High, Low)>>

\* A group of one motor.
hil_motor_group ==
    <<Tell(1, Low, High), Open(1, High, "exit"), Call(1, "enable", {TRUE}, "exit"),
      Ack(1, "zero", Plain, "exit"), Send(1, "turn", Plain, "exit"), Await(1, "exit"), Read(1),
      Loop(3), Disable(1), Close(1), Tell(1, High, Low)>>

bench_quarter_turn ==
    <<TellOr(1, Low, High, "exit"), Open(1, High, "exit"), Call(1, "enable", {TRUE}, "exit"),
      Ack(1, "zero", Plain, "exit"),
      Ack(1, "read", Plain, "out"), Ack(1, "turn", Plain, "out"), Await(1, "out"), Loop(3),
      Disable(1), Close(1), TellOr(1, High, Low, "exit"), Open(1, Low, "exit"), Read(1)>>

----------------------------------------------------------------------------
(* Programs that look for the motor first.                                  *)

Probe(b) == <<Sound(b, High), Sound(b, Low)>>
Seek == Probe(1) \o <<Found(1), Switch(1, "next"), Open(1, High, "exit"), Ack(1, "enable", {TRUE}, "exit")>>

hil_auto_calibrate ==
    Seek \o <<Ack(1, "zero", Plain, "off"),
              Ack(1, "turn", Plain, "out"), Ack(1, "zero", Plain, "out"),
              Try(1, "clear_and_turn", Plain), Read(1), Try(1, "clear_and_turn", Plain), Read(1), Here,
              Disable(1), Close(1), Back(1)>> \o EndOff

\* Never switched back; the current is set to a default at the end.
SafeDefault == 16

\* Mutant: no speed 0 after the speeds.
hil_voltage_setup_spinning ==
    Seek \o <<Ack(1, "current", {10, 30}, "again"),
              Ack(1, "speed", {24}, "again"), Read(1), Ack(1, "speed", {30}, "again"), Read(1),
              Loop(5), Try(1, "current", {SafeDefault}), Disable(1), Close(1)>>

hil_voltage_setup ==
    Seek \o <<Ack(1, "current", {10, 30}, "again"),
              Ack(1, "speed", {24}, "skip"), Read(1), Ack(1, "speed", {30}, "skip"), Read(1),
              Stop(1), Loop(6), Try(1, "current", {SafeDefault}), Disable(1), Close(1)>>

do_90deg == <<Ack(1, "read", Plain, "again"), Ack(1, "turn", Plain, "again"), Await(1, "again"), Read(1), Loop(4)>>
run_test1_comms == <<Read(1), Loop(1)>>
run_test5_overshoot ==
    <<Ack(1, "read", Plain, "out"), Ack(1, "turn", Plain, "out"), Await(1, "out"),
      Read(1), Try(1, "turn", Plain), Here>>
run_test3_max_rpm == <<Call(1, "speed", {3, 30}, "again"), Read(1), Loop(2), Stop(1)>>
\* Tests 1, 2, 4, 5, 6 and 3; 2, 4 and 6 are loops of do_90deg().
hil_envelope ==
    Probe(1) \o <<Found(1), Switch(1, "next"), Verify(1, "next"), Recheck(1), OpenThere(1),
                  Ack(1, "enable", {TRUE}, "exit"), Ack(1, "zero", Plain, "off")>>
    \o run_test1_comms \o do_90deg \o run_test5_overshoot \o do_90deg \o run_test3_max_rpm
    \o <<Disable(1), Close(1), Back(1)>> \o EndOff

\* With or without --skip-setup: work mode and calibration (nothing of which is
\* seen here) come first.  The baud rate stays switched.
hil_single_motor_bench(setup) ==
    Probe(1) \o <<Found(1), Switch(1, "exit"), Verify(1, "exit"), Open(1, High, "exit")>>
    \o (IF setup THEN <<Ack(1, "mode", {4}, "exit"), Send(1, "read", Plain, "exit")>> ELSE <<>>)
    \o <<Ack(1, "enable", {TRUE}, "exit"), Call(1, "read", Plain, "exit"), Try(1, "zero", Plain),
         Ack(1, "read", Plain, "again"), Ack(1, "turn", Plain, "again"), Await(1, "again"), Note, Loop(4),
         Needs("off"), Try(1, "turn", Plain),
         Ack(1, "speed", {5, 30}, "again"), Read(1), Read(1), Stop(1), Loop(4),
         Stop(1), Disable(1)>>

----------------------------------------------------------------------------
(* Programs that take the line as they are told it is.                      *)

read_encoder == <<Open(1, Low, "exit"), Ack(1, "read", Plain, "exit"), Loop(1)>>
stress_read == <<Open(1, Low, "exit"), Read(1), Loop(1)>>

move_quarter_turn ==
    <<Open(1, Low, "exit"), Ack(1, "enable", {TRUE}, "exit"), Ack(1, "zero", Plain, "off"),
      Ack(1, "turn", Plain, "off"), Read(1), Loop(2), Disable(1)>>

\* A client that pushes a profile to the firmware.
apply_profile(microsteps) == <<Open(1, Low, "exit")>> \o ApplyProfile(microsteps)

\* A client that calls any method of the driver.
client == <<Open(1, Low, "exit"), Row("any", 1, "any", Plain, {}, "next"), Loop(1)>>

hil_two_motor_sequential_compliant ==
    <<Open(1, High, "exit"), Open(2, High, "exit"), Try(1, "stop", Plain), Try(2, "stop", Plain),
      Ack(1, "protect", Plain, "skip"), Try(1, "release", Plain),
      Ack(2, "protect", Plain, "skip"), Try(2, "release", Plain),
      Call(1, "enable", {TRUE}, "exit"), Call(2, "enable", {TRUE}, "exit"),
      Try(1, "zero", Plain), Try(2, "zero", Plain),
      Try(1, "turn", Plain), Read(1), Try(2, "turn", Plain), Read(2), Loop(4)>>

\* enable_all() stops at a line that does not answer; one motor enabled is enough.
hil_motor_group_n2 ==
    Probe(1) \o Probe(2)
    \o <<Found(1), Found(2), OpenThere(1), OpenThere(2),
         Call(1, "enable", {TRUE}, "exit"), Try(2, "enable", {TRUE}),
         Try(1, "zero", Plain), Try(2, "zero", Plain),
         Read(1), Read(2), Send(1, "turn", Plain, "again"), Send(2, "turn", Plain, "again"), Loop(4),
         Call(1, "enable", {FALSE}, "exit"), Disable(2)>>

\* Plans of the scheduler, whose moves are module Scheduler's.
Fleet(body) ==
    Each(LAMBDA b : Open(b, High, "next")) \o Each(Enable) \o body \o Each(Disable)
Turn(b) == Try(b, "turn", Plain)
Plans == Each(Turn) \o <<Loop(Lines)>>
Solo == <<Turn(1), Loop(1), Turn(2), Loop(1)>>

hil_scheduler == Fleet(Solo \o Plans)
hil_scheduler_choreography == Fleet(Plans)
hil_scheduler_n3 == Fleet(Solo \o Plans)
hil_motor_profile_demo == Fleet(Each(Turn) \o Plans \o Plans)
hil_inter_move_rest_sweep == Fleet(Plans)
=============================================================================
