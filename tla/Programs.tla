------------------------------ MODULE Programs ------------------------------
(***************************************************************************)
(* Programs that drive motors through RawDriver, one after the other on the *)
(* same serial lines: those of module Examples, executed row by row.  A     *)
(* program may be killed between two rows, and the next one finds the       *)
(* motors as it left them.  An exchange may lose its request or its answer, *)
(* and a port may fail to open.                                            *)
(*                                                                         *)
(* The motors are external: their registers (module RawDriver), the baud    *)
(* rate they listen at, their address, and whether they honour SET_BAUD.    *)
(***************************************************************************)
EXTENDS RawDriver, Examples, FiniteSets, TLC

CONSTANTS
    MaxPrograms,  \* bound: programs, one after the other
    MaxFaults     \* bound: exchanges lost and ports not opened, in a program

ASSUME ProgramBounds == MaxPrograms \in Nat /\ MaxFaults \in Nat
\* The speeds of the programs fit in their byte and nibble: 3000 rpm, of 4095.
ASSUME SpeedAssumption == 30 < Byte * Nibble

Buses == 1..Lines

VARIABLES
    program, pc,     \* the program and its row; 0 when none runs
    port,            \* the rate each line is open at, or NoBaud
    found, run,      \* locals: where a motor was found, where it is driven
    good,            \* local: an iteration succeeded
    res, asked,      \* of the last exchange: its result, what it set
    regs, baud,      \* the motors
    addr, honours,
    started, faults, \* counters
    calm, crashed,   \* history: nothing has gone wrong in the program; it was killed
    before           \* history: each motor when the program started

locals == <<found, run, good>>
nature == <<addr, honours>>
vars == <<program, pc, port, locals, res, asked, regs, baud, nature, started, faults,
          calm, crashed, before>>

Table ==
    [characterize |-> characterize, hil_profile |-> hil_profile, hil_auto_clear |-> hil_auto_clear,
     hil_diagnostics |-> hil_diagnostics, hil_drain_timing |-> hil_drain_timing,
     hil_soak |-> hil_soak, hil_shortest |-> hil_shortest, hil_chained_moves |-> hil_chained_moves,
     hil_motor_group |-> hil_motor_group, bench_quarter_turn |-> bench_quarter_turn,
     hil_auto_calibrate |-> hil_auto_calibrate, hil_voltage_setup |-> hil_voltage_setup,
     hil_envelope |-> hil_envelope,
     hil_single_motor_bench |-> hil_single_motor_bench(TRUE),
     hil_single_motor_bench_skip_setup |-> hil_single_motor_bench(FALSE),
     read_encoder |-> read_encoder, stress_read |-> stress_read,
     move_quarter_turn |-> move_quarter_turn, apply_profile |-> apply_profile(4),
     apply_profile_finest |-> apply_profile(Byte), client |-> client,
     hil_two_motor_sequential_compliant |-> hil_two_motor_sequential_compliant,
     hil_motor_group_n2 |-> hil_motor_group_n2, hil_scheduler |-> hil_scheduler,
     hil_scheduler_choreography |-> hil_scheduler_choreography,
     hil_scheduler_n3 |-> hil_scheduler_n3, hil_motor_profile_demo |-> hil_motor_profile_demo,
     hil_inter_move_rest_sweep |-> hil_inter_move_rest_sweep]

\* The programs that speak to slave address 1, whatever the motor's is.
HardWired == {"stress_read", "hil_two_motor_sequential_compliant", "hil_motor_group_n2",
              "hil_scheduler", "hil_scheduler_choreography", "hil_scheduler_n3",
              "hil_motor_profile_demo", "hil_inter_move_rest_sweep"}

Nothing == <<>>

\* The calls of the client that module Examples leaves open.
ClientCalls ==
    {<<"enable", TRUE>>, <<"enable", FALSE>>, <<"speed", -30>>, <<"speed", 5>>, <<"stop", 0>>,
     <<"move", -2>>, <<"move", 3>>, <<"current", 10>>, <<"micro", 2>>, <<"mode", 4>>,
     <<"release", 0>>, <<"restart", 0>>, <<"defaults", 0>>}

\* The motors as they are found: at most one thing is out of the ordinary. The first
\* has a stall latched, or another address than 1, or ignores SET_BAUD, or the
\* others listen at the low rate.
Init ==
    /\ program = "none" /\ pc = 0
    /\ port = [b \in Buses |-> NoBaud] /\ found = port /\ run = port /\ good = FALSE
    /\ res = "none" /\ asked = Nothing
    /\ \E odd \in {"nothing", "latched", "addr", "honours", "baud"}, rate \in {Low, High} :
          /\ regs = [b \in Buses |-> [Factory EXCEPT !.latched = b = 1 /\ odd = "latched"]]
          /\ addr = [b \in Buses |-> IF b = 1 /\ odd = "addr" THEN 2 ELSE 1]
          /\ honours = [b \in Buses |-> ~(b = 1 /\ odd = "honours")]
          /\ baud = [b \in Buses |-> IF b = 1 THEN rate ELSE IF odd = "baud" THEN Low ELSE High]
    /\ started = 0 /\ faults = 0 /\ calm = TRUE /\ crashed = FALSE
    /\ before = [b \in Buses |-> [baud |-> baud[b], regs |-> regs[b]]]

----------------------------------------------------------------------------
(* Rows and what follows them.                                              *)

\* The row a failing row i goes to; the end of the process is the row behind the last.
Target(rows, i) ==
    LET loops == {j \in i..Len(rows) : rows[j].kind = "loop"}
        loop == CHOOSE j \in loops : \A k \in loops : j <= k
    IN CASE rows[i].fail = "next"  -> i + 1
         [] rows[i].fail = "skip"  -> i + 2
         [] rows[i].fail = "again" -> loop
         [] rows[i].fail = "out"   -> loop + 1
         [] rows[i].fail = "off"   -> Len(rows)
         [] rows[i].fail = "exit"  -> Len(rows) + 1

Code == [p \in DOMAIN Table |->
    [i \in DOMAIN Table[p] |-> [Table[p][i] EXCEPT !.fail = Target(Table[p], i)]]
    \o <<Row("end", 1, "end", Plain, {}, 0)>>]

\* The row ends with a result, which may be one it fails on.
Yields(r, result) ==
    /\ res' = result
    /\ pc' = IF result \in r.bad THEN r.fail ELSE pc + 1

Passing == pc' = pc + 1 /\ res' = "none"

Smooth == UNCHANGED <<faults, calm>>
Fault == faults < MaxFaults /\ faults' = faults + 1 /\ calm' = FALSE

\* What no row but those of Start and the end changes.
frame == <<program, nature, started, crashed, before>>

----------------------------------------------------------------------------
(* Exchanges.                                                               *)

Hears(b, rate) == rate = baud[b] /\ (program \in HardWired => addr[b] = 1)
Hearing(r) == port[r.line] # NoBaud /\ Hears(r.line, port[r.line])

\* A move may stall, and is then refused or times out.
Turned(f) ==
    {Execute(f, "turn", Nothing)}
    \cup IF Able(f) THEN {[regs |-> [f EXCEPT !.latched = TRUE, !.rpm = 0], answer |-> <<a>>] : a \in {0, 1}}
         ELSE {}

\* What becomes of a command.
Outcomes(f, op, arg) ==
    CASE op = "turn" -> Turned(f)
      [] op = "clear_and_turn" -> Turned([f EXCEPT !.latched = FALSE])
      [] OTHER -> {Execute(f, op, Payload(op, arg))}

Setting(r, op, arg) == IF op \in Setters THEN [line |-> r.line, op |-> op, arg |-> arg] ELSE Nothing

\* The motor stalls, or refuses what it is asked.
Trouble(r, o, op) ==
    (o.regs.latched /\ ~regs[r.line].latched) \/ (op # "protect" /\ o.answer = <<0>>)

Answered(r, op, arg) ==
    /\ Hearing(r)
    /\ \E o \in Outcomes(regs[r.line], op, arg) :
         /\ regs' = [regs EXCEPT ![r.line] = o.regs]
         /\ calm' = (calm /\ ~Trouble(r, o, op)) /\ faults' = faults
         /\ Yields(r, IF r.kind = "send" THEN "done" ELSE AckToBool(o.answer))

\* The request is lost, or a reply that is waited for.
Lost(r, op, arg) ==
    /\ Hearing(r) /\ Fault
    /\ \/ regs' = regs
       \/ r.kind # "send" /\ \E o \in Outcomes(regs[r.line], op, arg) :
                                regs' = [regs EXCEPT ![r.line] = o.regs]
    /\ \/ Yields(r, AckToBool(Nothing))
       \/ r.kind = "send" /\ Yields(r, "done")

\* The line is closed, or the motor listens at another rate or address.
Unheard(r) ==
    /\ ~Hearing(r) /\ Smooth /\ regs' = regs
    /\ Yields(r, IF r.kind = "send" /\ port[r.line] # NoBaud THEN "done" ELSE AckToBool(Nothing))

Exchange(r, op, arg) ==
    /\ asked' = Setting(r, op, arg)
    /\ Answered(r, op, arg) \/ Lost(r, op, arg) \/ Unheard(r)
    /\ UNCHANGED <<frame, port, locals, baud>>

\* wait_for_position(), or a loop of reads to the same end.
AwaitTarget(r) ==
    /\ r.kind = "await" /\ asked' = Nothing
    /\ \/ Hearing(r) /\ Smooth /\ Yields(r, "done")
       \/ calm' = FALSE /\ faults' = faults /\ Yields(r, "silent")
    /\ UNCHANGED <<frame, port, locals, regs, baud>>

----------------------------------------------------------------------------
(* The line.                                                                *)

\* Transport::open(): whatever step of it fails, the line stays closed.
OpenPort(r) ==
    LET rate == CHOOSE x \in r.args : TRUE IN
    /\ r.kind = "open" /\ asked' = Nothing
    /\ \/ /\ Smooth /\ Yields(r, "done")
          /\ port' = [port EXCEPT ![r.line] = IF rate = NoBaud THEN run[r.line] ELSE rate]
       \/ /\ Fault /\ Yields(r, "silent")
          /\ port' = [port EXCEPT ![r.line] = NoBaud]
    /\ UNCHANGED <<frame, locals, regs, baud>>

ClosePort(r) ==
    /\ r.kind = "close" /\ asked' = Nothing /\ Smooth /\ Passing
    /\ port' = [port EXCEPT ![r.line] = NoBaud]
    /\ UNCHANGED <<frame, locals, regs, baud>>

\* send_set_baud(): it does not know whether the motor heard.
SetBaud(r, from, to) ==
    \/ /\ Smooth /\ Yields(r, "done")
       /\ baud' = IF baud[r.line] = from /\ addr[r.line] = 1 /\ honours[r.line]
                    THEN [baud EXCEPT ![r.line] = to] ELSE baud
    \/ /\ Fault /\ baud' = baud
       /\ Yields(r, "done") \/ Yields(r, "silent")

TellBaud(r) ==
    /\ r.kind = "tell" /\ asked' = Nothing
    /\ \E to \in r.args : SetBaud(r, r.op, to)
    /\ UNCHANGED <<frame, port, locals, regs>>

\* Mutant: the program asks for the new rate at the new rate.
SwitchBaud_at_target(r) ==
    /\ r.kind = "switch" /\ asked' = Nothing
    /\ IF found[r.line] = High THEN Smooth /\ Passing /\ UNCHANGED <<baud, run>>
       ELSE SetBaud(r, High, High) /\ run' = [run EXCEPT ![r.line] = High]
    /\ UNCHANGED <<frame, port, found, good, regs>>

SwitchBaud(r) ==
    /\ r.kind = "switch" /\ asked' = Nothing
    /\ IF found[r.line] = High THEN Smooth /\ Passing /\ UNCHANGED <<baud, run>>
       ELSE SetBaud(r, found[r.line], High) /\ run' = [run EXCEPT ![r.line] = High]
    /\ UNCHANGED <<frame, port, found, good, regs>>

\* Mutant: the way back is sent at the rate the motor was found at.
BackBaud_at_old(r) ==
    /\ r.kind = "back" /\ asked' = Nothing
    /\ IF found[r.line] = run[r.line] THEN Smooth /\ Passing /\ UNCHANGED baud
       ELSE SetBaud(r, found[r.line], found[r.line])
    /\ UNCHANGED <<frame, port, locals, regs>>

BackBaud(r) ==
    /\ r.kind = "back" /\ asked' = Nothing
    /\ IF found[r.line] = run[r.line] THEN Smooth /\ Passing /\ UNCHANGED baud
       ELSE SetBaud(r, run[r.line], found[r.line])
    /\ UNCHANGED <<frame, port, locals, regs>>

\* A read at a rate on a transport of its own.
SoundBaud(r) ==
    LET rate == CHOOSE x \in r.args : TRUE IN
    /\ r.kind = "sound" /\ asked' = Nothing /\ Passing
    /\ IF found[r.line] = NoBaud /\ Hears(r.line, rate)
         THEN \/ Smooth /\ found' = [found EXCEPT ![r.line] = rate] /\ run' = found'
              \/ Fault /\ UNCHANGED <<found, run>>
         ELSE Smooth /\ UNCHANGED <<found, run>>
    /\ UNCHANGED <<frame, port, good, regs, baud>>

IsFound(r) ==
    /\ r.kind = "found" /\ asked' = Nothing
    /\ Yields(r, IF found[r.line] = NoBaud THEN "silent" ELSE "done")
    /\ calm' = (calm /\ found[r.line] # NoBaud) /\ faults' = faults
    /\ UNCHANGED <<frame, port, locals, regs, baud>>

\* After a switch, a read at the new rate; without an answer the motor is driven
\* where it was found.
VerifyBaud(r) ==
    /\ r.kind = "verify" /\ asked' = Nothing
    /\ IF found[r.line] = High THEN Smooth /\ Passing /\ UNCHANGED run
       ELSE \/ Hears(r.line, High) /\ Smooth /\ Yields(r, "done") /\ UNCHANGED run
            \/ /\ IF Hears(r.line, High) THEN Fault ELSE Smooth
               /\ Yields(r, "silent") /\ run' = [run EXCEPT ![r.line] = found[r.line]]
    /\ UNCHANGED <<frame, port, found, good, regs, baud>>

\* It is read there once more; a port that does not open goes unnoticed.
RecheckBaud(r) ==
    /\ r.kind = "recheck" /\ asked' = Nothing
    /\ IF found[r.line] = High \/ run[r.line] = High THEN Smooth /\ Passing
       ELSE \/ Hears(r.line, run[r.line]) /\ Smooth /\ Yields(r, "done")
            \/ ~Hears(r.line, run[r.line]) /\ Smooth /\ Yields(r, "silent")
            \/ Fault /\ (Yields(r, "silent") \/ Yields(r, "done"))
    /\ UNCHANGED <<frame, port, locals, regs, baud>>

----------------------------------------------------------------------------
(* Control.                                                                 *)

Iterate(r) ==
    /\ r.kind = "loop" /\ asked' = Nothing /\ res' = "none" /\ Smooth
    /\ \E n \in r.args : pc' = pc + 1 \/ (n > 0 /\ pc' = pc - n)
    /\ UNCHANGED <<frame, port, locals, regs, baud>>

NoteGood(r) ==
    /\ r.kind = "note" /\ asked' = Nothing /\ Smooth /\ Passing /\ good' = TRUE
    /\ UNCHANGED <<frame, port, found, run, regs, baud>>

NeedGood(r) ==
    /\ r.kind = "needs" /\ asked' = Nothing /\ Smooth
    /\ Yields(r, IF good THEN "done" ELSE "silent")
    /\ UNCHANGED <<frame, port, locals, regs, baud>>

Start(p) ==
    /\ pc = 0 /\ started < MaxPrograms /\ started' = started + 1
    /\ program' = p /\ pc' = 1
    /\ res' = "none" /\ asked' = Nothing /\ faults' = 0 /\ calm' = TRUE /\ crashed' = FALSE
    /\ before' = [b \in Buses |-> [baud |-> baud[b], regs |-> regs[b]]]
    /\ UNCHANGED <<port, locals, regs, baud, nature>>

\* The process ends, and its descriptors and variables with it.
Gone ==
    /\ pc' = 0 /\ port' = [b \in Buses |-> NoBaud] /\ found' = port' /\ run' = port' /\ good' = FALSE
    /\ asked' = Nothing
    /\ UNCHANGED <<program, regs, baud, nature, started, faults, calm, before>>

Returns(r) == r.kind \in {"end", "return"} /\ Gone /\ UNCHANGED <<res, crashed>>
Crash(r) == r.kind # "end" /\ Gone /\ res' = "none" /\ crashed' = TRUE

Line(r) ==
    OpenPort(r) \/ ClosePort(r) \/ TellBaud(r) \/ SwitchBaud(r) \/ BackBaud(r)
    \/ SoundBaud(r) \/ IsFound(r) \/ VerifyBaud(r) \/ RecheckBaud(r)

\* A step of the row that pc is at.
Step(r) ==
    \/ r.kind \in {"call", "send"} /\ \E a \in r.args : Exchange(r, r.op, a)
    \/ r.kind = "any" /\ \E c \in ClientCalls : Exchange(r, c[1], c[2])
    \/ Line(r) \/ AwaitTarget(r) \/ Iterate(r) \/ NoteGood(r) \/ NeedGood(r)
    \/ Returns(r) \/ Crash(r)

Next ==
    \/ \E p \in DOMAIN Table : Start(p)
    \/ pc # 0 /\ \E r \in {Code[program][pc]} : Step(r)

Spec == Init /\ [][Next]_vars

----------------------------------------------------------------------------
(* Properties.                                                              *)

\* The rows of a program that satisfy P(_).
Has(p, P(_)) == \E i \in DOMAIN Table[p] : P(Table[p][i])
IsOff(r, b) == r.kind = "call" /\ r.line = b /\ r.op = "enable" /\ r.args = {FALSE}

\* The programs that look for the motor, or switch it, rather than take a rate for
\* granted; that disable the motor of a line at their end; that restore its rate; and
\* those that open a line at a rate.
Seekers == {p \in DOMAIN Table : Has(p, LAMBDA r : r.kind \in {"tell", "sound"})}
Disablers == [b \in Buses |-> {p \in DOMAIN Table : Has(p, LAMBDA r : IsOff(r, b))}]
Restorers == {p \in DOMAIN Table : Has(p, LAMBDA r : r.kind = "back" \/ (r.kind = "tell" /\ r.args = {Low}))}
OpenersAt == [b \in Buses |-> [rate \in {Low, High} |->
    {p \in DOMAIN Table : Has(p, LAMBDA r : r.kind = "open" /\ r.line = b /\ r.args = {rate})}]]

Ended == program # "none" /\ pc = 0 /\ ~crashed
Reachable(b) == addr[b] = 1 /\ honours[b] /\ (program \in Seekers \/ program \in OpenersAt[b][before[b].baud])

\* A setter that the firmware acknowledges has left in its register what was
\* asked, through the bytes of the command: signs, high bytes and the 0 that
\* stands for the most microsteps included (raw_driver.hpp, the encoders).
AnsweredMeansSet ==
    res = "done" /\ asked # Nothing => Register(regs[asked.line], asked.op) = asked.arg

\* Wherever an earlier program left the motor, killed or not, a program that
\* looks for it or switches it drives it at the rate it listens at, unless
\* something goes wrong meanwhile (send_set_baud() of the examples, sent blindly).
LineIsFound ==
    \A b \in Buses : pc # 0 /\ port[b] # NoBaud /\ calm /\ program \in Seekers /\ Reachable(b)
        => port[b] = baud[b]

\* A program in which nothing goes wrong leaves no trace: a motor it disables at
\* its end is disabled and at rest, and a rate it restores is restored; early
\* returns do neither, and happen only after trouble.
NoTroubleNoTrace ==
    Ended /\ calm => \A b \in Buses : Reachable(b) =>
        /\ program \in Disablers[b] => ~regs[b].on /\ regs[b].rpm = 0
        /\ program \in Restorers => baud[b] \in {Low, before[b].baud}

\* A motor at rest before a program is at rest after it, whatever one exchange is
\* lost: the last speed 0 and the disabling of the motor stand in for one another
\* (hil_envelope, hil_single_motor_bench, hil_voltage_setup, characterize).
OneLossLeavesNoSpin ==
    Ended /\ faults <= 1 /\ program # "client" => \A b \in Buses :
        before[b].regs.rpm = 0 => regs[b].rpm = 0

\* The firmware has a prefix of the profile, in the order mode, microsteps,
\* current, and all of it when apply_profile_to_firmware() returns OK.
ProfileIsPrefix ==
    program \in {"apply_profile", "apply_profile_finest"} =>
        LET Fields(f) == <<f.mode, f.micro, f.current>>
            profile == <<WorkMode, IF program = "apply_profile" THEN 4 ELSE Byte, WorkCurrent>>
            pushed == {n \in 0..3 : Fields(regs[1]) = [i \in 1..3 |->
                          IF i <= n THEN profile[i] ELSE Fields(before[1].regs)[i]]}
        IN pushed # {} /\ (Ended /\ res = "done" => 3 \in pushed)
=============================================================================
