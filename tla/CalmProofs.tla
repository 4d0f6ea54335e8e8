----------------------------- MODULE CalmProofs ----------------------------
(***************************************************************************)
(* Proofs about Programs: a program in which nothing goes wrong drives the   *)
(* motor at the rate it listens at, and leaves no trace.                    *)
(*                                                                         *)
(* Most programs have one of five shapes: they switch the line without       *)
(* looking, look for the motor, drive every line for the scheduler, drive a  *)
(* pair, or turn a quarter.  A program of a shape has landmarks, the rows    *)
(* that open, switch and close its lines and disable its motors; CalmInv     *)
(* says, for each stretch between two landmarks, at which rate the line is   *)
(* open, at which the motor listens, and whether it is off.  The rows of a   *)
(* stretch change none of these, however the loops of the stretch go round.  *)
(* That each program of the table has its shape is proved from the           *)
(* definitions of module Examples, part by part.                            *)
(***************************************************************************)
EXTENDS ProgramsProofs


----------------------------------------------------------------------------
(* Rates.                                                                   *)

\* Lines keep to two rates, and only a motor that was found is told to change its own.
Rates == {Low, High}
Found1(p) == IF p = "hil_motor_group_n2" THEN 5 ELSE 3
Probers == {"hil_auto_calibrate", "hil_voltage_setup", "hil_envelope", "hil_single_motor_bench",
            "hil_single_motor_bench_skip_setup", "hil_motor_group_n2"}
RowHasRates(r) ==
    /\ r.kind = "tell" => r.args \in {{Low}, {High}}
    /\ r.kind = "sound" => r.args \in {{Low}, {High}}
    /\ r.kind = "found" => r.fail = "exit" /\ r.bad = {"silent"}
Switches(r) == r.kind \in {"switch", "back"}
HasRates(rows) == \A i \in 1..Len(rows) : RowHasRates(rows[i])
OneLine(rows) == \A i \in 1..Len(rows) : rows[i].line = 1
Stays(rows) == \A i \in 1..Len(rows) : ~Switches(rows[i])
Probes(rows, k) ==
    /\ k < Len(rows) /\ rows[k].kind = "found" /\ rows[k].line = 1
    /\ \A i \in 1..(k - 1) : rows[i].kind = "sound"

Buslike(f) == DOMAIN f = Buses
RateInv ==
    /\ Buslike(port) /\ Buslike(baud) /\ Buslike(found) /\ Buslike(run) /\ Buslike(before)
    /\ \A b \in Buses : baud[b] \in Rates /\ found[b] \in {NoBaud, Low, High} /\ run[b] \in {NoBaud, Low, High}
    /\ pc = 0 => good = FALSE /\ \A b \in Buses : port[b] = NoBaud /\ found[b] = NoBaud /\ run[b] = NoBaud
    /\ \A b \in Buses : before[b].baud \in Rates
    /\ pc # 0 /\ program \in HardWired => \A b \in Buses : found[b] # NoBaud => addr[b] = 1
FoundInv ==
    pc # 0 /\ program \in Probers /\ pc > Found1(program) /\ Code[program][pc].kind # "end" =>
        found[1] # NoBaud

\* What the table has of this.
TableHasRates ==
    \A p \in DOMAIN Table :
        /\ HasRates(Table[p])
        /\ Stays(Table[p]) \/ (p \in Probers /\ OneLine(Table[p]))
        /\ p \in Probers => Probes(Table[p], Found1(p))

RowRates(r, n) ==
    /\ r.kind = "tell" => r.args \in {{Low}, {High}}
    /\ r.kind = "sound" => r.args \in {{Low}, {High}}
    /\ r.kind = "found" => r.fail = n + 1 /\ r.bad = {"silent"}

\* The rows of Code keep to the rates as those of the table do.
LEMMA CodeHasRates ==
    ASSUME TableHasRates, NEW p \in DOMAIN Table, NEW n, n = Len(Table[p])
    PROVE  /\ \A i \in 1..(n + 1) : RowRates(Code[p][i], n)
           /\ \A i \in 1..(n + 1) : Switches(Code[p][i]) => p \in Probers /\ Code[p][i].line = 1
           /\ p \in Probers =>
                /\ Found1(p) \in 1..(n - 1)
                /\ Code[p][Found1(p)].kind = "found" /\ Code[p][Found1(p)].line = 1
                /\ \A i \in 1..(Found1(p) - 1) : Code[p][i].kind = "sound"
PROOF
<1> DEFINE rows == Table[p]
<1>1. /\ n \in Nat /\ Sane(rows)
      /\ \A i \in 1..n : Code[p][i] = [rows[i] EXCEPT !.fail = Target(rows, i)]
      /\ Code[p][n + 1] = EndRow
      BY CodeIs
<1>2. ASSUME NEW i \in 1..n
      PROVE  LET r == Code[p][i]
                 q == rows[i]
             IN /\ r.kind = q.kind /\ r.line = q.line /\ r.args = q.args /\ r.bad = q.bad
                /\ r.fail = Target(rows, i)
  <2> DEFINE q == rows[i]
             t == Target(rows, i)
  <2>1. RowFits(q)
        BY <1>1 DEF Sane, RowIsTame, RowIsWild, Wild, Plainly, Skips, Leaves, Loops
  <2>2. Code[p][i] = [q EXCEPT !.fail = t]
        BY <1>1
  <2> HIDE DEF q, t
  <2>3. [q EXCEPT !.fail = t] = Row(q.kind, q.line, q.op, q.args, q.bad, t)
        BY <2>1 DEF RowFits, Row
  <2> QED BY <2>2, <2>3 DEF Row, q, t
<1>3. HasRates(rows) /\ (Stays(rows) \/ (p \in Probers /\ OneLine(rows)))
      /\ (p \in Probers => Probes(rows, Found1(p)))
      BY DEF TableHasRates
<1>4. ASSUME NEW i \in 1..(n + 1)
      PROVE  /\ RowRates(Code[p][i], n)
             /\ Switches(Code[p][i]) => p \in Probers /\ Code[p][i].line = 1
  <2>1. CASE i = n + 1
    <3>1. Code[p][i].kind = "end"
          BY <1>1, <2>1 DEF EndRow, Row
    <3> QED BY <3>1 DEF RowRates, Switches
  <2>2. CASE i # n + 1
    <3>1. i \in 1..n
          BY <1>1, <2>2
    <3>2. rows[i].fail = "exit" => Target(rows, i) = n + 1
          BY DEF Target
    <3>3. RowHasRates(rows[i]) /\ (Switches(rows[i]) => p \in Probers /\ rows[i].line = 1)
          BY <1>3, <3>1 DEF HasRates, Stays, OneLine
    <3> HIDE DEF rows
    <3> QED BY <1>2, <3>1, <3>2, <3>3 DEF RowRates, RowHasRates, Switches
  <2> QED BY <2>1, <2>2
<1>5. ASSUME p \in Probers
      PROVE  /\ Found1(p) \in 1..(n - 1)
             /\ Code[p][Found1(p)].kind = "found" /\ Code[p][Found1(p)].line = 1
             /\ \A i \in 1..(Found1(p) - 1) : Code[p][i].kind = "sound"
  <2>1. Found1(p) \in {3, 5} /\ Probes(rows, Found1(p))
        BY <1>3, <1>5 DEF Found1
  <2>2. Found1(p) \in 1..(n - 1) /\ \A i \in 1..(Found1(p) - 1) : i \in 1..n
        BY <1>1, <2>1 DEF Probes
  <2> HIDE DEF rows
  <2> QED BY <1>1, <1>2, <2>1, <2>2 DEF Probes
<1> QED BY <1>4, <1>5

\* No line is open before the first program.
LEMMA InitRates == Init => RateInv /\ FoundInv
PROOF
<1>1. SUFFICES ASSUME Init PROVE RateInv
      BY DEF Init, FoundInv
<1>2. PICK odd \in {"nothing", "latched", "addr", "honours", "baud"}, rate \in {Low, High} :
         baud = [b \in Buses |-> IF b = 1 THEN rate ELSE IF odd = "baud" THEN Low ELSE High]
      BY <1>1 DEF Init
<1>3. /\ pc = 0 /\ good = FALSE /\ port = [b \in Buses |-> NoBaud] /\ found = port /\ run = port
      /\ before = [b \in Buses |-> [baud |-> baud[b], regs |-> regs[b]]]
      BY <1>1 DEF Init
<1>4. \A b \in Buses : baud[b] \in Rates
      BY <1>2 DEF Rates
<1> QED BY <1>2, <1>3, <1>4 DEF RateInv, Buslike, Rates

\* What a row does to the rates of the lines.
LEMMA LineKeepsRates ==
    ASSUME RateInv, NEW r, r.line \in Buses, pc # 0, pc' # 0,
           r.kind = "tell" => r.args \in {{Low}, {High}},
           r.kind = "sound" => r.args \in {{Low}, {High}},
           Switches(r) => found[r.line] # NoBaud,
           Line(r) \/ AwaitTarget(r) \/ Iterate(r) \/ NoteGood(r) \/ NeedGood(r)
           \/ \E op, arg : Exchange(r, op, arg)
    PROVE  RateInv' /\ \A b \in Buses : found[b] # NoBaud => found'[b] # NoBaud
PROOF
<1> USE DEF RateInv, Buslike
<1>1. CASE AwaitTarget(r) \/ Iterate(r) \/ NoteGood(r) \/ NeedGood(r) \/ IsFound(r)
      BY <1>1 DEF AwaitTarget, Iterate, NoteGood, NeedGood, IsFound, frame, locals, nature
<1>2. CASE \E op, arg : Exchange(r, op, arg)
      BY <1>2 DEF Exchange, frame, locals, nature
<1>3. CASE OpenPort(r) \/ ClosePort(r)
      BY <1>3 DEF OpenPort, ClosePort, frame, locals, nature
<1>4. ASSUME NEW from, NEW to \in Rates, SetBaud(r, from, to)
      PROVE  Buslike(baud') /\ \A b \in Buses : baud'[b] \in Rates
      BY <1>4 DEF SetBaud
<1>5. CASE TellBaud(r)
  <2>1. PICK to \in r.args : SetBaud(r, r.op, to)
        BY <1>5 DEF TellBaud
  <2>2. to \in Rates
        BY <1>5, <2>1 DEF TellBaud, Rates
  <2>3. Buslike(baud') /\ \A b \in Buses : baud'[b] \in Rates
        BY <1>4, <2>1, <2>2
  <2> QED BY <1>5, <2>3 DEF TellBaud, frame, locals, nature
<1>6. CASE SwitchBaud(r)
  <2>1. Buslike(baud') /\ \A b \in Buses : baud'[b] \in Rates
    <3>1. CASE baud' = baud
          BY <3>1
    <3>2. CASE SetBaud(r, found[r.line], High)
          BY <1>4, <3>2 DEF Rates
    <3> QED BY <1>6, <3>1, <3>2 DEF SwitchBaud
  <2>2. Buslike(run') /\ \A b \in Buses : run'[b] \in {NoBaud, Low, High}
        BY <1>6 DEF SwitchBaud
  <2> QED BY <1>6, <2>1, <2>2 DEF SwitchBaud, frame, nature
<1>7. CASE BackBaud(r)
  <2>1. found[r.line] \in Rates
        BY <1>7 DEF BackBaud, Switches, Rates
  <2>2. Buslike(baud') /\ \A b \in Buses : baud'[b] \in Rates
    <3>1. CASE baud' = baud
          BY <3>1
    <3>2. CASE SetBaud(r, run[r.line], found[r.line])
          BY <1>4, <2>1, <3>2
    <3> QED BY <1>7, <3>1, <3>2 DEF BackBaud
  <2> QED BY <1>7, <2>2 DEF BackBaud, frame, locals, nature
<1>8. CASE SoundBaud(r)
  <2>1. PICK rate \in Rates : r.args = {rate}
        BY <1>8 DEF SoundBaud, Rates
  <2>2. (CHOOSE x \in r.args : TRUE) = rate
        BY <2>1
  <2>3. \/ UNCHANGED <<found, run>>
        \/ /\ found' = [found EXCEPT ![r.line] = rate] /\ run' = found' /\ found[r.line] = NoBaud
           /\ Hears(r.line, rate)
        BY <1>8, <2>2 DEF SoundBaud
  <2>4. /\ Buslike(found') /\ \A b \in Buses : found'[b] \in {NoBaud, Low, High}
        /\ Buslike(run') /\ \A b \in Buses : run'[b] \in {NoBaud, Low, High}
        BY <2>3 DEF Rates
  <2>5. \A b \in Buses : found[b] # NoBaud => found'[b] # NoBaud
        BY <2>1, <2>3 DEF Rates, Low, High, NoBaud
  <2>6. program \in HardWired => \A b \in Buses : found'[b] # NoBaud => addr[b] = 1
        BY <2>3 DEF Hears
  <2> QED BY <1>8, <2>4, <2>5, <2>6 DEF SoundBaud, frame, nature
<1>9. CASE VerifyBaud(r)
  <2>1. Buslike(run') /\ \A b \in Buses : run'[b] \in {NoBaud, Low, High}
        BY <1>9 DEF VerifyBaud
  <2> QED BY <1>9, <2>1 DEF VerifyBaud, frame, nature
<1>10. CASE RecheckBaud(r)
      BY <1>10 DEF RecheckBaud, frame, locals, nature
<1> QED BY <1>1, <1>2, <1>3, <1>5, <1>6, <1>7, <1>8, <1>9, <1>10 DEF Line

\* Rates are kept by every step, of a program that fails, is killed or goes on.
LEMMA StepKeepsRates ==
    TableHasRates /\ ProgramInv /\ RateInv /\ FoundInv /\ [Next]_vars => RateInv' /\ FoundInv'
PROOF
<1> SUFFICES ASSUME TableHasRates, ProgramInv, RateInv, FoundInv, [Next]_vars PROVE RateInv' /\ FoundInv'
    OBVIOUS
<1>1. ASSUME NEW p \in DOMAIN Table, Start(p) PROVE RateInv' /\ FoundInv'
  <2>1. pc' = 1 /\ program' = p /\ ~(1 > Found1(p))
        BY <1>1 DEF Start, Found1
  <2>2. RateInv'
        BY <1>1 DEF Start, RateInv, Buslike, locals, nature
  <2> QED BY <2>1, <2>2 DEF FoundInv
<1>2. ASSUME pc # 0, Step(Code[program][pc]) PROVE RateInv' /\ FoundInv'
  <2> DEFINE r == Code[program][pc]
             n == Len(Table[program])
  <2>1. n \in Nat /\ pc \in 1..(n + 1) /\ program \in DOMAIN Table /\ InCode(r, pc, n)
        BY <1>2, CodeRows DEF ProgramInv, Inside
  <2>2. RowRates(r, n) /\ (Switches(r) => program \in Probers /\ r.line = 1)
        BY <2>1, CodeHasRates
  <2>3. program \in Probers =>
             /\ Found1(program) \in 1..(n - 1)
             /\ Code[program][Found1(program)].kind = "found" /\ Code[program][Found1(program)].line = 1
             /\ \A i \in 1..(Found1(program) - 1) : Code[program][i].kind = "sound"
             /\ Code[program][n + 1].kind = "end"
        BY <2>1, CodeHasRates, CodeRows DEF InCode
  <2>4. Switches(r) => found[r.line] # NoBaud
    <3>1. ASSUME Switches(r) PROVE pc > Found1(program) /\ r.kind # "end"
      <4>1. r.kind # "found" /\ r.kind # "sound" /\ r.kind # "end"
            BY <3>1 DEF Switches
      <4>2. Found1(program) \in 1..(n - 1) /\ pc # Found1(program) /\ pc \notin 1..(Found1(program) - 1)
            BY <2>2, <2>3, <3>1, <4>1
      <4> HIDE DEF n
      <4> QED BY <2>1, <4>1, <4>2
    <3> QED BY <1>2, <2>2, <3>1 DEF FoundInv
  <2>5. CASE Returns(r) \/ Crash(r)
    <3>1. Gone
          BY <2>5 DEF Returns, Crash
    <3>2. FoundInv'
          BY <3>1 DEF Gone, FoundInv
    <3>3. RateInv'
          BY <3>1 DEF Gone, RateInv, Buslike, nature
    <3> QED BY <3>2, <3>3
  <2>6. CASE \/ Line(r) \/ AwaitTarget(r) \/ Iterate(r) \/ NoteGood(r) \/ NeedGood(r)
             \/ \E op, arg : Exchange(r, op, arg) /\ r.kind \notin {"found", "sound", "end"}
    <3>1. Goes(r) /\ r.kind # "end"
          BY <2>6, RowsGo DEF Line, AwaitTarget, OpenPort, ClosePort, TellBaud, SwitchBaud, BackBaud, SoundBaud,
             IsFound, VerifyBaud, RecheckBaud, Iterate, NoteGood, NeedGood
    <3>2. pc' \in 1..(n + 1) /\ program' = program
      <4>1. pc <= n /\ r.fail \in 1..(n + 1)
            BY <2>1, <3>1 DEF InCode
      <4>2. CASE pc' \in {r.fail, pc + 1}
            BY <2>1, <3>1, <4>1, <4>2 DEF Goes
      <4>3. CASE \E k \in r.args : r.kind = "loop" /\ pc' = pc - k
        <5>1. PICK k \in Nat : k < pc /\ pc' = pc - k
              BY <2>1, <4>3 DEF InCode
        <5> QED BY <2>1, <3>1, <4>1, <5>1 DEF Goes
      <4> QED BY <3>1, <4>2, <4>3 DEF Goes
    <3>3. RateInv' /\ \A b \in Buses : found[b] # NoBaud => found'[b] # NoBaud
      <4>1. pc' # 0 /\ r.line \in Buses
            BY <2>1, <3>2 DEF InCode
      <4>2. /\ r.kind = "tell" => r.args \in {{Low}, {High}}
            /\ r.kind = "sound" => r.args \in {{Low}, {High}}
            BY <2>2 DEF RowRates
      <4> HIDE DEF r
      <4> QED BY <1>2, <2>4, <2>6, <4>1, <4>2, LineKeepsRates
    <3>4. ASSUME program \in Probers, pc' > Found1(program), Code[program][pc'].kind # "end"
          PROVE  found'[1] # NoBaud
      <4>1. CASE pc > Found1(program)
            BY <1>2, <3>1, <3>3, <3>4, <4>1, BusesType DEF FoundInv
      <4>2. CASE pc \in 1..(Found1(program) - 1)
        <5>1. r.kind = "sound"
              BY <2>3, <3>4, <4>2
        <5>2. pc' = pc + 1
          <6>1. SoundBaud(r)
                BY <2>6, <5>1 DEF Line, AwaitTarget, OpenPort, ClosePort, TellBaud, SwitchBaud, BackBaud,
                   IsFound, VerifyBaud, RecheckBaud, Iterate, NoteGood, NeedGood
          <6> QED BY <6>1 DEF SoundBaud, Passing
        <5>3. Found1(program) \in Nat
              BY DEF Found1
        <5> QED BY <2>1, <3>4, <4>2, <5>2, <5>3
      <4>3. CASE pc = Found1(program)
        <5>1. r.kind = "found" /\ r.line = 1 /\ r.fail = n + 1 /\ r.bad = {"silent"}
              BY <2>2, <2>3, <3>4, <4>3 DEF RowRates
        <5>2. IsFound(r)
              BY <2>6, <5>1 DEF Line, AwaitTarget, OpenPort, ClosePort, TellBaud, SwitchBaud, BackBaud,
                 SoundBaud, VerifyBaud, RecheckBaud, Iterate, NoteGood, NeedGood
        <5>3. found[1] = NoBaud => pc' = n + 1
              BY <5>1, <5>2 DEF IsFound, Yields
        <5>4. found' = found
              BY <5>2 DEF IsFound, locals
        <5> QED BY <2>3, <3>4, <5>3, <5>4
      <4>4. Found1(program) \in Nat
            BY DEF Found1
      <4> HIDE DEF n, r
      <4> QED BY <2>1, <4>1, <4>2, <4>3, <4>4
    <3> QED BY <3>2, <3>3, <3>4 DEF FoundInv
  <2>7. Step(r)
        BY <1>2
  <2> HIDE DEF r
  <2> QED BY <2>5, <2>6, <2>7 DEF Step
<1>3. CASE UNCHANGED vars
      BY <1>3 DEF vars, locals, nature, RateInv, FoundInv, Buslike
<1> QED BY <1>1, <1>2, <1>3 DEF Next

----------------------------------------------------------------------------
(* Programs in which nothing goes wrong: what their rows are.                *)

\* A row of a line, which does not fail on a success.
Is(r, kind, b) == r.kind = kind /\ r.line = b /\ "done" \notin r.bad
Tells(r, from, to) == Is(r, "tell", 1) /\ r.op = from /\ r.args = {to}
Opens(r, b, rate) == Is(r, "open", b) /\ r.args = {rate}
Sounds(r, b, rate) == Is(r, "sound", b) /\ r.args = {rate} /\ r.bad = {}
Finds(r, b) == Is(r, "found", b) /\ r.bad = {"silent"} /\ r.fail = "exit"
SwitchesOff(r, b) == Is(r, "call", b) /\ r.op = "enable" /\ r.args = {FALSE}
Reads(r) == Is(r, "call", 1) /\ r.op = "read"

\* Rows that leave the rates alone, and go on when nothing goes wrong; but for the
\* loops, and for a motor that says it has no stall latched.
Inner(r) == r.kind \in {"call", "send", "await", "loop", "note", "needs"} /\ "done" \notin r.bad
Protects(r) == r.kind \in Sending /\ r.op = "protect" /\ "refused" \in r.bad
LoopsBack(r, i, a) == r.kind = "loop" => r.bad = {} /\ \E k \in Nat : r.args = {k} /\ a <= i - k

\* A part of a program that keeps to itself.
Body(rows) ==
    /\ IsRows(rows)
    /\ \A i \in 1..Len(rows) :
         /\ Inner(rows[i]) /\ LoopsBack(rows[i], i, 1)
         /\ Protects(rows[i]) => rows[i].fail = "out" /\ \E j \in i..Len(rows) : rows[j].kind = "loop"

\* The rows from a to before d keep to themselves, within a program.
Within(rows, a, d) ==
    \A i \in a..(d - 1) :
        /\ Inner(rows[i]) /\ LoopsBack(rows[i], i, a)
        /\ Protects(rows[i]) => Target(rows, i) \in a..d
OnLineOne(rows, a, d) == \A i \in a..(d - 1) : rows[i].line = 1

\* The programs that switch the line without looking; row d disables the motor.
Blinds == {"characterize", "hil_profile", "hil_auto_clear", "hil_diagnostics", "hil_drain_timing", "hil_soak",
           "hil_shortest", "hil_chained_moves", "hil_motor_group", "bench_quarter_turn"}
BlindRows(rows, d) ==
    /\ Tells(rows[1], Low, High) /\ Opens(rows[2], 1, High)
    /\ Within(rows, 3, d) /\ OnLineOne(rows, 3, d)
    /\ SwitchesOff(rows[d], 1) /\ Is(rows[d + 1], "close", 1) /\ Tells(rows[d + 2], High, Low)
    /\ Len(rows) # d + 2 =>
         Len(rows) = d + 4 /\ Opens(rows[d + 3], 1, Low) /\ Reads(rows[d + 4])
BlindOff(p) == CHOOSE d \in 3..(Len(Table[p]) - 2) : BlindRows(Table[p], d)

\* Those that look for the motor; row o opens the line.
Scanners == {"hil_auto_calibrate", "hil_voltage_setup", "hil_envelope", "hil_single_motor_bench",
             "hil_single_motor_bench_skip_setup"}
ScanRows(rows, o, d) ==
    /\ Sounds(rows[1], 1, High) /\ Sounds(rows[2], 1, Low) /\ Finds(rows[3], 1) /\ Is(rows[4], "switch", 1)
    /\ \A i \in 5..(o - 1) : Is(rows[i], "verify", 1) \/ Is(rows[i], "recheck", 1)
    /\ Opens(rows[o], 1, High) \/ Opens(rows[o], 1, NoBaud)
    /\ Within(rows, o + 1, d) /\ OnLineOne(rows, o + 1, d)
    /\ SwitchesOff(rows[d], 1)
    /\ \A i \in (o + 1)..(d - 1) : rows[i].kind = "needs" => d = Len(rows) /\ rows[i].fail = "off"
    /\ Len(rows) # d => Is(rows[d + 1], "close", 1)
    /\ Len(rows) \notin {d, d + 1} => Len(rows) = d + 4 /\ Is(rows[d + 2], "back", 1) /\ Is(rows[d + 3], "return", 1)
                        /\ SwitchesOff(rows[d + 4], 1)
ScanMarks(p) == CHOOSE m \in (5..Len(Table[p])) \X (5..Len(Table[p])) : m[1] < m[2] /\ ScanRows(Table[p], m[1], m[2])
ScanOpen(p) == ScanMarks(p)[1]
ScanOff(p) == ScanMarks(p)[2]

\* Those of the scheduler, on every line.
Fleets == {"hil_scheduler", "hil_scheduler_choreography", "hil_scheduler_n3", "hil_motor_profile_demo",
           "hil_inter_move_rest_sweep"}
FleetRows(rows, d) ==
    /\ \A b \in Buses : Opens(rows[b], b, High)
    /\ Within(rows, Lines + 1, d + 1)
    /\ \A i \in (Lines + 1)..d : rows[i].bad = {} /\ rows[i].line \in Buses /\ rows[i].kind \in {"call", "loop"}
    /\ Len(rows) = d + Lines
    /\ \A b \in Buses : SwitchesOff(rows[d + b], b) /\ rows[d + b].bad = {}
FleetOff(p) == CHOOSE d \in Lines..Len(Table[p]) : FleetRows(Table[p], d)

Pair == "hil_motor_group_n2"
PairRows(rows) ==
    /\ Len(rows) = 19
    /\ Sounds(rows[1], 1, High) /\ Sounds(rows[2], 1, Low) /\ Sounds(rows[3], 2, High) /\ Sounds(rows[4], 2, Low)
    /\ Finds(rows[5], 1) /\ Finds(rows[6], 2) /\ Opens(rows[7], 1, NoBaud) /\ Opens(rows[8], 2, NoBaud)
    /\ \A i \in 9..17 : Inner(rows[i]) /\ rows[i].line \in {1, 2} /\ ~Protects(rows[i])
    /\ \A i \in 9..17 : rows[i].kind = "loop" => rows[i].args = {4} /\ i = 17
    /\ \A i \in 9..17 : rows[i].kind # "needs"
    /\ \A i \in 9..17 : rows[i].line = 2 => rows[i].bad = {} \/ Target(rows, i) = 17
    /\ SwitchesOff(rows[18], 1) /\ SwitchesOff(rows[19], 2) /\ rows[19].bad = {}

\* One program of the low rate that disables its motor.
Quarter == "move_quarter_turn"
QuarterRows(rows) ==
    /\ Len(rows) = 7 /\ Opens(rows[1], 1, Low) /\ Within(rows, 2, 7) /\ OnLineOne(rows, 2, 7)
    /\ \A i \in 2..6 : rows[i].kind # "needs" /\ ~SwitchesOff(rows[i], 1)
    /\ SwitchesOff(rows[7], 1)

\* The others neither look for a motor nor switch it, and leave it enabled.
Humble == DOMAIN Table \ (Blinds \cup Scanners \cup Fleets \cup {Pair, Quarter})
HumbleRows(rows) ==
    \A i \in 1..Len(rows) :
        /\ rows[i].kind \in {"open", "call", "send", "await", "loop", "any"}
        /\ ~\E b \in Buses : IsOff(rows[i], b)

TableShapes ==
    /\ \A p \in Blinds : \E d \in 3..(Len(Table[p]) - 2) : BlindRows(Table[p], d)
    /\ \A p \in Scanners : \E o, d \in 5..Len(Table[p]) : o < d /\ ScanRows(Table[p], o, d)
    /\ \A p \in Fleets : \E d \in Lines..Len(Table[p]) : FleetRows(Table[p], d)
    /\ PairRows(Table[Pair]) /\ QuarterRows(Table[Quarter])
    /\ \A p \in Humble : HumbleRows(Table[p])
    /\ \A p \in Blinds : \A i \in 1..Len(Table[p]) : Table[p][i].kind = "needs" => p = "hil_drain_timing" /\ i = 10

----------------------------------------------------------------------------
(* What is known of a line at each row.                                     *)

Off(b) == regs[b].on = FALSE /\ regs[b].rpm = 0
Was(b) == before[b].baud

BlindAt(d) ==
    /\ pc \in {1, 2, d + 2, d + 3} => port[1] = NoBaud
    /\ pc \in 3..(d + 1) => port[1] = High
    /\ pc > d + 3 => port[1] = Low
    /\ pc \in 2..(d + 2) => baud[1] = High
    /\ pc > d + 2 => baud[1] = Low
    /\ pc > d => Off(1)
    /\ program = "hil_drain_timing" /\ pc \in {9, 10} => good = TRUE

ScanAt(o, d) ==
    /\ pc <= o => port[1] = NoBaud
    /\ pc \in (o + 1)..(d + 1) => port[1] = High
    /\ pc > d + 1 => port[1] = NoBaud
    /\ pc <= 4 => baud[1] = Was(1) /\ run[1] = found[1]
    /\ pc \in 5..(d + 2) => baud[1] = High /\ run[1] = High
    /\ pc > d + 2 => baud[1] = Was(1)
    /\ pc = 1 => found[1] = NoBaud
    /\ pc = 2 => found[1] \in {NoBaud, Was(1)} /\ (Was(1) = High => found[1] = High)
    /\ pc >= 3 => found[1] = Was(1)
    /\ pc > d => Off(1)
    /\ pc <= d + 3

FleetAt(b, d) ==
    /\ pc <= b => port[b] = NoBaud
    /\ pc > b => port[b] = High
    /\ baud[b] = High
    /\ pc > d + b => Off(b)

PairAt(b) ==
    /\ pc <= 6 + b => port[b] = NoBaud
    /\ pc > 6 + b => port[b] = Was(b)
    /\ baud[b] = Was(b) /\ run[b] = found[b]
    /\ pc < 2 * b => found[b] = NoBaud
    /\ pc = 2 * b => found[b] \in {NoBaud, Was(b)} /\ (Was(b) = High => found[b] = High)
    /\ pc > 2 * b => found[b] = Was(b)
    /\ pc > 17 + b => Off(b)

QuarterAt ==
    /\ pc = 1 => port[1] = NoBaud
    /\ pc > 1 => port[1] = Low
    /\ baud[1] = Low
    /\ pc > 7 => Off(1)

CalmInv ==
    pc # 0 /\ calm =>
        /\ program \in Blinds /\ addr[1] = 1 /\ honours[1] => BlindAt(BlindOff(program))
        /\ program \in Scanners /\ addr[1] = 1 /\ honours[1] => ScanAt(ScanOpen(program), ScanOff(program))
        /\ program \in Fleets =>
             \A b \in Buses : addr[b] = 1 /\ Was(b) = High => FleetAt(b, FleetOff(program))
        /\ program = Pair => (pc > 5 => addr[1] = 1) /\ \A b \in {1, 2} : addr[b] = 1 => PairAt(b)
        /\ program = Quarter /\ addr[1] = 1 /\ Was(1) = Low => QuarterAt

\* A line that a program does not use stays as it was.
Unused(p, b) == \A i \in 1..Len(Table[p]) : Table[p][i].line # b
UnusedInv == pc # 0 => \A b \in Buses : Unused(program, b) => port[b] = NoBaud /\ baud[b] = Was(b)

\* What a program in which nothing goes wrong leaves behind.
Rested ==
    \A b \in Buses : Reachable(b) =>
        /\ program \in Disablers[b] => ~regs[b].on /\ regs[b].rpm = 0
        /\ program \in Restorers => baud[b] \in {Low, before[b].baud}

----------------------------------------------------------------------------
(* What a row does when nothing goes wrong.                                 *)

\* Reading changes nothing; a motor that is disabled is off; an answer other than 0
\* is a success.
LEMMA OffOutcomes ==
    ASSUME NEW f, IsFirmware(f), NEW op \in Calls, NEW arg, NEW o \in Outcomes(f, op, arg)
    PROVE  /\ op = "read" => o.regs = f
           /\ op = "enable" /\ arg = FALSE => o.regs.on = FALSE /\ o.regs.rpm = 0
           /\ o.answer # <<0>> => AckToBool(o.answer) = "done"
           /\ AckToBool(o.answer) \in {"done", "refused"}
PROOF
<1>1. DOMAIN f = FieldNames
      BY DEF IsFirmware
<1>2. ASSUME op = "read" PROVE o.regs = f
  <2>1. o = Execute(f, "read", Payload(op, arg))
        BY <1>2 DEF Outcomes
  <2> QED BY <2>1 DEF Execute
<1>3. ASSUME op = "enable", arg = FALSE PROVE o.regs.on = FALSE /\ o.regs.rpm = 0
  <2> DEFINE data == Payload("enable", FALSE)
  <2>1. o = Execute(f, "enable", data)
        BY <1>3 DEF Outcomes
  <2>2. data[1] = 0
        BY DEF Payload
  <2> HIDE DEF data
  <2>3. o.regs = [f EXCEPT !.on = (data[1] = 1), !.rpm = IF data[1] = 1 THEN @ ELSE 0]
        BY <2>1 DEF Execute
  <2>4. (data[1] = 1) = FALSE
        BY <2>2
  <2>5. o.regs = [f EXCEPT !.on = FALSE, !.rpm = 0]
        BY <2>3, <2>4, Zenon
  <2> QED BY <1>1, <2>5 DEF FieldNames
<1>4. /\ o.answer # <<0>> => AckToBool(o.answer) = "done"
      /\ AckToBool(o.answer) \in {"done", "refused"}
  <2>1. o.answer \in {<<0>>, <<1>>}
        BY OutcomesType
  <2> QED BY <2>1 DEF AckToBool
<1> QED BY <1>2, <1>3, <1>4

\* The action of a row, when the program goes on.
LEMMA RowActs ==
    ASSUME NEW r, Step(r), ~Gone
    PROVE  /\ r.kind \in Sending => \E a \in r.args : Exchange(r, r.op, a)
           /\ r.kind = "open" => OpenPort(r)
           /\ r.kind = "close" => ClosePort(r)
           /\ r.kind = "tell" => TellBaud(r)
           /\ r.kind = "switch" => SwitchBaud(r)
           /\ r.kind = "back" => BackBaud(r)
           /\ r.kind = "sound" => SoundBaud(r)
           /\ r.kind = "found" => IsFound(r)
           /\ r.kind = "verify" => VerifyBaud(r)
           /\ r.kind = "recheck" => RecheckBaud(r)
           /\ r.kind = "await" => AwaitTarget(r)
           /\ r.kind = "loop" => Iterate(r)
           /\ r.kind = "note" => NoteGood(r)
           /\ r.kind = "needs" => NeedGood(r)
           /\ r.kind \notin {"end", "return"}
PROOF
<1>1. \/ r.kind \in {"call", "send"} /\ \E a \in r.args : Exchange(r, r.op, a)
      \/ r.kind = "any" \/ Line(r) \/ AwaitTarget(r) \/ Iterate(r) \/ NoteGood(r) \/ NeedGood(r)
      BY DEF Step, Returns, Crash
<1>2. CASE r.kind \in {"call", "send"} /\ \E a \in r.args : Exchange(r, r.op, a)
      BY <1>2 DEF Sending
<1>3. CASE r.kind = "any"
      BY <1>3 DEF Sending
<1>4. CASE Line(r)
      BY <1>4 DEF Sending, Line, OpenPort, ClosePort, TellBaud, SwitchBaud, BackBaud, SoundBaud, IsFound,
         VerifyBaud, RecheckBaud
<1>5. CASE AwaitTarget(r) \/ Iterate(r) \/ NoteGood(r) \/ NeedGood(r)
      BY <1>5 DEF Sending, AwaitTarget, Iterate, NoteGood, NeedGood
<1> QED BY <1>1, <1>2, <1>3, <1>4, <1>5

LEMMA CalmOpens ==
    ASSUME NEW r, NEW rate, OpenPort(r), calm', r.args = {rate}, "done" \notin r.bad
    PROVE  /\ calm /\ pc' = pc + 1 /\ UNCHANGED <<frame, locals, regs, baud>>
           /\ port' = [port EXCEPT ![r.line] = IF rate = NoBaud THEN run[r.line] ELSE rate]
PROOF
<1>1. (CHOOSE x \in r.args : TRUE) = rate
      OBVIOUS
<1> QED BY <1>1 DEF OpenPort, Fault, Smooth, Yields

LEMMA CalmCloses ==
    ASSUME NEW r, ClosePort(r), calm'
    PROVE  /\ calm /\ pc' = pc + 1 /\ UNCHANGED <<frame, locals, regs, baud>>
           /\ port' = [port EXCEPT ![r.line] = NoBaud]
PROOF BY DEF ClosePort, Smooth, Passing

LEMMA CalmTells ==
    ASSUME NEW r, NEW to, TellBaud(r), calm', r.args = {to}, "done" \notin r.bad
    PROVE  /\ calm /\ pc' = pc + 1 /\ UNCHANGED <<frame, port, locals, regs>>
           /\ baud' = IF baud[r.line] = r.op /\ addr[r.line] = 1 /\ honours[r.line]
                        THEN [baud EXCEPT ![r.line] = to] ELSE baud
PROOF
<1>1. SetBaud(r, r.op, to)
      BY DEF TellBaud
<1> QED BY <1>1 DEF TellBaud, SetBaud, Fault, Smooth, Yields

LEMMA CalmSwitches ==
    ASSUME NEW r, SwitchBaud(r), calm', "done" \notin r.bad
    PROVE  /\ calm /\ pc' = pc + 1 /\ UNCHANGED <<frame, port, found, good, regs>>
           /\ found[r.line] = High => UNCHANGED <<baud, run>>
           /\ found[r.line] # High =>
                /\ run' = [run EXCEPT ![r.line] = High]
                /\ baud' = IF baud[r.line] = found[r.line] /\ addr[r.line] = 1 /\ honours[r.line]
                             THEN [baud EXCEPT ![r.line] = High] ELSE baud
PROOF BY DEF SwitchBaud, SetBaud, Fault, Smooth, Yields, Passing

LEMMA CalmSwitchesBack ==
    ASSUME NEW r, BackBaud(r), calm', "done" \notin r.bad
    PROVE  /\ calm /\ pc' = pc + 1 /\ UNCHANGED <<frame, port, locals, regs>>
           /\ found[r.line] = run[r.line] => baud' = baud
           /\ found[r.line] # run[r.line] =>
                baud' = IF baud[r.line] = run[r.line] /\ addr[r.line] = 1 /\ honours[r.line]
                          THEN [baud EXCEPT ![r.line] = found[r.line]] ELSE baud
PROOF BY DEF BackBaud, SetBaud, Fault, Smooth, Yields, Passing

LEMMA CalmSounds ==
    ASSUME NEW r, NEW rate, SoundBaud(r), calm', r.args = {rate}
    PROVE  /\ calm /\ pc' = pc + 1 /\ UNCHANGED <<frame, port, good, regs, baud>>
           /\ IF found[r.line] = NoBaud /\ Hears(r.line, rate)
                THEN found' = [found EXCEPT ![r.line] = rate] /\ run' = found'
                ELSE UNCHANGED <<found, run>>
PROOF
<1>1. (CHOOSE x \in r.args : TRUE) = rate
      OBVIOUS
<1> QED BY <1>1 DEF SoundBaud, Fault, Smooth, Passing

LEMMA CalmFinds ==
    ASSUME NEW r, IsFound(r), calm', "done" \notin r.bad
    PROVE  /\ calm /\ pc' = pc + 1 /\ UNCHANGED <<frame, port, locals, regs, baud>>
           /\ found[r.line] # NoBaud
PROOF BY DEF IsFound, Yields

LEMMA CalmVerifies ==
    ASSUME NEW r, VerifyBaud(r) \/ RecheckBaud(r), calm', "done" \notin r.bad,
           run[r.line] = High, Hears(r.line, High)
    PROVE  calm /\ pc' = pc + 1 /\ UNCHANGED <<frame, port, locals, regs, baud>>
PROOF BY DEF VerifyBaud, RecheckBaud, Fault, Smooth, Yields, Passing, locals

\* An exchange of a row, when nothing goes wrong.
LEMMA CalmExchanges ==
    ASSUME Registers, NEW r, r.kind \in Sending, NEW arg \in r.args, Possible(r, r.op, arg),
           Exchange(r, r.op, arg), calm', "done" \notin r.bad
    PROVE  /\ calm /\ UNCHANGED <<frame, port, locals, baud>>
           /\ pc' \in {pc + 1, r.fail}
           /\ r.bad = {} => pc' = pc + 1
           /\ Hearing(r) /\ ~Protects(r) => pc' = pc + 1
           /\ \A b \in Buses : b # r.line => regs'[b] = regs[b]
           /\ r.op = "read" => \A b \in Buses : regs'[b] = regs[b]
           /\ r.op = "enable" /\ arg = FALSE /\ Hearing(r) => Off(r.line)'
PROOF
<1> DEFINE f == regs[r.line]
           op == r.op
<1>1. IsFirmware(f) /\ r.line \in Buses /\ op \in Calls /\ regs = [b \in Buses |-> regs[b]]
      BY DEF Registers, Possible
<1>2. UNCHANGED <<frame, port, locals, baud>> /\ ~Lost(r, op, arg)
      BY DEF Exchange, Lost, Fault
<1>3. CASE Answered(r, op, arg)
  <2>1. PICK o \in Outcomes(f, op, arg) :
          /\ regs' = [regs EXCEPT ![r.line] = o.regs]
          /\ calm' = (calm /\ ~Trouble(r, o, op))
          /\ Yields(r, IF r.kind = "send" THEN "done" ELSE AckToBool(o.answer))
        BY <1>3 DEF Answered
  <2>2. /\ op = "read" => o.regs = f
        /\ op = "enable" /\ arg = FALSE => o.regs.on = FALSE /\ o.regs.rpm = 0
        /\ o.answer # <<0>> => AckToBool(o.answer) = "done"
        /\ AckToBool(o.answer) \in {"done", "refused"}
        BY <1>1, OffOutcomes
  <2>3. calm /\ (op # "protect" => AckToBool(o.answer) = "done")
        BY <2>1, <2>2 DEF Trouble
  <2>4. regs'[r.line] = o.regs /\ \A b \in Buses : b # r.line => regs'[b] = regs[b]
        BY <1>1, <2>1
  <2> HIDE DEF f, op
  <2>5. ~Protects(r) => (IF r.kind = "send" THEN "done" ELSE AckToBool(o.answer)) \notin r.bad
        BY <2>2, <2>3 DEF Protects, op
  <2>6. pc' \in {pc + 1, r.fail} /\ (r.bad = {} => pc' = pc + 1) /\ (~Protects(r) => pc' = pc + 1)
        BY <2>1, <2>5 DEF Yields
  <2>7. op = "read" => \A b \in Buses : regs'[b] = regs[b]
        BY <2>2, <2>4 DEF f
  <2>8. op = "enable" /\ arg = FALSE => Off(r.line)'
        BY <2>2, <2>4 DEF Off
  <2> QED BY <1>2, <2>3, <2>4, <2>6, <2>7, <2>8 DEF op
<1>4. CASE Unheard(r)
  <2>1. calm /\ regs' = regs /\ ~Hearing(r)
        BY <1>4 DEF Unheard, Smooth
  <2>2. pc' \in {pc + 1, r.fail} /\ (r.bad = {} => pc' = pc + 1)
        BY <1>4 DEF Unheard, Yields
  <2> QED BY <1>2, <2>1, <2>2
<1> QED BY <1>2, <1>3, <1>4 DEF Exchange

\* An inner row.
LEMMA CalmInner ==
    ASSUME Registers, NEW r, Inner(r), Step(r), ~Gone, calm',
           r.line \in Buses, r.kind \in Sending => r.op \in Calls /\ Fit(r.op, r.args),
           r.kind = "send" => r.op \notin Setters
    PROVE  /\ calm /\ UNCHANGED <<frame, port, found, run, baud>>
           /\ r.kind # "loop" => pc' \in {pc + 1, r.fail}
           /\ r.kind = "loop" => pc' = pc + 1 \/ \E k \in r.args : pc' = pc - k
           /\ r.bad = {} /\ r.kind # "loop" => pc' = pc + 1
           /\ r.kind \in Sending /\ Hearing(r) /\ ~Protects(r) => pc' = pc + 1
           /\ r.kind \in {"await", "note"} => pc' = pc + 1
           /\ r.kind = "needs" /\ good = TRUE => pc' = pc + 1
           /\ r.kind = "note" => good' = TRUE
           /\ good = TRUE => good' = TRUE
           /\ \A b \in Buses : b # r.line => regs'[b] = regs[b]
           /\ r.op = "read" => \A b \in Buses : regs'[b] = regs[b]
PROOF
<1>1. CASE r.kind \in Sending
  <2>1. PICK a \in r.args : Exchange(r, r.op, a)
        BY <1>1, RowActs
  <2>2. Possible(r, r.op, a)
        BY <1>1 DEF Possible, Fit, Sending
  <2>3. "done" \notin r.bad
        BY DEF Inner
  <2>4. /\ calm /\ UNCHANGED <<frame, port, locals, baud>>
        /\ pc' \in {pc + 1, r.fail}
        /\ r.bad = {} => pc' = pc + 1
        /\ Hearing(r) /\ ~Protects(r) => pc' = pc + 1
        /\ \A b \in Buses : b # r.line => regs'[b] = regs[b]
        /\ r.op = "read" => \A b \in Buses : regs'[b] = regs[b]
        BY <1>1, <2>1, <2>2, <2>3, CalmExchanges
  <2> QED BY <1>1, <2>4 DEF locals, Sending
<1>2. CASE r.kind = "await"
  <2>1. AwaitTarget(r) /\ "done" \notin r.bad
        BY <1>2, RowActs DEF Inner
  <2> QED BY <1>2, <2>1 DEF AwaitTarget, Smooth, Yields, locals, Sending
<1>3. CASE r.kind = "loop"
  <2>1. Iterate(r)
        BY <1>3, RowActs
  <2> QED BY <1>3, <2>1 DEF Iterate, Smooth, locals, Sending
<1>4. CASE r.kind = "note"
  <2>1. NoteGood(r)
        BY <1>4, RowActs
  <2> QED BY <1>4, <2>1 DEF NoteGood, Smooth, Passing, Sending
<1>5. CASE r.kind = "needs"
  <2>1. NeedGood(r) /\ "done" \notin r.bad
        BY <1>5, RowActs DEF Inner
  <2> QED BY <1>5, <2>1 DEF NeedGood, Smooth, Yields, locals, Sending
<1> QED BY <1>1, <1>2, <1>3, <1>4, <1>5 DEF Inner, Sending

\* The row that disables a motor.
LEMMA CalmDisables ==
    ASSUME Registers, NEW r, NEW b \in Buses, SwitchesOff(r, b), Step(r), ~Gone, calm',
           r.bad = {} \/ Hearing(r)
    PROVE  /\ calm /\ UNCHANGED <<frame, port, locals, baud>> /\ pc' = pc + 1
           /\ Hearing(r) => Off(b)'
           /\ \A c \in Buses : c # b => regs'[c] = regs[c]
PROOF
<1>1. PICK a \in r.args : Exchange(r, r.op, a)
      BY RowActs DEF SwitchesOff, Is, Sending
<1>2. r.kind \in Sending /\ r.op = "enable" /\ a = FALSE /\ r.line = b /\ "done" \notin r.bad /\ ~Protects(r)
      BY <1>1 DEF SwitchesOff, Is, Sending, Protects
<1>3. FALSE \in Fitting("enable")
      BY ArgumentsFit DEF Fit, Setters
<1>4. Possible(r, r.op, a)
      BY <1>2, <1>3 DEF Possible, Calls, Commands, Setters, SwitchesOff, Is
<1> QED BY <1>1, <1>2, <1>4, CalmExchanges

\* The row of a program and what it was made of.
Made(r, q) ==
    r.kind = q.kind /\ r.line = q.line /\ r.op = q.op /\ r.args = q.args /\ r.bad = q.bad

LEMMA RowsAreMade ==
    ASSUME NEW p \in DOMAIN Table, NEW i \in 1..Len(Table[p])
    PROVE  Made(Code[p][i], Table[p][i]) /\ Code[p][i].fail = Target(Table[p], i) /\ RowFits(Table[p][i])
PROOF
<1> DEFINE q == Table[p][i]
           t == Target(Table[p], i)
<1>1. RowFits(q)
      BY CodeIs DEF Sane, RowIsTame, RowIsWild, Wild, Plainly, Skips, Leaves, Loops
<1>2. Code[p][i] = [q EXCEPT !.fail = t]
      BY CodeIs
<1> HIDE DEF q, t
<1>3. [q EXCEPT !.fail = t] = Row(q.kind, q.line, q.op, q.args, q.bad, t)
      BY <1>1 DEF RowFits, Row
<1> QED BY <1>1, <1>2, <1>3 DEF Row, Made, q, t

\* A row and what it was made of satisfy the same predicates of rows.
LEMMA RowsAlike ==
    ASSUME NEW r, NEW q, Made(r, q)
    PROVE  /\ \A kind, b : Is(q, kind, b) => Is(r, kind, b)
           /\ \A from, to : Tells(q, from, to) => Tells(r, from, to)
           /\ \A b, rate : Opens(q, b, rate) => Opens(r, b, rate)
           /\ \A b, rate : Sounds(q, b, rate) => Sounds(r, b, rate)
           /\ \A b : SwitchesOff(q, b) => SwitchesOff(r, b)
           /\ Reads(q) => Reads(r)
           /\ Inner(q) => Inner(r)
           /\ Protects(q) <=> Protects(r)
PROOF BY DEF Made, Is, Tells, Opens, Sounds, SwitchesOff, Reads, Inner, Protects

\* What the step of a row is about: the row, in the program.
LEMMA RowOfStep ==
    ASSUME ProgramInv, pc # 0, Step(Code[program][pc]), ~Gone
    PROVE  LET n == Len(Table[program])
               r == Code[program][pc]
               q == Table[program][pc]
           IN /\ program \in DOMAIN Table /\ n \in Nat /\ pc \in 1..n
              /\ Made(r, q) /\ r.fail = Target(Table[program], pc)
              /\ r.line \in Buses /\ RowFits(q)
              /\ r.kind \in Sending => r.op \in Calls /\ Fit(r.op, r.args)
              /\ r.kind = "send" => r.op \notin Setters
PROOF
<1> DEFINE n == Len(Table[program])
           r == Code[program][pc]
<1>1. program \in DOMAIN Table /\ n \in Nat /\ pc \in 1..(n + 1) /\ InCode(r, pc, n)
      BY CodeRows DEF ProgramInv, Inside
<1>2. r.kind # "end"
      BY RowActs
<1>3. pc \in 1..n
      BY <1>1, <1>2 DEF InCode
<1> HIDE DEF n
<1> QED BY <1>1, <1>3, RowsAreMade DEF InCode, n

\* An inner row of line 1, when the motor is heard: the next row, or another of the part.
LEMMA InnerStays ==
    ASSUME ProgramInv, pc # 0, Step(Code[program][pc]), ~Gone, calm',
           NEW a \in Nat, NEW d \in Nat, Within(Table[program], a, d), pc \in a..(d - 1),
           Code[program][pc].kind \in Sending => Hearing(Code[program][pc]),
           Code[program][pc].kind = "needs" => good = TRUE \/ Target(Table[program], pc) \in a..d
    PROVE  /\ calm /\ UNCHANGED <<frame, port, found, run, baud>>
           /\ pc' \in a..d
           /\ good = TRUE => good' = TRUE
PROOF
<1> DEFINE r == Code[program][pc]
           rows == Table[program]
           q == rows[pc]
<1>1. /\ Made(r, q) /\ r.fail = Target(rows, pc) /\ r.line \in Buses
      /\ r.kind \in Sending => r.op \in Calls /\ Fit(r.op, r.args)
      /\ r.kind = "send" => r.op \notin Setters
      BY RowOfStep
<1>2. Inner(q) /\ LoopsBack(q, pc, a) /\ (Protects(q) => Target(rows, pc) \in a..d)
      BY DEF Within
<1>3. Inner(r) /\ (Protects(r) <=> Protects(q)) /\ (r.kind = "loop" => \E k \in Nat : r.args = {k} /\ a <= pc - k)
      BY <1>1, <1>2, RowsAlike DEF Made, LoopsBack
<1>4. Registers /\ Step(r) /\ (r.kind \in Sending => Hearing(r)) /\ (r.kind = "needs" => good = TRUE \/ r.fail \in a..d)
      BY <1>1 DEF ProgramInv
<1> HIDE DEF r, q, rows
<1>5. /\ calm /\ UNCHANGED <<frame, port, found, run, baud>>
      /\ r.kind # "loop" => pc' \in {pc + 1, r.fail}
      /\ r.kind = "loop" => pc' = pc + 1 \/ \E k \in r.args : pc' = pc - k
      /\ r.kind \in Sending /\ Hearing(r) /\ ~Protects(r) => pc' = pc + 1
      /\ r.kind \in {"await", "note"} => pc' = pc + 1
      /\ r.kind = "needs" /\ good = TRUE => pc' = pc + 1
      /\ good = TRUE => good' = TRUE
      BY <1>1, <1>3, <1>4, CalmInner
<1>6. pc + 1 \in a..d /\ pc \in Nat
      OBVIOUS
<1>7. CASE r.kind = "loop"
  <2>1. PICK k \in Nat : r.args = {k} /\ a <= pc - k
        BY <1>3, <1>7
  <2>2. pc - k \in a..d
        BY <1>6, <2>1
  <2> QED BY <1>5, <1>6, <1>7, <2>1, <2>2
<1>8. CASE Protects(r)
  <2>1. r.kind # "loop" /\ r.fail \in a..d
        BY <1>1, <1>2, <1>3, <1>8 DEF Protects, Sending
  <2> QED BY <1>5, <1>6, <2>1
<1>9. CASE r.kind = "needs" /\ r.fail \in a..d
      BY <1>5, <1>6, <1>9
<1>10. CASE r.kind \in {"await", "note"} \/ (r.kind \in Sending /\ ~Protects(r)) \/ (r.kind = "needs" /\ good = TRUE)
      BY <1>4, <1>5, <1>6, <1>10
<1> QED BY <1>3, <1>4, <1>7, <1>8, <1>9, <1>10 DEF Inner, Sending

\* A program that switches the line without looking stays on its landmarks.
LEMMA BlindStep ==
    ASSUME ProgramInv, RateInv, pc # 0, Step(Code[program][pc]), ~Gone, calm', addr[1] = 1, honours[1],
           NEW d \in 3..(Len(Table[program]) - 2), BlindRows(Table[program], d), BlindAt(d),
           Table[program][pc].kind = "needs" => program = "hil_drain_timing" /\ pc = 10,
           program = "hil_drain_timing" /\ pc' \in {9, 10} => good' = TRUE
    PROVE  BlindAt(d)' /\ calm
PROOF
<1> DEFINE n == Len(Table[program])
           rows == Table[program]
           q == rows[pc]
           r == Code[program][pc]
<1>1. /\ n \in Nat /\ pc \in 1..n /\ Made(r, q) /\ r.fail = Target(rows, pc) /\ r.line \in Buses
      BY RowOfStep
<1>2. d \in Nat /\ d >= 3 /\ d + 2 <= n /\ 1 \in Buses
      BY <1>1, BusesType
<1>3. Step(r) /\ Registers
      BY DEF ProgramInv
<1>4. CASE pc \in {1, d + 2}
  <2>1. PICK from \in {Low, High}, to \in {Low, High} : Tells(q, from, to) /\ (pc = 1 => to = High) /\ (pc # 1 => to = Low)
                                                     /\ from # to
        BY <1>2, <1>4 DEF BlindRows, Low, High
  <2>2. Tells(r, from, to)
        BY <1>1, <2>1, RowsAlike
  <2> HIDE DEF r, q
  <2>3. TellBaud(r) /\ r.op = from /\ r.args = {to} /\ r.line = 1 /\ "done" \notin r.bad
        BY <1>3, <2>2, RowActs DEF Tells, Is
  <2>4. /\ calm /\ pc' = pc + 1 /\ UNCHANGED <<frame, port, locals, regs>>
        /\ baud' = IF baud[r.line] = r.op /\ addr[r.line] = 1 /\ honours[r.line]
                     THEN [baud EXCEPT ![r.line] = to] ELSE baud
        BY <2>3, CalmTells, Zenon
  <2>5. baud' = IF baud[1] = from THEN [baud EXCEPT ![1] = to] ELSE baud
        BY <2>3, <2>4
  <2>6. baud'[1] = to
        BY <1>2, <2>1, <2>5 DEF RateInv, Buslike, Rates
  <2> HIDE DEF n, rows
  <2> QED BY <1>1, <1>2, <1>4, <2>1, <2>4, <2>6 DEF BlindAt, frame, locals, Off
<1>5. CASE pc \in {2, d + 3} /\ pc # d + 2
  <2>1. PICK rate \in {Low, High} : Opens(q, 1, rate) /\ (pc = 2 => rate = High) /\ (pc # 2 => rate = Low)
        BY <1>1, <1>2, <1>5 DEF BlindRows
  <2>2. Opens(r, 1, rate)
        BY <1>1, <2>1, RowsAlike
  <2> HIDE DEF r, q
  <2>3. OpenPort(r) /\ r.args = {rate} /\ r.line = 1 /\ "done" \notin r.bad /\ rate # NoBaud
        BY <1>3, <2>2, RowActs DEF Opens, Is, Low, High, NoBaud
  <2>4. /\ calm /\ pc' = pc + 1 /\ UNCHANGED <<frame, locals, regs, baud>>
        /\ port' = [port EXCEPT ![r.line] = IF rate = NoBaud THEN run[r.line] ELSE rate]
        BY <2>3, CalmOpens, Zenon
  <2>5. port'[1] = rate
        BY <1>2, <2>3, <2>4 DEF RateInv, Buslike
  <2> HIDE DEF n, rows
  <2> QED BY <1>1, <1>2, <1>5, <2>1, <2>4, <2>5 DEF BlindAt, frame, locals, Off
<1>6. CASE pc \in 3..(d - 1)
  <2>1. Within(rows, 3, d) /\ q.line = 1
        BY <1>6 DEF BlindRows, OnLineOne
  <2>2. Hearing(r)
        BY <1>1, <1>2, <1>6, <2>1 DEF BlindAt, Hearing, Hears, Made, High, NoBaud
  <2>3. r.kind = "needs" => good = TRUE
        BY <1>1 DEF Made, BlindAt
  <2>4. calm /\ UNCHANGED <<frame, port, found, run, baud>> /\ pc' \in 3..d
        BY <1>2, <1>6, <2>1, <2>2, <2>3, InnerStays
  <2> HIDE DEF n, rows, r, q
  <2> QED BY <1>1, <1>2, <1>6, <2>4 DEF BlindAt, frame
<1>7. CASE pc = d
  <2>1. SwitchesOff(r, 1)
        BY <1>1, <1>7, RowsAlike DEF BlindRows
  <2>2. Hearing(r)
        BY <1>1, <1>2, <1>7, <2>1 DEF BlindAt, Hearing, Hears, SwitchesOff, Is, High, NoBaud
  <2> HIDE DEF n, rows, r, q
  <2>3. calm /\ UNCHANGED <<frame, port, locals, baud>> /\ pc' = pc + 1 /\ Off(1)'
        BY <1>2, <1>3, <2>1, <2>2, CalmDisables
  <2> QED BY <1>2, <1>7, <2>3 DEF BlindAt, frame, locals
<1>8. CASE pc = d + 1
  <2>1. Is(r, "close", 1)
        BY <1>1, <1>8, RowsAlike DEF BlindRows
  <2> HIDE DEF n, rows, r, q
  <2>2. /\ calm /\ pc' = pc + 1 /\ UNCHANGED <<frame, locals, regs, baud>> /\ port' = [port EXCEPT ![1] = NoBaud]
        BY <1>3, <2>1, RowActs, CalmCloses DEF Is
  <2>3. port'[1] = NoBaud
        BY <1>2, <2>2 DEF RateInv, Buslike
  <2> QED BY <1>2, <1>8, <2>2, <2>3 DEF BlindAt, frame, locals, Off
<1>9. CASE pc = d + 4
  <2>1. Reads(r)
        BY <1>1, <1>9, RowsAlike DEF BlindRows
  <2>2. Inner(r) /\ r.line = 1 /\ r.op = "read" /\ r.kind = "call" /\ ~Protects(r)
        BY <2>1 DEF Reads, Is, Inner, Protects
  <2>3. Hearing(r)
        BY <1>1, <1>2, <1>9, <2>2 DEF BlindAt, Hearing, Hears, Low, NoBaud
  <2>4. Fit(r.op, r.args) /\ r.op \in Calls
        BY <2>2 DEF Fit, Setters, Calls, Commands
  <2> HIDE DEF n, rows, r, q
  <2>5. calm /\ UNCHANGED <<frame, port, found, run, baud>> /\ pc' = pc + 1 /\ regs'[1] = regs[1]
        BY <1>1, <1>2, <1>3, <2>2, <2>3, <2>4, CalmInner DEF Sending
  <2> QED BY <1>2, <1>9, <2>5 DEF BlindAt, frame, Off
<1>10. pc \in {1, 2, d, d + 1, d + 2, d + 3, d + 4} \cup 3..(d - 1)
  <2>1. n \in {d + 2, d + 4}
        BY DEF BlindRows
  <2> HIDE DEF n
  <2> QED BY <1>1, <1>2, <2>1
<1> QED BY <1>4, <1>5, <1>6, <1>7, <1>8, <1>9, <1>10

\* hil_drain_timing has a good iteration before it needs one.
DrainRows(rows) ==
    /\ Len(rows) = 13
    /\ \A i \in {1, 2, 3, 4, 11, 12, 13} : rows[i].kind # "loop" /\ Target(rows, i) \in {i + 1, 14}
    /\ \A i \in 5..7 : Inner(rows[i]) /\ rows[i].line = 1 /\ rows[i].kind \in {"call", "await"} /\ rows[i].op # "protect"
    /\ rows[8].kind = "note" /\ rows[8].bad = {}
    /\ rows[9].kind = "loop" /\ rows[9].bad = {}
    /\ rows[10].kind = "needs" /\ "done" \notin rows[10].bad /\ Target(rows, 10) = 14

\* A row that does not end the program leaves it under way.
LEMMA StepGoes ==
    ASSUME NEW r, Step(r), ~Gone, r.kind # "any"
    PROVE  Goes(r) /\ (r.kind # "loop" => pc' \in {pc + 1, r.fail})
PROOF
<1>1. r.kind \in {"call", "send"} /\ (\E a \in r.args : Exchange(r, r.op, a)) => Goes(r)
      BY RowsGo
<1>2. Line(r) \/ AwaitTarget(r) \/ Iterate(r) \/ NoteGood(r) \/ NeedGood(r) => Goes(r)
      BY RowsGo DEF Line
<1> QED BY <1>1, <1>2 DEF Step, Returns, Crash, Goes

\* hil_drain_timing reaches the row that needs a good iteration with one.
LEMMA DrainIsGood ==
    ASSUME ProgramInv, pc # 0, Step(Code[program][pc]), ~Gone, calm', addr[1] = 1,
           DrainRows(Table[program]), program = "hil_drain_timing", pc' \in {9, 10},
           NEW d \in 3..(Len(Table[program]) - 2), BlindRows(Table[program], d), BlindAt(d)
    PROVE  good' = TRUE
PROOF
<1> DEFINE rows == Table[program]
           q == rows[pc]
           r == Code[program][pc]
<1>1. /\ pc \in 1..13 /\ Made(r, q) /\ r.fail = Target(rows, pc) /\ r.line \in Buses
      /\ r.kind \in Sending => r.op \in Calls /\ Fit(r.op, r.args)
      /\ r.kind = "send" => r.op \notin Setters
      BY RowOfStep DEF DrainRows
<1>2. Step(r) /\ Registers
      BY DEF ProgramInv
<1>3. d = 11
  <2>1. d \in {11, 9} /\ d \in Nat
        BY DEF DrainRows, BlindRows
  <2>2. rows[d].kind = "call" /\ rows[9].kind = "loop"
        BY DEF DrainRows, BlindRows, SwitchesOff, Is
  <2> QED BY <2>1, <2>2
<1>4. CASE pc \in {1, 2, 3, 4, 11, 12, 13}
  <2>1. r.kind # "loop" /\ r.fail \in {pc + 1, 14} /\ r.kind # "any"
    <3>1. q.kind # "any"
      <4>1. CASE pc \in {3, 4}
        <5>1. pc \in 3..(d - 1)
              BY <1>3, <4>1
        <5>2. Inner(q)
              BY <5>1 DEF BlindRows, Within
        <5> QED BY <5>2 DEF Inner
      <4>2. CASE pc \in {1, 2, 11, 12, 13}
            BY <1>3, <4>2 DEF BlindRows, Tells, Opens, Is, SwitchesOff
      <4> QED BY <1>4, <4>1, <4>2
    <3> QED BY <1>1, <1>4, <3>1 DEF DrainRows, Made
  <2>2. pc' \in {pc + 1, r.fail}
        BY <1>2, <2>1, StepGoes
  <2> QED BY <1>4, <2>1, <2>2
<1>5. CASE pc \in 5..7
  <2>1. Inner(q) /\ q.line = 1 /\ q.kind \in {"call", "await"} /\ q.op # "protect"
        BY <1>5 DEF DrainRows
  <2>2. Inner(r) /\ r.line = 1 /\ r.kind \in {"call", "await"} /\ ~Protects(r)
        BY <1>1, <2>1, RowsAlike DEF Made, Protects
  <2>3. Hearing(r)
        BY <1>3, <1>5, <2>2 DEF BlindAt, Hearing, Hears, High, NoBaud
  <2> HIDE DEF r, q, rows
  <2>4. pc' = pc + 1
        BY <1>1, <1>2, <2>2, <2>3, CalmInner DEF Sending
  <2> QED BY <1>5, <2>4
<1>6. CASE pc \in {8, 9}
  <2>1. Inner(r) /\ (pc = 8 => r.kind = "note")
        BY <1>1, <1>6 DEF DrainRows, Inner, Made
  <2>2. pc = 9 => good = TRUE
        BY <1>3 DEF BlindAt
  <2> HIDE DEF r, q, rows
  <2> QED BY <1>1, <1>2, <1>6, <2>1, <2>2, CalmInner
<1>7. CASE pc = 10
  <2>1. Inner(r) /\ r.kind = "needs" /\ r.fail = 14
        BY <1>1, <1>7 DEF DrainRows, Inner, Made
  <2> HIDE DEF r, q, rows
  <2>2. pc' \in {pc + 1, r.fail}
        BY <1>1, <1>2, <2>1, CalmInner
  <2> QED BY <1>7, <2>1, <2>2
<1>8. pc \in {1, 2, 3, 4, 11, 12, 13} \/ pc \in 5..7 \/ pc \in {8, 9} \/ pc = 10
      BY <1>1
<1> HIDE DEF r, q, rows
<1> QED BY <1>4, <1>5, <1>6, <1>7, <1>8

\* A program that looks for its motor stays on its landmarks.
LEMMA ScanStep ==
    ASSUME ProgramInv, RateInv, pc # 0, Step(Code[program][pc]), ~Gone, calm', addr[1] = 1, honours[1],
           NEW o \in 5..Len(Table[program]), NEW d \in 5..Len(Table[program]), o < d,
           ScanRows(Table[program], o, d), ScanAt(o, d)
    PROVE  ScanAt(o, d)' /\ calm
PROOF
<1> DEFINE n == Len(Table[program])
           rows == Table[program]
           q == rows[pc]
           r == Code[program][pc]
<1>1. /\ n \in Nat /\ pc \in 1..n /\ Made(r, q) /\ r.fail = Target(rows, pc) /\ r.line \in Buses
      BY RowOfStep
<1>2. o \in Nat /\ d \in Nat /\ 5 <= o /\ o < d /\ d <= n /\ 1 \in Buses
      BY <1>1, BusesType
<1>3. Step(r) /\ Registers
      BY DEF ProgramInv
<1>4. Was(1) \in {Low, High} /\ Low # High /\ NoBaud # Low /\ NoBaud # High
      BY <1>2 DEF RateInv, Rates, Was, Low, High, NoBaud
<1>5. CASE pc \in {1, 2}
  <2>1. PICK rate : Sounds(q, 1, rate) /\ (pc = 1 => rate = High) /\ (pc = 2 => rate = Low)
        BY <1>5 DEF ScanRows
  <2>2. Sounds(r, 1, rate)
        BY <1>1, <2>1, RowsAlike
  <2> HIDE DEF r, q
  <2>3. SoundBaud(r) /\ r.args = {rate} /\ r.line = 1
        BY <1>3, <2>2, RowActs DEF Sounds, Is
  <2>4. /\ calm /\ pc' = pc + 1 /\ UNCHANGED <<frame, port, good, regs, baud>>
        /\ IF found[r.line] = NoBaud /\ Hears(r.line, rate)
             THEN found' = [found EXCEPT ![r.line] = rate] /\ run' = found'
             ELSE UNCHANGED <<found, run>>
        BY <2>3, CalmSounds, Zenon
  <2>5. /\ found[1] = NoBaud /\ rate = Was(1) => found'[1] = rate /\ run'[1] = rate
        /\ ~(found[1] = NoBaud /\ rate = Was(1)) => found'[1] = found[1] /\ run'[1] = run[1]
        BY <1>2, <1>5, <2>3, <2>4 DEF RateInv, Buslike, ScanAt, Hears
  <2> HIDE DEF n, rows
  <2>6. CASE pc = 1
        BY <1>2, <1>4, <2>1, <2>4, <2>5, <2>6 DEF ScanAt, frame, Was
  <2>7. CASE pc = 2
        BY <1>2, <1>4, <2>1, <2>4, <2>5, <2>7 DEF ScanAt, frame, Was
  <2> QED BY <1>5, <2>6, <2>7
<1>6. CASE pc = 3
  <2>1. Finds(q, 1)
        BY <1>6 DEF ScanRows
  <2>2. Is(r, "found", 1)
        BY <1>1, <2>1, RowsAlike DEF Finds
  <2> HIDE DEF r, q, n, rows
  <2>3. calm /\ pc' = pc + 1 /\ UNCHANGED <<frame, port, locals, regs, baud>>
        BY <1>3, <2>2, RowActs, CalmFinds DEF Is
  <2> QED BY <1>2, <1>4, <1>6, <2>3 DEF ScanAt, frame, locals, Was
<1>7. CASE pc = 4
  <2>1. Is(r, "switch", 1)
        BY <1>1, <1>7, RowsAlike DEF ScanRows
  <2> HIDE DEF r, q, n, rows
  <2>2. SwitchBaud(r) /\ r.line = 1 /\ "done" \notin r.bad
        BY <1>3, <2>1, RowActs DEF Is
  <2>3. /\ calm /\ pc' = pc + 1 /\ UNCHANGED <<frame, port, found, good, regs>>
        /\ found[r.line] = High => UNCHANGED <<baud, run>>
        /\ found[r.line] # High =>
             /\ run' = [run EXCEPT ![r.line] = High]
             /\ baud' = IF baud[r.line] = found[r.line] /\ addr[r.line] = 1 /\ honours[r.line]
                          THEN [baud EXCEPT ![r.line] = High] ELSE baud
        BY <2>2, CalmSwitches, Zenon
  <2>4. found[1] = Was(1) /\ baud[1] = Was(1) /\ run[1] = found[1]
        BY <1>7 DEF ScanAt
  <2>5. baud'[1] = High /\ run'[1] = High
        BY <1>2, <1>4, <2>2, <2>3, <2>4 DEF RateInv, Buslike
  <2> QED BY <1>2, <1>4, <1>7, <2>3, <2>4, <2>5 DEF ScanAt, frame, Was
<1>8. CASE pc \in 5..(o - 1)
  <2>1. Is(r, "verify", 1) \/ Is(r, "recheck", 1)
        BY <1>1, <1>8, RowsAlike DEF ScanRows
  <2> HIDE DEF r, q, n, rows
  <2>2. run[1] = High /\ Hears(1, High)
        BY <1>2, <1>8 DEF ScanAt, Hears
  <2>3. calm /\ pc' = pc + 1 /\ UNCHANGED <<frame, port, locals, regs, baud>>
        BY <1>3, <2>1, <2>2, RowActs, CalmVerifies DEF Is
  <2> QED BY <1>2, <1>4, <1>8, <2>3 DEF ScanAt, frame, locals, Was
<1>9. CASE pc = o
  <2>1. PICK rate \in {High, NoBaud} : Opens(q, 1, rate)
        BY <1>9 DEF ScanRows
  <2>2. Opens(r, 1, rate)
        BY <1>1, <2>1, RowsAlike
  <2> HIDE DEF r, q, n, rows
  <2>3. OpenPort(r) /\ r.args = {rate} /\ r.line = 1 /\ "done" \notin r.bad
        BY <1>3, <2>2, RowActs DEF Opens, Is
  <2>4. /\ calm /\ pc' = pc + 1 /\ UNCHANGED <<frame, locals, regs, baud>>
        /\ port' = [port EXCEPT ![r.line] = IF rate = NoBaud THEN run[r.line] ELSE rate]
        BY <2>3, CalmOpens, Zenon
  <2>5. port'[1] = High
        BY <1>2, <1>9, <2>3, <2>4 DEF RateInv, Buslike, ScanAt
  <2> QED BY <1>2, <1>4, <1>9, <2>4, <2>5 DEF ScanAt, frame, locals, Was
<1>10. CASE pc \in (o + 1)..(d - 1)
  <2>1. Within(rows, o + 1, d) /\ q.line = 1 /\ (q.kind = "needs" => d = n /\ q.fail = "off")
        BY <1>10 DEF ScanRows, OnLineOne
  <2>2. Hearing(r)
        BY <1>1, <1>2, <1>10, <2>1 DEF ScanAt, Hearing, Hears, Made, High, NoBaud
  <2>3. r.kind = "needs" => Target(rows, pc) \in (o + 1)..d
    <3>1. q.fail = "off" => Target(rows, pc) = n
          BY DEF Target
    <3> HIDE DEF n, q
    <3> QED BY <1>1, <1>2, <2>1, <3>1 DEF Made
  <2>4. calm /\ UNCHANGED <<frame, port, found, run, baud>> /\ pc' \in (o + 1)..d
    <3>1. o + 1 \in Nat
          BY <1>2
    <3> QED BY <1>2, <1>10, <2>1, <2>2, <2>3, <3>1, InnerStays
  <2> HIDE DEF n, rows, r, q
  <2> QED BY <1>1, <1>2, <1>10, <2>4 DEF ScanAt, frame, Was
<1>11. CASE pc = d
  <2>1. SwitchesOff(r, 1)
        BY <1>1, <1>11, RowsAlike DEF ScanRows
  <2>2. Hearing(r)
        BY <1>1, <1>2, <1>11, <2>1 DEF ScanAt, Hearing, Hears, SwitchesOff, Is, High, NoBaud
  <2> HIDE DEF n, rows, r, q
  <2>3. calm /\ UNCHANGED <<frame, port, locals, baud>> /\ pc' = pc + 1 /\ Off(1)'
        BY <1>2, <1>3, <2>1, <2>2, CalmDisables
  <2> QED BY <1>2, <1>11, <2>3 DEF ScanAt, frame, locals, Was
<1>12. CASE pc = d + 1
  <2>1. Is(r, "close", 1)
        BY <1>1, <1>2, <1>12, RowsAlike DEF ScanRows
  <2> HIDE DEF n, rows, r, q
  <2>2. /\ calm /\ pc' = pc + 1 /\ UNCHANGED <<frame, locals, regs, baud>> /\ port' = [port EXCEPT ![1] = NoBaud]
        BY <1>3, <2>1, RowActs, CalmCloses DEF Is
  <2>3. port'[1] = NoBaud
        BY <1>2, <2>2 DEF RateInv, Buslike
  <2> QED BY <1>2, <1>12, <2>2, <2>3 DEF ScanAt, frame, locals, Off, Was
<1>13. CASE pc = d + 2
  <2>1. Is(r, "back", 1)
        BY <1>1, <1>2, <1>13, RowsAlike DEF ScanRows
  <2> HIDE DEF n, rows, r, q
  <2>2. BackBaud(r) /\ r.line = 1 /\ "done" \notin r.bad
        BY <1>3, <2>1, RowActs DEF Is
  <2>3. /\ calm /\ pc' = pc + 1 /\ UNCHANGED <<frame, port, locals, regs>>
        /\ found[r.line] = run[r.line] => baud' = baud
        /\ found[r.line] # run[r.line] =>
             baud' = IF baud[r.line] = run[r.line] /\ addr[r.line] = 1 /\ honours[r.line]
                       THEN [baud EXCEPT ![r.line] = found[r.line]] ELSE baud
        BY <2>2, CalmSwitchesBack, Zenon
  <2>4. found[1] = Was(1) /\ baud[1] = High /\ run[1] = High
        BY <1>2, <1>13 DEF ScanAt
  <2>5. baud'[1] = Was(1)
        BY <1>2, <1>4, <2>2, <2>3, <2>4 DEF RateInv, Buslike
  <2> QED BY <1>2, <1>13, <2>3, <2>4, <2>5 DEF ScanAt, frame, locals, Off, Was
<1>14. CASE pc = d + 3
  <2>1. Is(r, "return", 1)
        BY <1>1, <1>2, <1>14, RowsAlike DEF ScanRows
  <2> QED BY <1>3, <2>1, RowActs DEF Is
<1>15. pc \in {1, 2, 3, 4, o, d, d + 1, d + 2, d + 3} \cup 5..(o - 1) \cup (o + 1)..(d - 1)
  <2>1. pc <= d + 3 /\ pc \in Nat /\ pc >= 1
        BY <1>1 DEF ScanAt
  <2> HIDE DEF n
  <2>2. CASE pc < o
        BY <1>2, <2>1, <2>2
  <2>3. CASE pc >= o
        BY <1>2, <2>1, <2>3
  <2> QED BY <1>2, <2>1, <2>2, <2>3
<1> QED BY <1>5, <1>6, <1>7, <1>8, <1>9, <1>10, <1>11, <1>12, <1>13, <1>14, <1>15

\* So does a program of the scheduler, on each line whose motor listens at the high rate.
LEMMA FleetStep ==
    ASSUME ProgramInv, RateInv, pc # 0, Step(Code[program][pc]), ~Gone, calm',
           NEW d \in Lines..Len(Table[program]), FleetRows(Table[program], d),
           NEW b \in Buses, addr[b] = 1, FleetAt(b, d)
    PROVE  FleetAt(b, d)' /\ calm
PROOF
<1> DEFINE n == Len(Table[program])
           rows == Table[program]
           q == rows[pc]
           r == Code[program][pc]
<1>1. /\ n \in Nat /\ pc \in 1..n /\ Made(r, q) /\ r.fail = Target(rows, pc) /\ r.line \in Buses
      /\ r.kind \in Sending => r.op \in Calls /\ Fit(r.op, r.args)
      /\ r.kind = "send" => r.op \notin Setters
      BY RowOfStep
<1>2. /\ Lines \in Nat /\ 2 <= Lines /\ Lines <= d /\ d \in Nat /\ n = d + Lines /\ b \in 1..Lines
      /\ Buses = 1..Lines
      BY <1>1, LinesAssumption DEF FleetRows, Buses
<1>3. Step(r) /\ Registers
      BY DEF ProgramInv
<1>4. CASE pc \in 1..Lines
  <2>1. Opens(q, pc, High)
        BY <1>4, <1>2 DEF FleetRows
  <2>2. Opens(r, pc, High)
        BY <1>1, <2>1, RowsAlike
  <2> HIDE DEF r, q, rows, n
  <2>3. OpenPort(r) /\ r.args = {High} /\ r.line = pc /\ "done" \notin r.bad
        BY <1>3, <2>2, RowActs DEF Opens, Is
  <2>4. /\ calm /\ pc' = pc + 1 /\ UNCHANGED <<frame, locals, regs, baud>>
        /\ port' = [port EXCEPT ![r.line] = IF High = NoBaud THEN run[r.line] ELSE High]
        BY <2>3, CalmOpens, Zenon
  <2>5. port'[b] = IF b = pc THEN High ELSE port[b]
        BY <1>2, <2>3, <2>4 DEF RateInv, Buslike, High, NoBaud
  <2>6. (pc + 1 > d + b) = FALSE
        BY <1>2, <1>4
  <2> QED BY <1>2, <1>4, <2>4, <2>5, <2>6 DEF FleetAt, frame, locals
<1>5. CASE pc \in (Lines + 1)..d
  <2>1. /\ Inner(q) /\ LoopsBack(q, pc, Lines + 1) /\ q.bad = {} /\ q.kind \in {"call", "loop"}
    <3>1. pc \in (Lines + 1)..(d + 1 - 1)
          BY <1>2, <1>5
    <3> QED BY <1>5, <3>1 DEF FleetRows, Within
  <2>2. Inner(r) /\ r.bad = {} /\ (r.kind = "loop" => \E k \in Nat : r.args = {k} /\ Lines + 1 <= pc - k)
        BY <1>1, <2>1, RowsAlike DEF Made, LoopsBack
  <2> HIDE DEF r, q, rows, n
  <2>3. /\ calm /\ UNCHANGED <<frame, port, found, run, baud>>
        /\ r.kind = "loop" => pc' = pc + 1 \/ \E k \in r.args : pc' = pc - k
        /\ r.kind # "loop" => pc' = pc + 1
        BY <1>1, <1>3, <2>2, CalmInner
  <2>4. pc' \in (Lines + 1)..(d + 1)
    <3>1. CASE pc' = pc + 1
          BY <1>2, <1>5, <3>1
    <3>2. CASE r.kind = "loop" /\ \E k \in r.args : pc' = pc - k
      <4>1. PICK k \in Nat : r.args = {k} /\ Lines + 1 <= pc - k
            BY <2>2, <3>2
      <4>2. pc' = pc - k
            BY <3>2, <4>1
      <4> QED BY <1>2, <1>5, <4>1, <4>2
    <3> QED BY <2>3, <3>1, <3>2
  <2> QED BY <1>2, <1>5, <2>3, <2>4 DEF FleetAt, frame
<1>6. ASSUME NEW c \in Buses, pc = d + c PROVE FleetAt(b, d)' /\ calm
  <2>1. SwitchesOff(r, c) /\ r.bad = {}
        BY <1>1, <1>6, RowsAlike DEF FleetRows, Made
  <2> HIDE DEF r, q, rows, n
  <2>2. r.line = c
        BY <2>1 DEF SwitchesOff, Is
  <2>3. /\ calm /\ UNCHANGED <<frame, port, locals, baud>> /\ pc' = pc + 1
        /\ Hearing(r) => Off(c)'
        /\ \A e \in Buses : e # c => regs'[e] = regs[e]
        BY <1>3, <1>6, <2>1, CalmDisables
  <2>4. c = b => Hearing(r)
        BY <1>2, <1>6, <2>2 DEF Hearing, Hears, FleetAt, High, NoBaud
  <2>5. pc > b /\ pc + 1 > b /\ (pc + 1 > d + b => c = b \/ pc > d + b)
        BY <1>2, <1>6
  <2>6. Off(b) /\ c # b => Off(b)'
        BY <2>3 DEF Off
  <2>7. ASSUME pc + 1 > d + b PROVE Off(b)'
    <3>1. CASE c = b
          BY <2>3, <2>4, <3>1
    <3>2. CASE c # b
      <4>1. Off(b)
            BY <2>5, <2>7, <3>2 DEF FleetAt
      <4> QED BY <2>6, <3>2, <4>1
    <3> QED BY <3>1, <3>2
  <2>8. port[b] = High /\ baud[b] = High
        BY <2>5 DEF FleetAt
  <2>9. (pc + 1 <= b) = FALSE
        BY <1>2, <1>6
  <2> QED BY <2>3, <2>7, <2>8, <2>9 DEF FleetAt, frame, locals
<1>7. pc \in 1..Lines \/ pc \in (Lines + 1)..d \/ \E c \in Buses : pc = d + c
  <2>1. pc > d => pc - d \in Buses /\ pc = d + (pc - d)
        BY <1>1, <1>2
  <2> HIDE DEF n
  <2> QED BY <1>1, <1>2, <2>1
<1> QED BY <1>4, <1>5, <1>6, <1>7

\* So does move_quarter_turn, with a motor that listens at the low rate.
LEMMA QuarterStep ==
    ASSUME ProgramInv, RateInv, pc # 0, Step(Code[program][pc]), ~Gone, calm',
           QuarterRows(Table[program]), addr[1] = 1, QuarterAt
    PROVE  QuarterAt' /\ calm
PROOF
<1> DEFINE rows == Table[program]
           q == rows[pc]
           r == Code[program][pc]
<1>1. /\ pc \in 1..7 /\ Made(r, q) /\ r.fail = Target(rows, pc) /\ r.line \in Buses
      BY RowOfStep DEF QuarterRows
<1>2. 1 \in Buses
      BY BusesType
<1>3. Step(r) /\ Registers
      BY DEF ProgramInv
<1>4. CASE pc = 1
  <2>1. Opens(r, 1, Low)
        BY <1>1, <1>4, RowsAlike DEF QuarterRows
  <2> HIDE DEF r, q, rows
  <2>3. OpenPort(r) /\ r.args = {Low} /\ r.line = 1 /\ "done" \notin r.bad
        BY <1>3, <2>1, RowActs DEF Opens, Is
  <2>4. /\ calm /\ pc' = pc + 1 /\ UNCHANGED <<frame, locals, regs, baud>>
        /\ port' = [port EXCEPT ![r.line] = IF Low = NoBaud THEN run[r.line] ELSE Low]
        BY <2>3, CalmOpens, Zenon
  <2>5. port'[1] = Low
        BY <1>2, <2>3, <2>4 DEF RateInv, Buslike, Low, NoBaud
  <2> QED BY <1>4, <2>4, <2>5 DEF QuarterAt, frame, locals
<1>5. CASE pc \in 2..6
  <2>1. Within(rows, 2, 7) /\ q.line = 1 /\ q.kind # "needs" /\ pc \in 2..(7 - 1)
        BY <1>5 DEF QuarterRows, OnLineOne
  <2>2. Hearing(r)
        BY <1>1, <1>5, <2>1 DEF QuarterAt, Hearing, Hears, Made, Low, NoBaud
  <2>3. r.kind # "needs"
        BY <1>1, <2>1 DEF Made
  <2>4. calm /\ UNCHANGED <<frame, port, found, run, baud>> /\ pc' \in 2..7
        BY <2>1, <2>2, <2>3, InnerStays
  <2> HIDE DEF rows, r, q
  <2> QED BY <1>5, <2>4 DEF QuarterAt, frame
<1>6. CASE pc = 7
  <2>1. SwitchesOff(r, 1)
        BY <1>1, <1>6, RowsAlike DEF QuarterRows
  <2>2. Hearing(r)
        BY <1>6, <2>1 DEF QuarterAt, Hearing, Hears, SwitchesOff, Is, Low, NoBaud
  <2> HIDE DEF rows, r, q
  <2>3. calm /\ UNCHANGED <<frame, port, locals, baud>> /\ pc' = pc + 1 /\ Off(1)'
        BY <1>2, <1>3, <2>1, <2>2, CalmDisables
  <2> QED BY <1>6, <2>3 DEF QuarterAt, frame, locals
<1> QED BY <1>1, <1>4, <1>5, <1>6

PairInv == (pc > 5 => addr[1] = 1) /\ \A b \in {1, 2} : addr[b] = 1 => PairAt(b)

\* So does hil_motor_group_n2, on each line whose motor is there.
LEMMA PairStep ==
    ASSUME ProgramInv, RateInv, pc # 0, Step(Code[program][pc]), ~Gone, calm',
           PairRows(Table[program]), program = Pair, PairInv
    PROVE  PairInv' /\ calm
PROOF
<1> DEFINE rows == Table[program]
           q == rows[pc]
           r == Code[program][pc]
<1>1. /\ pc \in 1..19 /\ Made(r, q) /\ r.fail = Target(rows, pc) /\ r.line \in Buses
      /\ r.kind \in Sending => r.op \in Calls /\ Fit(r.op, r.args)
      /\ r.kind = "send" => r.op \notin Setters
      BY RowOfStep DEF PairRows
<1>2. 1 \in Buses /\ 2 \in Buses
      BY BusesType
<1>3. Step(r) /\ Registers
      BY DEF ProgramInv
<1>4. /\ \A b \in {1, 2} : Was(b) \in {Low, High}
      /\ Low # High /\ NoBaud # Low /\ NoBaud # High
      /\ \A b \in {1, 2} : \A rate : Hears(b, rate) <=> rate = baud[b] /\ addr[b] = 1
      /\ \A b \in {1, 2} : found[b] # NoBaud => addr[b] = 1
      BY <1>2 DEF RateInv, Rates, Was, Low, High, NoBaud, Hears, Pair, HardWired
<1>5. CASE pc \in 1..4
  <2>1. PICK c \in {1, 2}, rate \in {Low, High} :
          /\ Sounds(q, c, rate)
          /\ \/ pc = 1 /\ c = 1 /\ rate = High
             \/ pc = 2 /\ c = 1 /\ rate = Low
             \/ pc = 3 /\ c = 2 /\ rate = High
             \/ pc = 4 /\ c = 2 /\ rate = Low
        BY <1>5 DEF PairRows
  <2>2. Sounds(r, c, rate)
        BY <1>1, <2>1, RowsAlike
  <2> HIDE DEF r, q, rows
  <2>3. SoundBaud(r) /\ r.args = {rate} /\ r.line = c
        BY <1>3, <2>2, RowActs DEF Sounds, Is
  <2>4. /\ calm /\ pc' = pc + 1 /\ UNCHANGED <<frame, port, good, regs, baud>>
        /\ IF found[r.line] = NoBaud /\ Hears(r.line, rate)
             THEN found' = [found EXCEPT ![r.line] = rate] /\ run' = found'
             ELSE UNCHANGED <<found, run>>
        BY <2>3, CalmSounds, Zenon
  <2>5. ASSUME NEW b \in {1, 2}, addr[b] = 1 PROVE PairAt(b)'
    <3>1. PairAt(b)
          BY <2>5 DEF PairInv
    <3>2. baud[b] = Was(b) /\ run[b] = found[b]
          BY <3>1 DEF PairAt
    <3>3. CASE b = c
      <4>1. /\ found[b] = NoBaud /\ rate = Was(b) => found'[b] = rate /\ run'[b] = rate
            /\ ~(found[b] = NoBaud /\ rate = Was(b)) => found'[b] = found[b] /\ run'[b] = run[b]
            BY <1>2, <1>4, <2>3, <2>4, <2>5, <3>2, <3>3 DEF RateInv, Buslike
      <4>2. CASE pc = 2 * b - 1
            BY <1>4, <2>1, <2>4, <2>5, <3>1, <3>2, <3>3, <4>1, <4>2 DEF PairAt, frame, Was
      <4>3. CASE pc = 2 * b
            BY <1>4, <2>1, <2>4, <2>5, <3>1, <3>2, <3>3, <4>1, <4>3 DEF PairAt, frame, Was
      <4> QED BY <2>1, <3>3, <4>2, <4>3
    <3>4. CASE b # c
      <4>1. found'[b] = found[b] /\ run'[b] = found'[b]
            BY <1>2, <2>3, <2>4, <2>5, <3>2, <3>4 DEF RateInv, Buslike
      <4> QED BY <1>4, <2>1, <2>4, <2>5, <3>1, <3>2, <3>4, <4>1 DEF PairAt, frame, Was
    <3> QED BY <3>3, <3>4
  <2>6. (pc' > 5) = FALSE /\ addr' = addr
        BY <1>5, <2>4 DEF frame, nature
  <2> QED BY <2>4, <2>5, <2>6 DEF PairInv
<1>6. CASE pc \in {5, 6}
  <2>1. Finds(q, pc - 4)
        BY <1>6 DEF PairRows
  <2>2. Is(r, "found", pc - 4)
        BY <1>1, <2>1, RowsAlike DEF Finds
  <2> HIDE DEF r, q, rows
  <2>3. /\ calm /\ pc' = pc + 1 /\ UNCHANGED <<frame, port, locals, regs, baud>>
        /\ found[r.line] # NoBaud
        BY <1>3, <2>2, RowActs, CalmFinds DEF Is
  <2>4. addr'[1] = 1 /\ addr' = addr
        BY <1>4, <1>6, <2>2, <2>3 DEF Is, PairInv, frame, nature
  <2>5. ASSUME NEW b \in {1, 2}, addr[b] = 1 PROVE PairAt(b)'
    <3>1. PairAt(b)
          BY <2>5 DEF PairInv
    <3> QED BY <1>6, <2>3, <2>5, <3>1 DEF PairAt, frame, locals, Was
  <2> QED BY <2>3, <2>4, <2>5 DEF PairInv
<1>7. CASE pc \in {7, 8}
  <2>1. Opens(q, pc - 6, NoBaud)
        BY <1>7 DEF PairRows
  <2>2. Opens(r, pc - 6, NoBaud)
        BY <1>1, <2>1, RowsAlike
  <2> HIDE DEF r, q, rows
  <2>3. OpenPort(r) /\ r.args = {NoBaud} /\ r.line = pc - 6 /\ "done" \notin r.bad
        BY <1>3, <2>2, RowActs DEF Opens, Is
  <2>4. /\ calm /\ pc' = pc + 1 /\ UNCHANGED <<frame, locals, regs, baud>>
        /\ port' = [port EXCEPT ![r.line] = IF NoBaud = NoBaud THEN run[r.line] ELSE NoBaud]
        BY <2>3, CalmOpens, Zenon
  <2>5. addr'[1] = 1 /\ addr' = addr
        BY <1>7, <2>4 DEF PairInv, frame, nature
  <2>6. ASSUME NEW b \in {1, 2}, addr[b] = 1 PROVE PairAt(b)'
    <3>1. PairAt(b)
          BY <2>6 DEF PairInv
    <3>2. run[b] = Was(b)
          BY <1>7, <2>6, <3>1 DEF PairAt
    <3>3. port'[b] = IF b = pc - 6 THEN Was(b) ELSE port[b]
          BY <1>2, <1>7, <2>3, <2>4, <2>6, <3>2 DEF RateInv, Buslike
    <3> QED BY <1>7, <2>4, <2>6, <3>1, <3>3 DEF PairAt, frame, locals, Was
  <2> QED BY <2>4, <2>5, <2>6 DEF PairInv
<1>8. CASE pc \in 9..17
  <2>1. /\ Inner(q) /\ q.line \in {1, 2} /\ ~Protects(q) /\ q.kind # "needs"
        /\ q.kind = "loop" => q.args = {4} /\ pc = 17
        /\ q.line = 2 => q.bad = {} \/ Target(rows, pc) = 17
        BY <1>8 DEF PairRows
  <2>2. /\ Inner(r) /\ r.line \in {1, 2} /\ ~Protects(r) /\ r.kind # "needs"
        /\ r.kind = "loop" => r.args = {4} /\ pc = 17
        /\ r.line = 2 => r.bad = {} \/ r.fail = 17
        BY <1>1, <2>1, RowsAlike DEF Made
  <2> HIDE DEF r, q, rows
  <2>3. addr[1] = 1 /\ PairAt(1)
        BY <1>8 DEF PairInv
  <2>4. r.line = 1 => Hearing(r)
        BY <1>4, <1>8, <2>3 DEF PairAt, Hearing
  <2>5. /\ calm /\ UNCHANGED <<frame, port, found, run, baud>>
        /\ r.kind # "loop" => pc' \in {pc + 1, r.fail}
        /\ r.kind = "loop" => pc' = pc + 1 \/ \E k \in r.args : pc' = pc - k
        /\ r.bad = {} /\ r.kind # "loop" => pc' = pc + 1
        /\ r.kind \in Sending /\ Hearing(r) /\ ~Protects(r) => pc' = pc + 1
        /\ r.kind \in {"await", "note"} => pc' = pc + 1
        BY <1>1, <1>3, <2>2, CalmInner
  <2>6. pc' \in 9..18
    <3>1. CASE r.kind = "loop"
          BY <2>2, <2>5, <3>1
    <3>2. CASE r.kind # "loop" /\ r.line = 2
          BY <1>8, <2>2, <2>5, <3>2
    <3>3. CASE r.kind # "loop" /\ r.line = 1
          BY <1>8, <2>2, <2>4, <2>5, <3>3 DEF Inner, Sending
    <3> QED BY <2>2, <3>1, <3>2, <3>3
  <2>7. ASSUME NEW b \in {1, 2}, addr[b] = 1 PROVE PairAt(b)'
    <3>1. PairAt(b)
          BY <2>7 DEF PairInv
    <3> QED BY <1>8, <2>5, <2>6, <2>7, <3>1 DEF PairAt, frame, Was
  <2> QED BY <2>3, <2>5, <2>7 DEF PairInv, frame, nature
<1>9. ASSUME NEW c \in {1, 2}, pc = 17 + c PROVE PairInv' /\ calm
  <2>1. c \in Buses /\ SwitchesOff(r, c) /\ (pc = 19 => r.bad = {})
    <3>1. c = 1 => pc = 18 /\ SwitchesOff(q, 1)
          BY <1>9 DEF PairRows
    <3>2. c = 2 => pc = 19 /\ SwitchesOff(q, 2)
          BY <1>9 DEF PairRows
    <3>3. (pc = 19 => r.bad = {})
          BY <1>1 DEF PairRows, Made
    <3> HIDE DEF r, q, rows
    <3> QED BY <1>1, <1>2, <3>1, <3>2, <3>3, RowsAlike
  <2> HIDE DEF r, q, rows
  <2>2. addr[1] = 1 /\ PairAt(1) /\ r.line = c /\ (pc = 18 => c = 1) /\ (pc = 19 => c = 2) /\ pc \in {18, 19}
        BY <1>9, <2>1 DEF PairInv, SwitchesOff, Is
  <2>3. ASSUME addr[c] = 1 PROVE Hearing(r)
    <3>1. PairAt(c)
          BY <2>1, <2>3 DEF PairInv
    <3> QED BY <1>4, <1>9, <2>1, <2>2, <2>3, <3>1 DEF PairAt, Hearing
  <2>4. r.bad = {} \/ Hearing(r)
        BY <2>1, <2>2, <2>3
  <2>5. /\ calm /\ UNCHANGED <<frame, port, locals, baud>> /\ pc' = pc + 1
        /\ Hearing(r) => Off(c)'
        /\ \A e \in Buses : e # c => regs'[e] = regs[e]
    <3>1. Step(r) /\ Registers /\ c \in Buses /\ SwitchesOff(r, c)
          BY <1>3, <2>1
    <3> QED BY <2>4, <3>1, CalmDisables
  <2>6. ASSUME NEW b \in {1, 2}, addr[b] = 1 PROVE PairAt(b)'
    <3>1. PairAt(b)
          BY <2>6 DEF PairInv
    <3>2. ASSUME b = c PROVE Off(b)'
          BY <2>3, <2>5, <2>6, <3>2
    <3>3. b # c /\ Off(b) => Off(b)'
          BY <1>2, <2>5, <2>6 DEF Off
    <3> QED BY <1>9, <2>2, <2>5, <2>6, <3>1, <3>2, <3>3 DEF PairAt, frame, locals, Was
  <2> QED BY <2>2, <2>5, <2>6 DEF PairInv, frame, nature
<1>10. pc \in 1..4 \/ pc \in {5, 6} \/ pc \in {7, 8} \/ pc \in 9..17 \/ pc = 17 + 1 \/ pc = 17 + 2
      BY <1>1
<1> QED BY <1>5, <1>6, <1>7, <1>8, <1>9, <1>10

----------------------------------------------------------------------------
(* The invariants are kept, and what they are for.                          *)

\* What a row leaves alone, when the program goes on.
LEMMA StepLeaves ==
    ASSUME RateInv, NEW r, Step(r), ~Gone
    PROVE  /\ UNCHANGED frame /\ (calm' => calm)
           /\ \A b \in Buses : b # r.line => port'[b] = port[b] /\ baud'[b] = baud[b]
PROOF
<1> USE DEF RateInv, Buslike
<1>1. ASSUME NEW op, NEW arg, Exchange(r, op, arg)
      PROVE  UNCHANGED <<frame, port, baud>> /\ (calm' => calm)
  <2>1. UNCHANGED <<frame, port, baud>>
        BY <1>1 DEF Exchange
  <2>2. Answered(r, op, arg) => (calm' => calm)
        BY DEF Answered
  <2>3. Lost(r, op, arg) => (calm' => calm)
        BY DEF Lost, Fault
  <2>4. Unheard(r) => (calm' => calm)
        BY DEF Unheard, Smooth
  <2> QED BY <1>1, <2>1, <2>2, <2>3, <2>4 DEF Exchange
<1>2. CASE OpenPort(r) \/ ClosePort(r)
      BY <1>2 DEF OpenPort, ClosePort, Smooth, Fault
<1>3. CASE TellBaud(r) \/ SwitchBaud(r) \/ BackBaud(r)
  <2>1. ASSUME NEW from, NEW to, SetBaud(r, from, to)
        PROVE  (calm' => calm) /\ \A b \in Buses : b # r.line => baud'[b] = baud[b]
        BY <2>1 DEF SetBaud, Smooth, Fault
  <2>2. (calm' => calm) /\ \A b \in Buses : b # r.line => baud'[b] = baud[b]
        BY <1>3, <2>1 DEF TellBaud, SwitchBaud, BackBaud, Smooth
  <2> QED BY <1>3, <2>2 DEF TellBaud, SwitchBaud, BackBaud
<1>4. CASE SoundBaud(r) \/ IsFound(r)
      BY <1>4 DEF SoundBaud, IsFound, Smooth, Fault
<1>5. CASE VerifyBaud(r) \/ RecheckBaud(r)
      BY <1>5 DEF VerifyBaud, RecheckBaud, Smooth, Fault
<1>6. CASE AwaitTarget(r) \/ Iterate(r) \/ NoteGood(r) \/ NeedGood(r)
      BY <1>6 DEF AwaitTarget, Iterate, NoteGood, NeedGood, Smooth
<1>7. (\E op, arg : Exchange(r, op, arg)) \/ Line(r) \/ AwaitTarget(r) \/ Iterate(r) \/ NoteGood(r) \/ NeedGood(r)
      BY DEF Step, Returns, Crash
<1> QED BY <1>1, <1>2, <1>3, <1>4, <1>5, <1>6, <1>7 DEF Line

\* No program runs at first.
LEMMA InitUnused == Init => UnusedInv /\ CalmInv
PROOF BY DEF Init, UnusedInv, CalmInv

\* A program leaves alone the lines that it has no row for.
LEMMA StepKeepsUnused == ProgramInv /\ RateInv /\ UnusedInv /\ [Next]_vars => UnusedInv'
PROOF
<1> SUFFICES ASSUME ProgramInv, RateInv, UnusedInv, [Next]_vars PROVE UnusedInv'
    OBVIOUS
<1>1. ASSUME NEW p \in DOMAIN Table, Start(p) PROVE UnusedInv'
      BY <1>1 DEF Start, RateInv, UnusedInv, Was
<1>2. CASE Gone
      BY <1>2 DEF Gone, UnusedInv
<1>3. ASSUME pc # 0, Step(Code[program][pc]), ~Gone PROVE UnusedInv'
  <2> DEFINE r == Code[program][pc]
  <2>1. pc \in 1..Len(Table[program]) /\ r.line = Table[program][pc].line
        BY <1>3, RowOfStep DEF Made
  <2>2. \A b \in Buses : Unused(program, b) => b # r.line
        BY <2>1 DEF Unused
  <2> HIDE DEF r
  <2>3. Step(r)
        BY <1>3 DEF r
  <2>4. UNCHANGED frame /\ \A b \in Buses : b # r.line => port'[b] = port[b] /\ baud'[b] = baud[b]
        BY <1>3, <2>3, StepLeaves
  <2> QED BY <1>3, <2>2, <2>4 DEF UnusedInv, frame, Unused, Was
<1>4. CASE UNCHANGED vars
      BY <1>4 DEF vars, UnusedInv, Unused, Was
<1> QED BY <1>1, <1>2, <1>3, <1>4 DEF Next

\* The landmarks of the programs.
LEMMA Landmarks ==
    ASSUME TableShapes
    PROVE  /\ \A p \in Blinds : BlindOff(p) \in 3..(Len(Table[p]) - 2) /\ BlindRows(Table[p], BlindOff(p))
           /\ \A p \in Scanners :
                /\ ScanOpen(p) \in 5..Len(Table[p]) /\ ScanOff(p) \in 5..Len(Table[p]) /\ ScanOpen(p) < ScanOff(p)
                /\ ScanRows(Table[p], ScanOpen(p), ScanOff(p))
           /\ \A p \in Fleets : FleetOff(p) \in Lines..Len(Table[p]) /\ FleetRows(Table[p], FleetOff(p))
PROOF
<1>1. ASSUME NEW p \in Blinds
      PROVE  BlindOff(p) \in 3..(Len(Table[p]) - 2) /\ BlindRows(Table[p], BlindOff(p))
  <2>1. \E d \in 3..(Len(Table[p]) - 2) : BlindRows(Table[p], d)
        BY DEF TableShapes
  <2> QED BY <2>1, Zenon DEF BlindOff
<1>2. ASSUME NEW p \in Scanners
      PROVE  /\ ScanOpen(p) \in 5..Len(Table[p]) /\ ScanOff(p) \in 5..Len(Table[p]) /\ ScanOpen(p) < ScanOff(p)
             /\ ScanRows(Table[p], ScanOpen(p), ScanOff(p))
  <2> DEFINE M == (5..Len(Table[p])) \X (5..Len(Table[p]))
             Marks(m) == m[1] < m[2] /\ ScanRows(Table[p], m[1], m[2])
  <2>1. PICK o \in 5..Len(Table[p]), d \in 5..Len(Table[p]) : o < d /\ ScanRows(Table[p], o, d)
        BY DEF TableShapes
  <2>2. <<o, d>> \in M /\ Marks(<<o, d>>)
        BY <2>1
  <2>3. ScanMarks(p) = CHOOSE m \in M : Marks(m)
        BY DEF ScanMarks
  <2> HIDE DEF M, Marks
  <2>4. ScanMarks(p) \in M /\ Marks(ScanMarks(p))
        BY <2>2, <2>3, Zenon
  <2> QED BY <2>4 DEF M, Marks, ScanOpen, ScanOff
<1>3. ASSUME NEW p \in Fleets
      PROVE  FleetOff(p) \in Lines..Len(Table[p]) /\ FleetRows(Table[p], FleetOff(p))
  <2>1. \E d \in Lines..Len(Table[p]) : FleetRows(Table[p], d)
        BY DEF TableShapes
  <2> QED BY <2>1, Zenon DEF FleetOff
<1> QED BY <1>1, <1>2, <1>3

\* The landmarks of every program hold at each of its rows, while nothing goes wrong.
LEMMA StepKeepsCalm ==
    TableShapes /\ DrainRows(Table["hil_drain_timing"]) /\ ProgramInv /\ RateInv /\ CalmInv /\ [Next]_vars => CalmInv'
PROOF
<1> SUFFICES ASSUME TableShapes, DrainRows(Table["hil_drain_timing"]), ProgramInv, RateInv, CalmInv, [Next]_vars
             PROVE  CalmInv'
    OBVIOUS
<1>1. 1 \in Buses /\ 2 \in Buses
      BY BusesType
<1>2. ASSUME NEW p \in DOMAIN Table, Start(p) PROVE CalmInv'
  <2>1. /\ pc' = 1 /\ program' = p /\ \A b \in Buses : port'[b] = NoBaud /\ found'[b] = NoBaud /\ run'[b] = NoBaud
        /\ \A b \in Buses : baud'[b] = baud[b] /\ Was(b)' = baud[b]
        BY <1>2 DEF Start, RateInv, locals, Was
  <2>2. p \in Blinds => BlindAt(BlindOff(p))'
    <3>1. p \in Blinds => BlindOff(p) \in 3..(Len(Table[p]) - 2)
          BY Landmarks
    <3>2. ASSUME NEW d \in Int, d >= 3 PROVE BlindAt(d)'
          BY <1>1, <2>1, <3>2 DEF BlindAt
    <3> QED BY <3>1, <3>2
  <2>3. p \in Scanners => ScanAt(ScanOpen(p), ScanOff(p))'
    <3>1. p \in Scanners => ScanOpen(p) \in 5..Len(Table[p]) /\ ScanOff(p) \in 5..Len(Table[p])
          BY Landmarks
    <3>2. ASSUME NEW o \in Int, NEW d \in Int, o >= 5, d >= 5 PROVE ScanAt(o, d)'
          BY <1>1, <2>1, <3>2 DEF ScanAt
    <3> QED BY <3>1, <3>2
  <2>4. p \in Fleets => \A b \in Buses : Was(b)' = High => FleetAt(b, FleetOff(p))'
    <3>1. p \in Fleets => FleetOff(p) \in Lines..Len(Table[p])
          BY Landmarks
    <3>2. ASSUME NEW d \in Int, d >= Lines, NEW b \in Buses, Was(b)' = High PROVE FleetAt(b, d)'
          BY <2>1, <3>2, LinesAssumption DEF FleetAt, Buses
    <3>3. Lines \in Nat
          BY LinesAssumption
    <3> QED BY <3>1, <3>2, <3>3
  <2>5. \A b \in {1, 2} : PairAt(b)'
        BY <1>1, <2>1 DEF PairAt
  <2>6. Was(1)' = Low => QuarterAt'
        BY <1>1, <2>1 DEF QuarterAt
  <2>7. ~(pc' > 5)
        BY <2>1
  <2> QED BY <2>1, <2>2, <2>3, <2>4, <2>5, <2>6, <2>7 DEF CalmInv
<1>3. CASE Gone
      BY <1>3 DEF Gone, CalmInv
<1>4. ASSUME pc # 0, Step(Code[program][pc]), ~Gone, calm' PROVE CalmInv'
  <2> DEFINE r == Code[program][pc]
  <2>1. UNCHANGED frame /\ calm
    <3> HIDE DEF r
    <3>1. Step(r)
          BY <1>4 DEF r
    <3> QED BY <1>4, <3>1, StepLeaves
  <2>2. PICK p : p = program
        OBVIOUS
  <2>3. program' = p /\ addr' = addr /\ honours' = honours /\ \A b \in Buses : Was(b)' = Was(b)
        BY <2>1, <2>2 DEF frame, nature, Was
  <2>4. p \in DOMAIN Table /\ pc \in 1..Len(Table[p])
        BY <1>4, <2>2, RowOfStep
  <2>5. ASSUME p \in Blinds, addr[1] = 1, honours[1] PROVE BlindAt(BlindOff(p))'
    <3>1. PICK d : d = BlindOff(p)
          OBVIOUS
    <3>2. d \in 3..(Len(Table[p]) - 2) /\ BlindRows(Table[p], d) /\ BlindAt(d)
          BY <1>4, <2>1, <2>2, <2>5, <3>1, Landmarks DEF CalmInv
    <3>3. Table[p][pc].kind = "needs" => p = "hil_drain_timing" /\ pc = 10
          BY <2>4, <2>5 DEF TableShapes
    <3>4. ASSUME program = "hil_drain_timing", pc' \in {9, 10} PROVE good' = TRUE
      <4>1. DrainRows(Table[program])
            BY <3>4
      <4> QED BY <1>4, <2>2, <2>5, <3>2, <3>4, <4>1, DrainIsGood
    <3>5. BlindAt(d)'
          BY <1>4, <2>2, <2>5, <3>2, <3>3, <3>4, BlindStep
    <3> QED BY <3>1, <3>5
  <2>6. ASSUME p \in Scanners, addr[1] = 1, honours[1] PROVE ScanAt(ScanOpen(p), ScanOff(p))'
    <3>1. PICK o, d : o = ScanOpen(p) /\ d = ScanOff(p)
          OBVIOUS
    <3>2. /\ o \in 5..Len(Table[p]) /\ d \in 5..Len(Table[p]) /\ o < d
          /\ ScanRows(Table[p], o, d) /\ ScanAt(o, d)
          BY <1>4, <2>1, <2>2, <2>6, <3>1, Landmarks DEF CalmInv
    <3>3. ScanAt(o, d)'
          BY <1>4, <2>2, <2>6, <3>2, ScanStep
    <3> QED BY <3>1, <3>3
  <2>7. ASSUME p \in Fleets, NEW b \in Buses, addr[b] = 1, Was(b) = High PROVE FleetAt(b, FleetOff(p))'
    <3>1. PICK d : d = FleetOff(p)
          OBVIOUS
    <3>2. d \in Lines..Len(Table[p]) /\ FleetRows(Table[p], d) /\ FleetAt(b, d)
          BY <1>4, <2>1, <2>2, <2>7, <3>1, Landmarks DEF CalmInv
    <3>3. FleetAt(b, d)'
          BY <1>4, <2>2, <2>7, <3>2, FleetStep
    <3> QED BY <3>1, <3>3
  <2>8. p = Pair => PairInv'
    <3>1. p = Pair => PairInv
          BY <1>4, <2>1, <2>2 DEF CalmInv, PairInv
    <3> QED BY <1>4, <2>2, <3>1, PairStep DEF TableShapes
  <2>9. p = Quarter /\ addr[1] = 1 /\ Was(1) = Low => QuarterAt'
    <3>1. p = Quarter /\ addr[1] = 1 /\ Was(1) = Low => QuarterAt
          BY <1>4, <2>1, <2>2 DEF CalmInv
    <3> QED BY <1>4, <2>2, <3>1, QuarterStep DEF TableShapes
  <2> HIDE DEF r
  <2> QED BY <1>1, <2>3, <2>5, <2>6, <2>7, <2>8, <2>9 DEF CalmInv, PairInv
<1>5. CASE UNCHANGED vars
  <2>1. /\ UNCHANGED <<program, pc, port, baud, found, run, good, addr, honours, before, regs, calm>>
        BY <1>5 DEF vars, locals, nature
  <2>2. \A d : BlindAt(d)' <=> BlindAt(d)
        BY <2>1 DEF BlindAt, Off
  <2>3. \A o, d : ScanAt(o, d)' <=> ScanAt(o, d)
        BY <2>1 DEF ScanAt, Off, Was
  <2>4. \A b, d : FleetAt(b, d)' <=> FleetAt(b, d)
        BY <2>1 DEF FleetAt, Off
  <2>5. \A b : PairAt(b)' <=> PairAt(b)
        BY <2>1 DEF PairAt, Off, Was
  <2>6. QuarterAt' <=> QuarterAt
        BY <2>1 DEF QuarterAt, Off
  <2>7. \A b : Was(b)' = Was(b)
        BY <2>1 DEF Was
  <2> QED BY <2>1, <2>2, <2>3, <2>4, <2>5, <2>6, <2>7 DEF CalmInv
<1>6. ~calm' => CalmInv'
      BY DEF CalmInv
<1> QED BY <1>2, <1>3, <1>4, <1>5, <1>6 DEF Next

\* The kinds of the rows of each shape.
LEMMA BlindLines ==
    ASSUME NEW rows, Len(rows) \in Nat, NEW d \in 3..(Len(rows) - 2), BlindRows(rows, d), NEW i \in 1..Len(rows)
    PROVE  rows[i].line = 1 /\ rows[i].kind # "return"
PROOF
<1>1. CASE i \in 3..(d - 1)
      BY <1>1 DEF BlindRows, Within, OnLineOne, Inner
<1>2. CASE i \in {1, 2, d, d + 1, d + 2}
      BY <1>2 DEF BlindRows, Tells, Opens, SwitchesOff, Is
<1>3. CASE i \in {d + 3, d + 4} /\ Len(rows) # d + 2
      BY <1>3 DEF BlindRows, Opens, Reads, Is
<1>4. Len(rows) \in {d + 2, d + 4}
      BY DEF BlindRows
<1> DEFINE n == Len(rows)
<1> HIDE DEF n
<1>5. i \in 3..(d - 1) \/ i \in {1, 2, d, d + 1, d + 2} \/ (i \in {d + 3, d + 4} /\ n # d + 2)
      BY <1>4 DEF n
<1> QED BY <1>1, <1>2, <1>3, <1>5 DEF n

LEMMA ScanLines ==
    ASSUME NEW rows, Len(rows) \in Nat, NEW o \in 5..Len(rows), NEW d \in 5..Len(rows), o < d,
           ScanRows(rows, o, d), NEW i \in 1..Len(rows)
    PROVE  /\ rows[i].line = 1
           /\ rows[i].kind = "return" => i = d + 3 /\ Len(rows) = d + 4
           /\ rows[i].kind \in {"back", "tell"} => Len(rows) = d + 4
PROOF
<1> DEFINE n == Len(rows)
<1>1. CASE i \in 1..4
      BY <1>1 DEF ScanRows, Sounds, Finds, Is
<1>2. CASE i \in 5..(o - 1)
      BY <1>2 DEF ScanRows, Is
<1>3. CASE i \in (o + 1)..(d - 1)
  <2>1. i \in (o + 1)..(d - 1) => Inner(rows[i]) /\ rows[i].line = 1
        BY DEF ScanRows, Within, OnLineOne
  <2> QED BY <1>3, <2>1 DEF Inner
<1>4. CASE i = o
      BY <1>4 DEF ScanRows, Opens, Is
<1>5. CASE i = d
      BY <1>5 DEF ScanRows, SwitchesOff, Is
<1>6. CASE i = d + 1
  <2>1. n # d
        BY <1>6
  <2>2. Is(rows[d + 1], "close", 1)
        BY <2>1 DEF ScanRows
  <2> QED BY <1>6, <2>2 DEF Is
<1>7. CASE i \in {d + 2, d + 3, d + 4}
  <2>1. n \notin {d, d + 1}
        BY <1>7
  <2>2. n = d + 4 /\ Is(rows[d + 2], "back", 1) /\ Is(rows[d + 3], "return", 1) /\ SwitchesOff(rows[d + 4], 1)
        BY <2>1 DEF ScanRows
  <2> HIDE DEF n
  <2> QED BY <1>7, <2>2 DEF Is, SwitchesOff, n
<1>8. n \in {d, d + 1, d + 4}
      BY DEF ScanRows
<1> HIDE DEF n
<1>9. i \in 1..4 \/ i \in 5..(o - 1) \/ i \in (o + 1)..(d - 1) \/ i = o \/ i = d \/ i = d + 1 \/ i \in {d + 2, d + 3, d + 4}
      BY <1>8 DEF n
<1> QED BY <1>1, <1>2, <1>3, <1>4, <1>5, <1>6, <1>7, <1>9

LEMMA FleetLines ==
    ASSUME NEW rows, NEW d \in Lines..Len(rows), FleetRows(rows, d), Len(rows) \in Nat, NEW i \in 1..Len(rows)
    PROVE  rows[i].kind \in {"open", "call", "loop"} /\ (rows[i].kind = "open" => rows[i].args = {High})
PROOF
<1>1. Lines \in Nat /\ Buses = 1..Lines
      BY LinesAssumption DEF Buses
<1>2. CASE i \in 1..Lines
      BY <1>1, <1>2 DEF FleetRows, Opens, Is
<1>3. CASE i \in (Lines + 1)..d
      BY <1>3 DEF FleetRows
<1>4. CASE i > d
  <2>1. i - d \in Buses /\ d + (i - d) = i
        BY <1>1, <1>4 DEF FleetRows
  <2>2. SwitchesOff(rows[d + (i - d)], i - d)
        BY <2>1 DEF FleetRows
  <2> QED BY <2>1, <2>2 DEF SwitchesOff, Is
<1> QED BY <1>1, <1>2, <1>3, <1>4

LEMMA PairLines ==
    ASSUME NEW rows, PairRows(rows), NEW i \in 1..Len(rows)
    PROVE  rows[i].line \in {1, 2} /\ rows[i].kind # "return"
PROOF
<1>1. CASE i \in 1..8
      BY <1>1 DEF PairRows, Sounds, Finds, Opens, Is
<1>2. CASE i \in 9..17
      BY <1>2 DEF PairRows, Inner
<1>3. CASE i \in {18, 19}
      BY <1>3 DEF PairRows, SwitchesOff, Is
<1>4. i \in 1..19
      BY DEF PairRows
<1> QED BY <1>1, <1>2, <1>3, <1>4

LEMMA QuarterLines ==
    ASSUME NEW rows, QuarterRows(rows), NEW i \in 1..Len(rows)
    PROVE  /\ rows[i].line = 1 /\ rows[i].kind \notin {"return", "tell", "sound"}
           /\ rows[i].kind = "open" => rows[i].args = {Low}
PROOF
<1>1. CASE i = 1
      BY <1>1 DEF QuarterRows, Opens, Is
<1>2. CASE i \in 2..(7 - 1)
      BY <1>2 DEF QuarterRows, Within, OnLineOne, Inner
<1>3. CASE i = 7
      BY <1>3 DEF QuarterRows, SwitchesOff, Is
<1>4. i \in 1..7
      BY DEF QuarterRows
<1> QED BY <1>1, <1>2, <1>3, <1>4

\* What the programs do, of what the properties are about.
LEMMA Roles ==
    ASSUME TableShapes, NEW p \in DOMAIN Table
    PROVE  /\ p \in Seekers <=> \E i \in 1..Len(Table[p]) : Table[p][i].kind \in {"tell", "sound"}
           /\ \A b \in Buses : p \in Disablers[b] <=> \E i \in 1..Len(Table[p]) : IsOff(Table[p][i], b)
           /\ p \in Restorers => \E i \in 1..Len(Table[p]) : Table[p][i].kind \in {"back", "tell"}
           /\ \A b \in Buses, rate \in {Low, High} :
                p \in OpenersAt[b][rate] => \E i \in 1..Len(Table[p]) : Table[p][i].kind = "open" /\ Table[p][i].args = {rate}
PROOF
<1>1. DOMAIN Table[p] = 1..Len(Table[p])
      BY TableIsSane DEF Sane, IsRows
<1>2. p \in Seekers <=> \E i \in 1..Len(Table[p]) : Table[p][i].kind \in {"tell", "sound"}
      BY <1>1 DEF Seekers, Has
<1>3. \A b \in Buses : p \in Disablers[b] <=> \E i \in 1..Len(Table[p]) : IsOff(Table[p][i], b)
      BY <1>1 DEF Disablers, Has
<1>4. p \in Restorers => \E i \in 1..Len(Table[p]) : Table[p][i].kind \in {"back", "tell"}
      BY <1>1 DEF Restorers, Has
<1>5. \A b \in Buses, rate \in {Low, High} :
         p \in OpenersAt[b][rate] => \E i \in 1..Len(Table[p]) : Table[p][i].kind = "open" /\ Table[p][i].args = {rate}
      BY <1>1 DEF OpenersAt, Has
<1> QED BY <1>2, <1>3, <1>4, <1>5


\* A program that looks for the motor, or switches it, is one of three kinds.
LEMMA SeekersAre ==
    ASSUME TableShapes, NEW p \in DOMAIN Table, p \in Seekers
    PROVE  p \in Blinds \/ p \in Scanners \/ p = Pair
PROOF
<1>1. PICK i \in 1..Len(Table[p]) : Table[p][i].kind \in {"tell", "sound"}
      BY Roles
<1>2. Len(Table[p]) \in Nat
      BY CodeIs
<1>3. ASSUME p \in Fleets PROVE FALSE
  <2>1. FleetOff(p) \in Lines..Len(Table[p]) /\ FleetRows(Table[p], FleetOff(p))
        BY <1>3, Landmarks
  <2> QED BY <1>1, <1>2, <2>1, FleetLines
<1>4. ASSUME p = Quarter PROVE FALSE
      BY <1>1, <1>4, QuarterLines DEF TableShapes
<1>5. ASSUME p \in Humble PROVE FALSE
      BY <1>1, <1>5 DEF TableShapes, HumbleRows
<1> QED BY <1>3, <1>4, <1>5 DEF Humble

\* The lines a program does not use.
LEMMA UnusedLines ==
    ASSUME TableShapes, NEW p \in DOMAIN Table, NEW b \in Buses
    PROVE  /\ p \in Blinds \cup Scanners \cup {Quarter} /\ b # 1 => Unused(p, b)
           /\ p = Pair /\ b \notin {1, 2} => Unused(p, b)
           /\ Unused(p, b) => p \notin Disablers[b]
PROOF
<1>1. Len(Table[p]) \in Nat
      BY CodeIs
<1>2. ASSUME p \in Blinds, b # 1 PROVE Unused(p, b)
  <2>1. BlindOff(p) \in 3..(Len(Table[p]) - 2) /\ BlindRows(Table[p], BlindOff(p))
        BY <1>2, Landmarks
  <2> QED BY <1>1, <1>2, <2>1, BlindLines DEF Unused
<1>3. ASSUME p \in Scanners, b # 1 PROVE Unused(p, b)
  <2>1. /\ ScanOpen(p) \in 5..Len(Table[p]) /\ ScanOff(p) \in 5..Len(Table[p]) /\ ScanOpen(p) < ScanOff(p)
        /\ ScanRows(Table[p], ScanOpen(p), ScanOff(p))
        BY <1>3, Landmarks
  <2>2. \A i \in 1..Len(Table[p]) : Table[p][i].line = 1
        BY <1>1, <2>1, ScanLines
  <2> QED BY <1>3, <2>2 DEF Unused
<1>4. ASSUME p = Quarter, b # 1 PROVE Unused(p, b)
      BY <1>4, QuarterLines DEF Unused, TableShapes
<1>5. ASSUME p = Pair, b \notin {1, 2} PROVE Unused(p, b)
      BY <1>5, PairLines DEF Unused, TableShapes
<1>6. Unused(p, b) => p \notin Disablers[b]
  <2>1. \A i \in 1..Len(Table[p]) : IsOff(Table[p][i], b) => Table[p][i].line = b
        BY DEF IsOff
  <2> QED BY <2>1, Roles DEF Unused
<1> QED BY <1>2, <1>3, <1>4, <1>5, <1>6

\* The lines that a program drives.
LEMMA LinesAreFound ==
    ASSUME TableShapes, ProgramInv, RateInv, CalmInv, UnusedInv PROVE LineIsFound
PROOF
<1> SUFFICES ASSUME NEW b \in Buses, pc # 0, port[b] # NoBaud, calm, program \in Seekers, Reachable(b)
             PROVE  port[b] = baud[b]
    BY DEF LineIsFound
<1>1. program \in DOMAIN Table /\ pc \in 1..(Len(Table[program]) + 1) /\ addr[b] = 1 /\ honours[b]
      BY DEF ProgramInv, Inside, Reachable
<1>2. Len(Table[program]) \in Nat
      BY <1>1, CodeIs
<1>3. ~Unused(program, b)
      BY DEF UnusedInv
<1>4. PICK p : p = program
      OBVIOUS
<1>5. CASE program \in Blinds
  <2>1. b = 1
        BY <1>1, <1>3, <1>5, UnusedLines
  <2>2. PICK d : d = BlindOff(p)
        OBVIOUS
  <2>3. d \in 3..(Len(Table[program]) - 2) /\ BlindAt(d)
        BY <1>1, <1>4, <1>5, <2>1, <2>2, Landmarks DEF CalmInv
  <2> QED BY <1>1, <1>2, <2>1, <2>3 DEF BlindAt
<1>6. CASE program \in Scanners
  <2>1. b = 1
        BY <1>1, <1>3, <1>6, UnusedLines
  <2>2. PICK o, d : o = ScanOpen(p) /\ d = ScanOff(p)
        OBVIOUS
  <2>3. /\ o \in 5..Len(Table[program]) /\ d \in 5..Len(Table[program]) /\ o < d
        /\ ScanAt(o, d)
        BY <1>1, <1>4, <1>6, <2>1, <2>2, Landmarks DEF CalmInv
  <2> QED BY <1>1, <1>2, <2>1, <2>3 DEF ScanAt
<1>7. CASE program = Pair
  <2>1. b \in {1, 2}
        BY <1>1, <1>3, <1>7, UnusedLines
  <2>2. PairAt(b)
        BY <1>1, <1>7, <2>1 DEF CalmInv
  <2> QED BY <1>1, <1>2, <2>1, <2>2 DEF PairAt
<1> QED BY <1>1, <1>5, <1>6, <1>7, SeekersAre

\* The row a program ends at, by itself.
LEMMA EndsAt ==
    ASSUME TableShapes, ProgramInv, pc # 0, Code[program][pc].kind \in {"end", "return"}
    PROVE  /\ program \in DOMAIN Table /\ Len(Table[program]) \in Nat
           /\ \/ pc = Len(Table[program]) + 1
              \/ pc \in 1..Len(Table[program]) /\ Table[program][pc].kind = "return"
PROOF
<1>1. program \in DOMAIN Table /\ pc \in 1..(Len(Table[program]) + 1)
      BY DEF ProgramInv, Inside
<1>2. Len(Table[program]) \in Nat
      BY <1>1, CodeIs
<1>3. ASSUME pc \in 1..Len(Table[program]) PROVE Table[program][pc].kind = "return"
  <2>1. Made(Code[program][pc], Table[program][pc]) /\ RowFits(Table[program][pc])
        BY <1>1, <1>3, RowsAreMade
  <2> QED BY <2>1 DEF Made, RowFits
<1> QED BY <1>1, <1>2, <1>3

Traceless(b) ==
    (program \in Disablers[b] => Off(b)) /\ (program \in Restorers => baud[b] \in {Low, Was(b)})

\* Every program in which nothing goes wrong ends past the landmarks of its motors.
LEMMA EndsRested ==
    ASSUME TableShapes, ProgramInv, RateInv, CalmInv, UnusedInv, pc # 0, calm,
           Code[program][pc].kind \in {"end", "return"}
    PROVE  Rested
PROOF
<1> SUFFICES ASSUME NEW b \in Buses, Reachable(b)
             PROVE  Traceless(b)
    BY DEF Rested, Was, Traceless, Off
<1> DEFINE n == Len(Table[program])
<1>1. /\ program \in DOMAIN Table /\ n \in Nat
      /\ pc = n + 1 \/ (pc \in 1..n /\ Table[program][pc].kind = "return")
      BY EndsAt
<1>2. addr[b] = 1 /\ (program \in Seekers => honours[b]) /\ honours[b]
      BY DEF Reachable
<1>3. CASE Unused(program, b)
      BY <1>1, <1>3, UnusedLines DEF UnusedInv, Traceless
<1>4. PICK p : p = program
      OBVIOUS
<1>5. CASE program \in Blinds /\ b = 1
  <2>2. PICK d : d = BlindOff(p)
        OBVIOUS
  <2>3. d \in 3..(n - 2) /\ BlindAt(d) /\ BlindRows(Table[program], d)
        BY <1>1, <1>2, <1>4, <1>5, <2>2, Landmarks DEF CalmInv
  <2>4. pc = n + 1
        BY <1>1, <2>3, BlindLines
  <2> HIDE DEF n
  <2>5. Off(b) /\ baud[b] = Low
        BY <1>1, <1>5, <2>3, <2>4 DEF BlindAt
  <2> QED BY <2>5 DEF Traceless
<1>6. CASE program \in Scanners /\ b = 1
  <2>2. PICK o, d : o = ScanOpen(p) /\ d = ScanOff(p)
        OBVIOUS
  <2>3. /\ o \in 5..n /\ d \in 5..n /\ o < d
        /\ ScanAt(o, d) /\ ScanRows(Table[program], o, d)
        BY <1>1, <1>2, <1>4, <1>6, <2>2, Landmarks DEF CalmInv
  <2>4. \A i \in 1..n : /\ Table[program][i].kind = "return" => i = d + 3 /\ n = d + 4
                        /\ Table[program][i].kind \in {"back", "tell"} => n = d + 4
        BY <1>1, <2>3, ScanLines
  <2>5. program \in Restorers => n = d + 4
        BY <1>1, <2>4, Roles
  <2>6. pc > d /\ (n = d + 4 => pc > d + 2)
    <3> HIDE DEF n
    <3> QED BY <1>1, <2>3, <2>4
  <2> HIDE DEF n
  <2>7. Off(b) /\ (n = d + 4 => baud[b] = Was(b))
        BY <1>1, <1>6, <2>3, <2>6 DEF ScanAt
  <2> QED BY <2>5, <2>7 DEF Traceless
<1>7. CASE program \in Fleets
  <2>1. PICK d : d = FleetOff(p)
        OBVIOUS
  <2>2. d \in Lines..n /\ FleetRows(Table[program], d)
        BY <1>4, <1>7, <2>1, Landmarks
  <2>3. \A i \in 1..n : /\ Table[program][i].kind \in {"open", "call", "loop"}
                        /\ Table[program][i].kind = "open" => Table[program][i].args = {High}
        BY <1>1, <2>2, FleetLines
  <2>4. program \notin Seekers
        BY <1>1, <2>3, Roles
  <2>5. Was(b) \in {Low, High} /\ program \in OpenersAt[b][Was(b)]
        BY <2>4 DEF Reachable, Was, RateInv, Rates
  <2>6. Was(b) = High
    <3>1. PICK i \in 1..n : Table[program][i].kind = "open" /\ Table[program][i].args = {Was(b)}
          BY <1>1, <2>5, Roles
    <3>2. {Was(b)} = {High}
          BY <2>3, <3>1
    <3> QED BY <3>2
  <2>7. FleetAt(b, d)
        BY <1>2, <1>4, <1>7, <2>1, <2>6 DEF CalmInv
  <2>8. pc = n + 1 /\ n = d + Lines
        BY <1>1, <2>2, <2>3 DEF FleetRows
  <2> HIDE DEF n
  <2>9. Off(b) /\ baud[b] = High
        BY <1>1, <2>2, <2>7, <2>8, LinesAssumption DEF FleetAt, Buses
  <2> QED BY <2>6, <2>9 DEF Traceless
<1>8. CASE program = Pair /\ b \in {1, 2}
  <2>1. PairAt(b)
        BY <1>2, <1>8 DEF CalmInv
  <2>2. pc = 20
    <3>1. PairRows(Table[program]) /\ n = 19
          BY <1>8 DEF TableShapes, PairRows
    <3>2. pc = n + 1
          BY <1>1, <3>1, PairLines
    <3> QED BY <3>1, <3>2
  <2>3. Off(b) /\ baud[b] = Was(b)
        BY <1>8, <2>1, <2>2 DEF PairAt
  <2> QED BY <2>3 DEF Traceless
<1>9. CASE program = Quarter /\ b = 1
  <2>1. QuarterRows(Table[program])
        BY <1>9 DEF TableShapes
  <2>2. program \notin Seekers
        BY <1>1, <2>1, QuarterLines, Roles
  <2>3. Was(b) \in {Low, High} /\ program \in OpenersAt[b][Was(b)]
        BY <2>2 DEF Reachable, Was, RateInv, Rates
  <2>4. Was(b) = Low
    <3>1. PICK i \in 1..n : Table[program][i].kind = "open" /\ Table[program][i].args = {Was(b)}
          BY <1>1, <2>3, Roles
    <3>2. {Was(b)} = {Low}
          BY <2>1, <3>1, QuarterLines
    <3> QED BY <3>2
  <2>5. QuarterAt
        BY <1>2, <1>9, <2>4 DEF CalmInv
  <2>6. pc = 8
        BY <1>1, <2>1, QuarterLines DEF QuarterRows
  <2> HIDE DEF n
  <2>7. Off(b) /\ baud[b] = Low
        BY <1>9, <2>5, <2>6 DEF QuarterAt
  <2> QED BY <2>7 DEF Traceless
<1>10. CASE program \in Humble
  <2>1. HumbleRows(Table[program])
        BY <1>10 DEF TableShapes
  <2>2. program \notin Disablers[b] /\ program \notin Restorers
        BY <1>1, <2>1, Roles DEF HumbleRows
  <2> QED BY <2>2 DEF Traceless
<1>11. program \in Blinds \cup Scanners \cup {Quarter} /\ b # 1 => Unused(program, b)
      BY <1>1, UnusedLines
<1>12. program = Pair /\ b \notin {1, 2} => Unused(program, b)
      BY <1>1, UnusedLines
<1> QED BY <1>1, <1>3, <1>5, <1>6, <1>7, <1>8, <1>9, <1>10, <1>11, <1>12 DEF Humble

\* What a program leaves behind stays so until the next begins.
LEMMA StepKeepsTraceless ==
    ASSUME TableShapes, ProgramInv, RateInv, CalmInv, UnusedInv, NoTroubleNoTrace, [Next]_vars
    PROVE  NoTroubleNoTrace'
PROOF
<1>1. ASSUME NEW p \in DOMAIN Table, Start(p) PROVE NoTroubleNoTrace'
      BY <1>1 DEF Start, NoTroubleNoTrace, Ended
<1>2. ASSUME pc # 0, Step(Code[program][pc]) PROVE NoTroubleNoTrace'
  <2> DEFINE r == Code[program][pc]
             n == Len(Table[program])
  <2>1. CASE Returns(r)
    <3>1. /\ UNCHANGED <<program, regs, baud, addr, honours, calm, before>> /\ r.kind \in {"end", "return"}
          BY <2>1 DEF Returns, Gone, nature
    <3>2. calm => Rested
          BY <1>2, <3>1, EndsRested
    <3> HIDE DEF r, n
    <3> QED BY <3>1, <3>2 DEF Rested, NoTroubleNoTrace, Reachable
  <2>2. CASE Crash(r)
        BY <2>2 DEF Crash, NoTroubleNoTrace, Ended
  <2>3. CASE ~Returns(r) /\ ~Crash(r)
    <3>1. n \in Nat /\ pc \in 1..(n + 1) /\ InCode(r, pc, n)
          BY <1>2, CodeRows DEF ProgramInv, Inside
    <3> HIDE DEF r, n
    <3>2. Step(r)
          BY <1>2 DEF r
    <3>3. Goes(r)
          BY <2>3, <3>2, RowsGo DEF Step, Line
    <3>4. r.kind # "end"
          BY <2>3, <3>2 DEF Step, Line, AwaitTarget, OpenPort, ClosePort, TellBaud, SwitchBaud, BackBaud, SoundBaud,
             IsFound, VerifyBaud, RecheckBaud, Iterate, NoteGood, NeedGood
    <3>5. pc' # 0
          BY <3>1, <3>3, <3>4 DEF Goes, InCode
    <3> QED BY <3>5 DEF NoTroubleNoTrace, Ended
  <2> QED BY <2>1, <2>2, <2>3
<1>3. CASE UNCHANGED vars
      BY <1>3 DEF vars, nature, NoTroubleNoTrace, Ended, Reachable
<1> QED BY <1>1, <1>2, <1>3 DEF Next

----------------------------------------------------------------------------
(* The programs have these shapes.                                          *)

\* Rows of line 1 that go on, loops back to a row of the part, and parts of these.
Serves(r) == Inner(r) /\ r.line = 1 /\ r.kind \notin {"loop", "needs"} /\ ~Protects(r)
Rounds(r, k) == r.kind = "loop" /\ r.line = 1 /\ r.args = {k} /\ r.bad = {}
Orderly(rows) ==
    /\ IsRows(rows)
    /\ \A i \in 1..Len(rows) : Serves(rows[i]) \/ \E k \in Nat : k < i /\ Rounds(rows[i], k)

\* A part of a program, from row a on.
At(rows, a, s) == a + Len(s) <= Len(rows) + 1 /\ \A i \in 1..Len(s) : rows[a - 1 + i] = s[i]
Stretch(rows, a, d) ==
    Within(rows, a, d) /\ OnLineOne(rows, a, d) /\ \A i \in a..(d - 1) : rows[i].kind # "needs"

LEMMA ServingRows ==
    /\ \A op, args : Serves(Try(1, op, args))
    /\ \A op, args, fail : Serves(Call(1, op, args, fail)) /\ Serves(Send(1, op, args, fail))
    /\ \A op, args, fail : op # "protect" => Serves(Ack(1, op, args, fail))
    /\ \A fail : Serves(Await(1, fail))
    /\ Serves(Note) /\ Serves(Enable(1)) /\ Serves(Disable(1)) /\ Serves(Stop(1)) /\ Serves(Read(1))
PROOF BY DEF Serves, Inner, Protects, Sending, Row, Try, Call, Send, Ack, Await, Note, Enable, Disable, Stop, Read

LEMMA RoundRows ==
    /\ \A k : Rounds(Loop(k), k)
    /\ Rounds(Here, 0)
PROOF BY DEF Rounds, Loop, Here, Row

\* A row of two parts, one after the other, is a row of one of them.
LEMMA JoinIs ==
    ASSUME NEW s, IsRows(s), NEW t, IsRows(t), NEW r, r = s \o t
    PROVE  /\ Len(s) \in Nat /\ Len(t) \in Nat /\ Len(r) = Len(s) + Len(t) /\ IsRows(r)
           /\ \A i \in 1..Len(s) : r[i] = s[i]
           /\ \A i \in 1..Len(t) : r[Len(s) + i] = t[i]
PROOF BY Concatenated, SMT

LEMMA RowOfJoin ==
    ASSUME NEW s, IsRows(s), NEW t, IsRows(t), NEW r, r = s \o t, NEW i \in 1..Len(r)
    PROVE  \/ i \in 1..Len(s) /\ r[i] = s[i]
           \/ \E k \in 1..Len(t) : i = Len(s) + k /\ r[i] = t[k]
PROOF
<1>1. /\ Len(s) \in Nat /\ Len(t) \in Nat /\ Len(r) = Len(s) + Len(t)
      /\ \A j \in 1..Len(s) : r[j] = s[j]
      /\ \A j \in 1..Len(t) : r[Len(s) + j] = t[j]
      BY JoinIs
<1>2. i \in 1..Len(s) \/ \E k \in 1..Len(t) : i = Len(s) + k
      BY <1>1, EitherPart
<1>3. CASE i \in 1..Len(s)
      BY <1>1, <1>3, Zenon
<1>4. CASE \E k \in 1..Len(t) : i = Len(s) + k
      BY <1>1, <1>4, Zenon
<1> QED BY <1>2, <1>3, <1>4

LEMMA JoinedRows ==
    ASSUME NEW s, IsRows(s), NEW t, IsRows(t), NEW i \in 1..Len(s \o t)
    PROVE  \/ i \in 1..Len(s) /\ (s \o t)[i] = s[i]
           \/ \E k \in 1..Len(t) : i = Len(s) + k /\ (s \o t)[i] = t[k]
PROOF BY RowOfJoin

\* Orderly parts, one after the other.
LEMMA OrderlyJoined ==
    ASSUME NEW s, Orderly(s), NEW t, Orderly(t)
    PROVE  Orderly(s \o t)
PROOF
<1>1. IsRows(s) /\ IsRows(t) /\ IsRows(s \o t) /\ Len(s) \in Nat /\ Len(t) \in Nat
      BY Concatenated DEF Orderly
<1>2. ASSUME NEW i \in 1..Len(s \o t)
      PROVE  Serves((s \o t)[i]) \/ \E k \in Nat : k < i /\ Rounds((s \o t)[i], k)
  <2> DEFINE r == (s \o t)[i]
  <2>1. CASE i \in 1..Len(s) /\ r = s[i]
    <3> HIDE DEF r
    <3> QED BY <2>1 DEF Orderly
  <2>2. ASSUME NEW j \in 1..Len(t), i = Len(s) + j, r = t[j]
        PROVE  Serves(r) \/ \E k \in Nat : k < i /\ Rounds(r, k)
    <3> HIDE DEF r
    <3>1. Serves(r) \/ \E k \in Nat : k < j /\ Rounds(r, k)
          BY <2>2 DEF Orderly
    <3> QED BY <1>1, <2>2, <3>1
  <2>3. (i \in 1..Len(s) /\ r = s[i]) \/ \E j \in 1..Len(t) : i = Len(s) + j /\ r = t[j]
        BY <1>1, JoinedRows
  <2> HIDE DEF r
  <2> QED BY <2>1, <2>2, <2>3 DEF r
<1> QED BY <1>1, <1>2 DEF Orderly

\* An orderly part keeps to itself.
LEMMA OrderlyIsBody ==
    ASSUME NEW s, Orderly(s)
    PROVE  Body(s) /\ OneLine(s) /\ \A i \in 1..Len(s) : s[i].kind # "needs"
PROOF
<1>1. ASSUME NEW i \in 1..Len(s)
      PROVE  /\ Inner(s[i]) /\ LoopsBack(s[i], i, 1) /\ ~Protects(s[i]) /\ s[i].line = 1
             /\ s[i].kind # "needs"
  <2>1. CASE Serves(s[i])
        BY <2>1 DEF Serves, LoopsBack
  <2>2. ASSUME NEW k \in Nat, k < i, Rounds(s[i], k)
        PROVE  /\ Inner(s[i]) /\ LoopsBack(s[i], i, 1) /\ ~Protects(s[i]) /\ s[i].line = 1
               /\ s[i].kind # "needs"
    <3>1. 1 <= i - k
          BY <2>2 DEF Orderly, IsRows
    <3> QED BY <2>2, <3>1 DEF Rounds, Inner, LoopsBack, Protects, Sending
  <2> QED BY <2>1, <2>2 DEF Orderly
<1> QED BY <1>1 DEF Orderly, Body, OneLine

\* A program is the part of itself that starts at row 1.
LEMMA AtSelf ==
    ASSUME NEW rows, IsRows(rows) PROVE At(rows, 1, rows)
PROOF
<1>1. Len(rows) \in Nat /\ \A i \in 1..Len(rows) : 1 - 1 + i = i
      BY DEF IsRows
<1> QED BY <1>1 DEF At

\* Two parts, one after the other, are there one after the other.
LEMMA AtJoined ==
    ASSUME NEW s, IsRows(s), NEW t, IsRows(t), NEW rows, Len(rows) \in Nat, NEW a \in Nat, a >= 1, At(rows, a, s \o t)
    PROVE  At(rows, a, s) /\ At(rows, a + Len(s), t)
PROOF
<1> DEFINE m == Len(s)
           n == Len(t)
           r == s \o t
<1>1. /\ m \in Nat /\ n \in Nat /\ Len(r) = m + n
      /\ \A j \in 1..m : r[j] = s[j]
      /\ \A j \in 1..n : r[m + j] = t[j]
      BY Concatenated
<1>2. a + (m + n) <= Len(rows) + 1 /\ \A i \in 1..(m + n) : rows[a - 1 + i] = r[i]
      BY <1>1 DEF At
<1> HIDE DEF m, n, r
<1>3. \A i \in 1..m : rows[a - 1 + i] = s[i]
      BY <1>1, <1>2
<1>4. ASSUME NEW i \in 1..n PROVE rows[(a + m) - 1 + i] = t[i]
  <2>1. m + i \in 1..(m + n) /\ (a + m) - 1 + i = a - 1 + (m + i)
        BY <1>1
  <2>2. rows[a - 1 + (m + i)] = r[m + i]
        BY <1>2, <2>1
  <2> QED BY <1>1, <2>1, <2>2
<1>5. a + m <= Len(rows) + 1 /\ (a + m) + n <= Len(rows) + 1
      BY <1>1, <1>2
<1> QED BY <1>3, <1>4, <1>5 DEF At, m, n

\* What a part is, the program is there.
LEMMA AtBody ==
    ASSUME NEW rows, IsRows(rows), NEW s, Body(s), NEW a \in Nat, a >= 1, At(rows, a, s)
    PROVE  /\ Within(rows, a, a + Len(s))
           /\ \A i \in a..(a + Len(s) - 1) : i - (a - 1) \in 1..Len(s) /\ rows[i] = s[i - (a - 1)]
PROOF
<1> DEFINE m == Len(s)
           n == Len(rows)
<1>1. m \in Nat /\ n \in Nat /\ a + m <= n + 1
      BY DEF Body, IsRows, At
<1>2. ASSUME NEW i \in 1..m PROVE rows[a - 1 + i] = s[i]
      BY <1>2 DEF At
<1>3. ASSUME NEW i \in 1..m
      PROVE  /\ Inner(s[i]) /\ LoopsBack(s[i], i, 1)
             /\ Protects(s[i]) => s[i].fail = "out" /\ \E j \in i..m : s[j].kind = "loop"
      BY DEF Body
<1> HIDE DEF m, n
<1>4. ASSUME NEW i \in a..(a + m - 1) PROVE i - (a - 1) \in 1..m /\ rows[i] = s[i - (a - 1)]
  <2>1. i - (a - 1) \in 1..m /\ a - 1 + (i - (a - 1)) = i
        BY <1>1
  <2> QED BY <1>2, <2>1
<1>5. ASSUME NEW i \in a..(a + m - 1)
      PROVE  /\ Inner(rows[i]) /\ LoopsBack(rows[i], i, a)
             /\ Protects(rows[i]) => Target(rows, i) \in a..(a + m)
  <2> DEFINE h == i - (a - 1)
  <2>1. h \in 1..m /\ rows[i] = s[h] /\ i = a - 1 + h
        BY <1>1, <1>4
  <2> HIDE DEF h
  <2>2. LoopsBack(rows[i], i, a)
    <3>1. ASSUME NEW k \in Nat, 1 <= h - k PROVE a <= i - k
          BY <1>1, <2>1, <3>1
    <3> QED BY <1>3, <2>1, <3>1 DEF LoopsBack
  <2>3. ASSUME Protects(rows[i]) PROVE Target(rows, i) \in a..(a + m)
    <3> DEFINE loops == {j \in i..n : rows[j].kind = "loop"}
               loop == CHOOSE j \in loops : \A k \in loops : j <= k
    <3>1. PICK g \in h..m : s[g].kind = "loop"
          BY <1>3, <2>1, <2>3
    <3>2. g \in 1..m /\ a - 1 + g \in i..n /\ rows[a - 1 + g] = s[g] /\ a - 1 + g <= a + m - 1
          BY <1>1, <1>2, <2>1, <3>1
    <3>3. a - 1 + g \in loops /\ loops \subseteq Nat
          BY <1>1, <2>1, <3>1, <3>2
    <3>4. loop \in loops /\ \A k \in loops : loop <= k
      <4>1. \E j \in loops : \A k \in loops : j <= k
        <5> HIDE DEF loops
        <5> QED BY <3>3, LeastExists
      <4> HIDE DEF loops
      <4> QED BY <4>1, Zenon
    <3>5. loop \in i..n /\ loop <= a - 1 + g
          BY <3>3, <3>4
    <3>6. Target(rows, i) = loop + 1
      <4>1. rows[i].fail = "out"
            BY <1>3, <2>1, <2>3
      <4> QED BY <4>1 DEF Target, n
    <3> HIDE DEF loops, loop
    <3> QED BY <1>1, <3>2, <3>5, <3>6
  <2> QED BY <1>3, <2>1, <2>2, <2>3
<1> QED BY <1>4, <1>5 DEF Within, m

\* An orderly part that is there keeps to itself within the program.
LEMMA AtOrderly ==
    ASSUME NEW rows, IsRows(rows), NEW s, Orderly(s), NEW a \in Nat, a >= 1, At(rows, a, s)
    PROVE  Stretch(rows, a, a + Len(s))
PROOF
<1>1. Body(s) /\ OneLine(s) /\ \A i \in 1..Len(s) : s[i].kind # "needs"
      BY OrderlyIsBody
<1>2. /\ Within(rows, a, a + Len(s))
      /\ \A i \in a..(a + Len(s) - 1) : i - (a - 1) \in 1..Len(s) /\ rows[i] = s[i - (a - 1)]
      BY <1>1, AtBody
<1> QED BY <1>1, <1>2 DEF Stretch, OnLineOne, OneLine

\* Stretches, one after the other.
LEMMA StretchJoined ==
    ASSUME NEW rows, NEW a \in Nat, NEW b \in Nat, NEW d \in Nat, a <= b, b <= d,
           Within(rows, a, b), Within(rows, b, d)
    PROVE  /\ Within(rows, a, d)
           /\ OnLineOne(rows, a, b) /\ OnLineOne(rows, b, d) => OnLineOne(rows, a, d)
           /\ Stretch(rows, a, b) /\ Stretch(rows, b, d) => Stretch(rows, a, d)
PROOF
<1>1. ASSUME NEW i \in a..(d - 1), i \notin a..(b - 1) PROVE i \in b..(d - 1)
      BY <1>1
<1>2. ASSUME NEW i \in a..(d - 1)
      PROVE  /\ Inner(rows[i]) /\ LoopsBack(rows[i], i, a)
             /\ Protects(rows[i]) => Target(rows, i) \in a..d
  <2>1. CASE i \in a..(b - 1)
        BY <2>1 DEF Within
  <2>2. CASE i \in b..(d - 1)
    <3>1. Inner(rows[i]) /\ LoopsBack(rows[i], i, b) /\ (Protects(rows[i]) => Target(rows, i) \in b..d)
          BY <2>2 DEF Within
    <3> QED BY <3>1 DEF LoopsBack
  <2> QED BY <1>1, <2>1, <2>2
<1>3. OnLineOne(rows, a, b) /\ OnLineOne(rows, b, d) => OnLineOne(rows, a, d)
      BY <1>1 DEF OnLineOne
<1>4. Stretch(rows, a, b) /\ Stretch(rows, b, d) => \A i \in a..(d - 1) : rows[i].kind # "needs"
      BY <1>1 DEF Stretch
<1>5. Within(rows, a, d)
      BY <1>2 DEF Within
<1> QED BY <1>3, <1>4, <1>5 DEF Stretch

----------------------------------------------------------------------------
(* Programs that switch the line without looking.                           *)

\* What the rows of a line are.
LEMMA LineRowsAre ==
    /\ \A from, to : Tells(Tell(1, from, to), from, to)
    /\ \A from, to, fail : Tells(TellOr(1, from, to, fail), from, to)
    /\ \A b, rate, fail : Opens(Open(b, rate, fail), b, rate)
    /\ \A b, rate : Sounds(Sound(b, rate), b, rate)
    /\ \A b : Finds(Found(b), b) /\ Opens(OpenThere(b), b, NoBaud)
    /\ \A b : SwitchesOff(Disable(b), b) /\ Disable(b).bad = {}
    /\ \A b, fail : SwitchesOff(Call(b, "enable", {FALSE}, fail), b)
    /\ \A fail : Is(Switch(1, fail), "switch", 1) /\ Is(Verify(1, fail), "verify", 1)
    /\ Is(Recheck(1), "recheck", 1) /\ Is(Back(1), "back", 1) /\ Is(Return, "return", 1)
    /\ Is(Close(1), "close", 1) /\ Reads(Read(1))
PROOF BY DEF Tells, Opens, Sounds, Finds, SwitchesOff, Reads, Is, Row, Tell, TellOr, Open, Sound, Found, OpenThere,
         Try, Call, Disable, Switch, Verify, Recheck, Back, Return, Close, Read

\* The end of a program that switches the line without looking.
LEMMA BlindEnds ==
    ASSUME NEW rows, IsRows(rows), NEW d \in Nat, d >= 3, Len(rows) = d + 2,
           Tells(rows[1], Low, High), Opens(rows[2], 1, High), Within(rows, 3, d), OnLineOne(rows, 3, d),
           At(rows, d, <<Disable(1), Close(1), Tell(1, High, Low)>>)
    PROVE  /\ d \in 3..(Len(rows) - 2) /\ BlindRows(rows, d)
           /\ \A i \in 1..Len(rows) : rows[i].kind = "needs" => i \in 3..(d - 1)
PROOF
<1>1. rows[d] = Disable(1) /\ rows[d + 1] = Close(1) /\ rows[d + 2] = Tell(1, High, Low)
  <2> DEFINE t == <<Disable(1), Close(1), Tell(1, High, Low)>>
  <2>1. Len(t) = 3 /\ t[1] = Disable(1) /\ t[2] = Close(1) /\ t[3] = Tell(1, High, Low)
        OBVIOUS
  <2>2. \A i \in 1..Len(t) : rows[d - 1 + i] = t[i]
        BY DEF At
  <2> HIDE DEF t
  <2>3. d - 1 + 1 = d /\ d - 1 + 2 = d + 1 /\ d - 1 + 3 = d + 2
        OBVIOUS
  <2>4. rows[d - 1 + 1] = t[1] /\ rows[d - 1 + 2] = t[2] /\ rows[d - 1 + 3] = t[3]
        BY <2>1, <2>2
  <2> QED BY <2>1, <2>3, <2>4
<1>2. BlindRows(rows, d)
      BY <1>1, LineRowsAre DEF BlindRows
<1>3. ASSUME NEW i \in 1..Len(rows), rows[i].kind = "needs" PROVE i \in 3..(d - 1)
  <2>1. i \notin {1, 2, d, d + 1, d + 2}
        BY <1>2, <1>3 DEF BlindRows, Tells, Opens, SwitchesOff, Is
  <2> QED BY <2>1
<1> QED BY <1>2, <1>3

\* The parts of such a program, and where they are.
LEMMA ThreeParts ==
    ASSUME NEW h, IsRows(h), NEW s, IsRows(s), NEW t, IsRows(t), NEW rows, rows = (h \o s) \o t
    PROVE  /\ IsRows(rows) /\ Len(rows) = Len(h) + Len(s) + Len(t)
           /\ At(rows, 1, h) /\ At(rows, 1 + Len(h), s) /\ At(rows, 1 + Len(h) + Len(s), t)
PROOF
<1>1. IsRows(h \o s) /\ Len(h \o s) = Len(h) + Len(s) /\ Len(h) \in Nat /\ Len(s) \in Nat /\ Len(t) \in Nat
      BY Concatenated, Zenon
<1> DEFINE front == h \o s
<1> HIDE DEF front
<1>2. IsRows(front) /\ Len(front) = Len(h) + Len(s)
      BY <1>1 DEF front
<1>3. rows = front \o t
      BY DEF front
<1>4. IsRows(front \o t) /\ Len(front \o t) = Len(front) + Len(t)
      BY <1>2, Concatenated, Zenon
<1>5. IsRows(rows) /\ Len(rows) = Len(h) + Len(s) + Len(t) /\ Len(rows) \in Nat
      BY <1>1, <1>2, <1>3, <1>4
<1>6. At(rows, 1, front \o t)
      BY <1>3, <1>5, AtSelf
<1>7. At(rows, 1, front) /\ At(rows, 1 + Len(front), t)
  <2>1. 1 \in Nat /\ 1 >= 1
        OBVIOUS
  <2> QED BY <1>2, <1>5, <1>6, <2>1, AtJoined, Zenon
<1>8. At(rows, 1, h) /\ At(rows, 1 + Len(h), s)
  <2>1. 1 \in Nat /\ 1 >= 1 /\ At(rows, 1, h \o s)
        BY <1>7 DEF front
  <2> QED BY <1>5, <2>1, AtJoined, Zenon
<1>9. 1 + Len(front) = 1 + Len(h) + Len(s)
      BY <1>1, <1>2
<1> QED BY <1>5, <1>7, <1>8, <1>9

\* A part that keeps to itself, between the rows of Blind, makes such a program.
LEMMA BlindIs ==
    ASSUME NEW body, Body(body), OneLine(body), NEW d, d = Len(body) + 5
    PROVE  /\ IsRows(Blind(body)) /\ Len(Blind(body)) = d + 2 /\ d \in 3..(Len(Blind(body)) - 2)
           /\ BlindRows(Blind(body), d)
           /\ \A i \in 1..Len(Blind(body)) :
                Blind(body)[i].kind = "needs" => i - 4 \in 1..Len(body) /\ body[i - 4].kind = "needs"
           /\ \A i \in 1..Len(body) : Blind(body)[i + 4] = body[i]
PROOF
<1> DEFINE h == <<Tell(1, Low, High), Open(1, High, "exit"), Enable(1), Ack(1, "zero", Plain, "exit")>>
           t == <<Disable(1), Close(1), Tell(1, High, Low)>>
           rows == (h \o body) \o t
<1>1. Blind(body) = rows
      BY DEF Blind
<1>2. IsRows(h) /\ IsRows(t) /\ IsRows(body) /\ Len(h) = 4 /\ Len(t) = 3 /\ Len(body) \in Nat
      BY DEF IsRows, Body
<1>3. /\ h[1] = Tell(1, Low, High) /\ h[2] = Open(1, High, "exit") /\ h[3] = Enable(1)
      /\ h[4] = Ack(1, "zero", Plain, "exit")
      OBVIOUS
<1> HIDE DEF h
<1>4. /\ IsRows(rows) /\ Len(rows) = Len(h) + Len(body) + Len(t)
      /\ At(rows, 1, h) /\ At(rows, 1 + Len(h), body) /\ At(rows, 1 + Len(h) + Len(body), t)
  <2> HIDE DEF t
  <2> QED BY <1>2, ThreeParts, Zenon
<1> HIDE DEF rows
<1>5. Len(rows) = d + 2 /\ d \in Nat /\ d >= 5 /\ d = Len(body) + 5
      BY <1>2, <1>4
<1>6. At(rows, d, t)
      BY <1>2, <1>4, <1>5
<1>7. At(rows, 1, h) /\ At(rows, 5, body)
      BY <1>2, <1>4
<1>8. rows[1] = h[1] /\ rows[2] = h[2] /\ rows[3] = h[3] /\ rows[4] = h[4]
      BY <1>2, <1>7 DEF At
<1>9. Tells(rows[1], Low, High) /\ Opens(rows[2], 1, High) /\ Serves(rows[3]) /\ Serves(rows[4])
      BY <1>3, <1>8, LineRowsAre, ServingRows
<1>10. /\ Within(rows, 5, d)
       /\ \A i \in 5..(d - 1) : i - 4 \in 1..Len(body) /\ rows[i] = body[i - 4]
  <2>1. /\ Within(rows, 5, 5 + Len(body))
        /\ \A i \in 5..(5 + Len(body) - 1) : i - (5 - 1) \in 1..Len(body) /\ rows[i] = body[i - (5 - 1)]
        BY <1>4, <1>5, <1>7, AtBody
  <2> QED BY <1>5, <2>1
<1>11. Within(rows, 3, d) /\ OnLineOne(rows, 3, d)
  <2>1. Within(rows, 3, 5) /\ OnLineOne(rows, 3, 5)
        BY <1>9 DEF Within, OnLineOne, Serves, LoopsBack
  <2>2. OnLineOne(rows, 5, d)
        BY <1>10 DEF OnLineOne, OneLine
  <2> QED BY <1>5, <1>10, <2>1, <2>2, StretchJoined
<1>12. /\ d \in 3..(Len(rows) - 2) /\ BlindRows(rows, d)
       /\ \A i \in 1..Len(rows) : rows[i].kind = "needs" => i \in 3..(d - 1)
      BY <1>4, <1>5, <1>6, <1>9, <1>11, BlindEnds
<1>13. ASSUME NEW i \in 1..Len(rows), rows[i].kind = "needs"
       PROVE  i - 4 \in 1..Len(body) /\ body[i - 4].kind = "needs"
  <2>1. i \in 5..(d - 1)
        BY <1>5, <1>9, <1>12, <1>13 DEF Serves
  <2> QED BY <1>10, <1>13, <2>1
<1>14. ASSUME NEW i \in 1..Len(body) PROVE rows[i + 4] = body[i]
  <2>1. i + 4 \in 5..(d - 1) /\ (i + 4) - 4 = i
        BY <1>2, <1>5
  <2> QED BY <1>10, <2>1
<1> QED BY <1>1, <1>4, <1>5, <1>12, <1>13, <1>14

\* What is shown of a program of that kind.
IsBlind(rows) ==
    /\ \E d \in 3..(Len(rows) - 2) : BlindRows(rows, d)
    /\ \A i \in 1..Len(rows) : rows[i].kind # "needs"

LEMMA OrderlyIsBlind ==
    ASSUME NEW body, Orderly(body) PROVE IsBlind(Blind(body))
PROOF BY OrderlyIsBody, BlindIs DEF IsBlind

\* The programs whose rows are orderly.
LEMMA BlindPrograms ==
    /\ IsBlind(characterize) /\ IsBlind(hil_profile) /\ IsBlind(hil_auto_clear)
    /\ IsBlind(hil_soak) /\ IsBlind(hil_shortest)
PROOF
<1>1. Orderly(P1Precision)
      BY ServingRows, RoundRows DEF P1Precision, Orderly, IsRows
<1>2. Orderly(P3ErrorVsRpm)
      BY ServingRows, RoundRows DEF P3ErrorVsRpm, Orderly, IsRows
<1>3. Orderly(P5FollowError)
      BY ServingRows, RoundRows DEF P5FollowError, Orderly, IsRows
<1>4. Orderly(S2Acceleration(5))
      BY ServingRows, RoundRows DEF S2Acceleration, Orderly, IsRows
<1>5. Orderly(<<Stop(1)>>)
      BY ServingRows DEF Orderly, IsRows
<1>6. IsBlind(characterize)
      BY <1>1, <1>2, <1>3, <1>4, <1>5, OrderlyJoined, OrderlyIsBlind DEF characterize
<1>7. IsBlind(hil_profile)
  <2>1. Orderly(<<Try(1, "turn", Plain), Read(1), Try(1, "turn", Plain), Read(1)>>)
        BY ServingRows DEF Orderly, IsRows
  <2> QED BY <2>1, OrderlyIsBlind DEF hil_profile
<1>8. IsBlind(hil_auto_clear)
  <2>1. ASSUME NEW turn
        PROVE  Orderly(<<Try(1, "release", Plain), Try(1, "zero", Plain), Try(1, turn, Plain), Try(1, "protect", Plain),
                         Loop(2)>>)
    <3>1. /\ Serves(Try(1, "release", Plain)) /\ Serves(Try(1, "zero", Plain)) /\ Serves(Try(1, turn, Plain))
          /\ Serves(Try(1, "protect", Plain)) /\ Rounds(Loop(2), 2)
          BY ServingRows, RoundRows
    <3> QED BY <3>1 DEF Orderly, IsRows
  <2> QED BY <2>1, OrderlyJoined, OrderlyIsBlind DEF hil_auto_clear
<1>9. IsBlind(hil_soak)
  <2>1. Orderly(<<Ack(1, "read", Plain, "out"), Ack(1, "turn", Plain, "out"), Await(1, "out"), Loop(3)>>)
        BY ServingRows, RoundRows DEF Orderly, IsRows
  <2> QED BY <2>1, OrderlyIsBlind DEF hil_soak
<1>10. IsBlind(hil_shortest)
  <2>1. Orderly(<<Ack(1, "read", Plain, "again"), Ack(1, "turn", Plain, "again"), Ack(1, "read", Plain, "again"), Loop(3)>>)
        BY ServingRows, RoundRows DEF Orderly, IsRows
  <2> QED BY <2>1, OrderlyIsBlind DEF hil_shortest
<1> QED BY <1>6, <1>7, <1>8, <1>9, <1>10

\* hil_diagnostics, where a motor that has no stall latched skips the test of its release.
LEMMA HilDiagnosticsIsBlind == IsBlind(hil_diagnostics)
PROOF
<1> DEFINE body == <<Call(1, "protect", Plain, "exit"), Read(1), Read(1),
            Try(1, "release", Plain), Try(1, "protect", Plain), Try(1, "turn", Plain),
            Ack(1, "protect", Plain, "out"), Try(1, "release", Plain),
            Try(1, "protect", Plain), Try(1, "turn", Plain), Read(1), Here>>
           rest == <<Call(1, "protect", Plain, "exit"), Read(1), Read(1),
            Try(1, "release", Plain), Try(1, "protect", Plain), Try(1, "turn", Plain),
            Read(1), Try(1, "release", Plain),
            Try(1, "protect", Plain), Try(1, "turn", Plain), Read(1), Here>>
<1>1. IsRows(body) /\ Len(body) = 12 /\ Len(rest) = 12 /\ body[7] = Ack(1, "protect", Plain, "out") /\ body[12] = Here
      BY DEF IsRows
<1>2. \A i \in 1..12 : i # 7 => body[i] = rest[i]
      OBVIOUS
<1>3. Orderly(rest)
      BY ServingRows, RoundRows DEF Orderly, IsRows
<1> HIDE DEF body, rest
<1>4. Body(rest) /\ OneLine(rest) /\ \A i \in 1..Len(rest) : rest[i].kind # "needs"
      BY <1>3, OrderlyIsBody
<1>5. /\ Inner(body[7]) /\ body[7].line = 1 /\ body[7].kind = "call" /\ body[7].fail = "out"
      /\ body[12].kind = "loop"
      BY <1>1 DEF Ack, Here, Loop, Row, Inner
<1>6. ASSUME NEW i \in 1..12
      PROVE  /\ Inner(body[i]) /\ LoopsBack(body[i], i, 1) /\ body[i].line = 1 /\ body[i].kind # "needs"
             /\ Protects(body[i]) => body[i].fail = "out" /\ \E j \in i..12 : body[j].kind = "loop"
  <2>1. CASE i = 7
        BY <1>5, <2>1 DEF LoopsBack
  <2>2. CASE i # 7
    <3>1. /\ Inner(rest[i]) /\ LoopsBack(rest[i], i, 1) /\ rest[i].line = 1 /\ rest[i].kind # "needs"
          /\ Protects(rest[i]) => rest[i].fail = "out"
          BY <1>1, <1>4 DEF Body, OneLine
    <3>2. 12 \in i..12
          OBVIOUS
    <3> QED BY <1>2, <1>5, <2>2, <3>1, <3>2
  <2> QED BY <2>1, <2>2
<1>7. Body(body) /\ OneLine(body) /\ \A i \in 1..Len(body) : body[i].kind # "needs"
      BY <1>1, <1>6 DEF Body, OneLine
<1>8. hil_diagnostics = Blind(body)
      BY DEF hil_diagnostics, body
<1> QED BY <1>7, <1>8, BlindIs DEF IsBlind

\* hil_motor_group, of one motor.
LEMMA HilMotorGroupIsBlind == IsBlind(hil_motor_group)
PROOF
<1> DEFINE s == <<Call(1, "enable", {TRUE}, "exit"), Ack(1, "zero", Plain, "exit"), Send(1, "turn", Plain, "exit"),
                  Await(1, "exit"), Read(1), Loop(3)>>
           t == <<Disable(1), Close(1), Tell(1, High, Low)>>
<1>1. Orderly(s) /\ Len(s) = 6 /\ Len(t) = 3
      BY ServingRows, RoundRows DEF Orderly, IsRows
<1>2. /\ IsRows(hil_motor_group) /\ Len(hil_motor_group) = 11
      /\ hil_motor_group[1] = Tell(1, Low, High) /\ hil_motor_group[2] = Open(1, High, "exit")
      BY DEF hil_motor_group, IsRows
<1>3. \A i \in 1..6 : hil_motor_group[2 + i] = s[i]
      BY DEF hil_motor_group
<1>4. \A i \in 1..3 : hil_motor_group[8 + i] = t[i]
      BY DEF hil_motor_group
<1>5. At(hil_motor_group, 3, s) /\ At(hil_motor_group, 9, t)
      BY <1>1, <1>2, <1>3, <1>4 DEF At
<1> HIDE DEF s
<1>6. Stretch(hil_motor_group, 3, 9)
  <2>1. 3 \in Nat /\ 3 >= 1 /\ 3 + Len(s) = 9
        BY <1>1
  <2>2. Stretch(hil_motor_group, 3, 3 + Len(s))
        BY <1>1, <1>2, <1>5, <2>1, AtOrderly, Zenon
  <2> QED BY <2>1, <2>2
<1>7. Tells(hil_motor_group[1], Low, High) /\ Opens(hil_motor_group[2], 1, High)
      BY <1>2, LineRowsAre
<1>8. 9 \in Nat /\ 9 >= 3 /\ Len(hil_motor_group) = 9 + 2
      BY <1>2
<1>9. /\ 9 \in 3..(Len(hil_motor_group) - 2) /\ BlindRows(hil_motor_group, 9)
      /\ \A i \in 1..Len(hil_motor_group) : hil_motor_group[i].kind = "needs" => i \in 3..(9 - 1)
      BY <1>2, <1>5, <1>6, <1>7, <1>8, BlindEnds DEF Stretch
<1> QED BY <1>6, <1>9 DEF IsBlind, Stretch

\* bench_quarter_turn, too.
LEMMA BenchQuarterTurnIsBlind == IsBlind(bench_quarter_turn)
PROOF
<1> DEFINE s == <<Call(1, "enable", {TRUE}, "exit"), Ack(1, "zero", Plain, "exit"),
                  Ack(1, "read", Plain, "out"), Ack(1, "turn", Plain, "out"), Await(1, "out"), Loop(3)>>
           rows == bench_quarter_turn
<1>1. Orderly(s) /\ Len(s) = 6
      BY ServingRows, RoundRows DEF Orderly, IsRows
<1>2. /\ IsRows(rows) /\ Len(rows) = 13
      /\ rows[1] = TellOr(1, Low, High, "exit") /\ rows[2] = Open(1, High, "exit")
      /\ rows[9] = Disable(1) /\ rows[10] = Close(1) /\ rows[11] = TellOr(1, High, Low, "exit")
      /\ rows[12] = Open(1, Low, "exit") /\ rows[13] = Read(1)
      BY DEF bench_quarter_turn, IsRows
<1>3. \A i \in 1..6 : rows[2 + i] = s[i]
      BY DEF bench_quarter_turn
<1>4. At(rows, 3, s)
      BY <1>1, <1>2, <1>3 DEF At
<1> HIDE DEF s, rows
<1>5. Stretch(rows, 3, 9)
  <2>1. 3 \in Nat /\ 3 >= 1 /\ 3 + Len(s) = 9
        BY <1>1
  <2>2. Stretch(rows, 3, 3 + Len(s))
        BY <1>1, <1>2, <1>4, <2>1, AtOrderly, Zenon
  <2> QED BY <2>1, <2>2
<1>6. /\ Tells(rows[1], Low, High) /\ Opens(rows[2], 1, High) /\ SwitchesOff(rows[9], 1)
      /\ Is(rows[9 + 1], "close", 1) /\ Tells(rows[9 + 2], High, Low) /\ Opens(rows[9 + 3], 1, Low)
      /\ Reads(rows[9 + 4])
      BY <1>2, LineRowsAre
<1>7. BlindRows(rows, 9)
      BY <1>2, <1>5, <1>6 DEF BlindRows, Stretch
<1>8. ASSUME NEW i \in 1..Len(rows) PROVE rows[i].kind # "needs"
  <2>1. CASE i \in {1, 2, 9, 10, 11, 12, 13}
        BY <1>6, <2>1 DEF Tells, Opens, SwitchesOff, Reads, Is
  <2>2. CASE i \in 3..(9 - 1)
        BY <1>5, <2>2 DEF Stretch
  <2> QED BY <1>2, <2>1, <2>2
<1>9. 9 \in 3..(Len(rows) - 2)
      BY <1>2
<1> QED BY <1>7, <1>8, <1>9 DEF IsBlind, rows

\* hil_chained_moves, of two scenarios.
LEMMA HilChainedMovesIsBlind == IsBlind(hil_chained_moves)
PROOF
<1> DEFINE h == <<Tell(1, Low, High), Open(1, High, "exit"), Enable(1)>>
           s == ((run_scenario(FALSE) \o run_scenario(TRUE)) \o run_scenario(TRUE)) \o run_scenario(TRUE)
           t == <<Disable(1), Close(1), Tell(1, High, Low)>>
           rows == (h \o s) \o t
           d == 4 + Len(s)
<1>1. Orderly(run_scenario(FALSE)) /\ Orderly(run_scenario(TRUE))
      BY ServingRows, RoundRows DEF run_scenario, Orderly, IsRows
<1>2. Orderly(s)
      BY <1>1, OrderlyJoined, Zenon
<1>3. /\ IsRows(h) /\ IsRows(t) /\ Len(h) = 3 /\ Len(t) = 3
      /\ h[1] = Tell(1, Low, High) /\ h[2] = Open(1, High, "exit") /\ h[3] = Enable(1)
      BY DEF IsRows
<1>4. hil_chained_moves = rows
      BY DEF hil_chained_moves
<1> HIDE DEF h, s
<1>5. IsRows(s) /\ Len(s) \in Nat
      BY <1>2 DEF Orderly, IsRows
<1>6. /\ IsRows(rows) /\ Len(rows) = Len(h) + Len(s) + Len(t)
      /\ At(rows, 1, h) /\ At(rows, 1 + Len(h), s) /\ At(rows, 1 + Len(h) + Len(s), t)
  <2> HIDE DEF t
  <2> QED BY <1>3, <1>5, ThreeParts, Zenon
<1> HIDE DEF rows
<1>7. Len(rows) = d + 2 /\ d \in Nat /\ d >= 4
      BY <1>3, <1>5, <1>6
<1>8. At(rows, 4, s) /\ At(rows, d, t)
      BY <1>3, <1>6
<1>9. rows[1] = h[1] /\ rows[2] = h[2] /\ rows[3] = h[3]
      BY <1>3, <1>6 DEF At
<1>10. Tells(rows[1], Low, High) /\ Opens(rows[2], 1, High) /\ Serves(rows[3])
      BY <1>3, <1>9, LineRowsAre, ServingRows
<1>11. Stretch(rows, 3, d)
  <2>1. Stretch(rows, 3, 4)
        BY <1>10 DEF Stretch, Within, OnLineOne, Serves, LoopsBack
  <2>2. Stretch(rows, 4, d)
        BY <1>2, <1>6, <1>8, AtOrderly
  <2> HIDE DEF d
  <2> QED BY <1>7, <2>1, <2>2, StretchJoined DEF Stretch
<1> HIDE DEF d
<1>12. /\ d \in 3..(Len(rows) - 2) /\ BlindRows(rows, d)
       /\ \A i \in 1..Len(rows) : rows[i].kind = "needs" => i \in 3..(d - 1)
      BY <1>6, <1>7, <1>8, <1>10, <1>11, BlindEnds DEF Stretch
<1> QED BY <1>4, <1>11, <1>12 DEF IsBlind, Stretch

\* hil_drain_timing, which needs one good iteration.
LEMMA HilDrainTimingIsBlind ==
    /\ BlindRows(hil_drain_timing, 11) /\ 11 \in 3..(Len(hil_drain_timing) - 2)
    /\ DrainRows(hil_drain_timing)
    /\ \A i \in 1..Len(hil_drain_timing) : hil_drain_timing[i].kind = "needs" => i = 10
PROOF
<1> DEFINE s == <<Ack(1, "turn", Plain, "again"), Read(1), Await(1, "again"), Note, Loop(4)>>
           body == <<Ack(1, "turn", Plain, "again"), Read(1), Await(1, "again"), Note, Loop(4), Needs("exit")>>
           rows == Blind(body)
<1>1. Orderly(s) /\ Len(s) = 5
      BY ServingRows, RoundRows DEF Orderly, IsRows
<1>2. /\ IsRows(body) /\ Len(body) = 6
      /\ body[1] = Ack(1, "turn", Plain, "again") /\ body[2] = Read(1) /\ body[3] = Await(1, "again")
      /\ body[4] = Note /\ body[5] = Loop(4) /\ body[6] = Needs("exit")
      BY DEF IsRows
<1>3. \A i \in 1..5 : body[i] = s[i]
      OBVIOUS
<1>4. hil_drain_timing = rows
      BY DEF hil_drain_timing
<1> HIDE DEF s, body, rows
<1>5. /\ Inner(body[6]) /\ body[6].line = 1 /\ body[6].kind = "needs" /\ body[6].bad = {"silent"}
      /\ body[6].fail = "exit" /\ body[6].op = "needs"
      BY <1>2 DEF Needs, Row, Inner
<1>6. ASSUME NEW i \in 1..5
      PROVE  Inner(body[i]) /\ LoopsBack(body[i], i, 1) /\ ~Protects(body[i]) /\ body[i].line = 1 /\ body[i].kind # "needs"
  <2>1. i \in 1..Len(s)
        BY <1>1
  <2>2. CASE Serves(s[i])
        BY <1>3, <2>2 DEF Serves, LoopsBack
  <2>3. ASSUME NEW k \in Nat, k < i, Rounds(s[i], k) 
        PROVE  Inner(body[i]) /\ LoopsBack(body[i], i, 1) /\ ~Protects(body[i]) /\ body[i].line = 1 /\ body[i].kind # "needs"
    <3>1. 1 <= i - k
          BY <2>3
    <3> QED BY <1>3, <2>3, <3>1 DEF Rounds, Inner, LoopsBack, Protects, Sending
  <2> QED BY <1>1, <2>1, <2>2, <2>3 DEF Orderly
<1>7. ~Protects(body[6]) /\ LoopsBack(body[6], 6, 1)
      BY <1>5 DEF Protects, LoopsBack
<1>8. Body(body) /\ OneLine(body)
  <2>1. \A i \in 1..6 : /\ Inner(body[i]) /\ LoopsBack(body[i], i, 1) /\ ~Protects(body[i]) /\ body[i].line = 1
    <3>1. \A i \in 1..6 : i \in 1..5 \/ i = 6
          OBVIOUS
    <3> QED BY <1>5, <1>6, <1>7, <3>1
  <2> QED BY <1>2, <2>1 DEF Body, OneLine
<1>9. 11 = Len(body) + 5
      BY <1>2
<1>10. /\ IsRows(rows) /\ Len(rows) = 13 /\ 11 \in 3..(Len(rows) - 2)
       /\ BlindRows(rows, 11)
       /\ \A i \in 1..Len(rows) : rows[i].kind = "needs" => i - 4 \in 1..6 /\ body[i - 4].kind = "needs"
       /\ \A i \in 1..6 : rows[i + 4] = body[i]
  <2>1. /\ IsRows(rows) /\ Len(rows) = 11 + 2 /\ 11 \in 3..(Len(rows) - 2)
        /\ BlindRows(rows, 11)
        /\ \A i \in 1..Len(rows) : rows[i].kind = "needs" => i - 4 \in 1..Len(body) /\ body[i - 4].kind = "needs"
        /\ \A i \in 1..Len(body) : rows[i + 4] = body[i]
        BY <1>8, <1>9, BlindIs, Zenon DEF rows
  <2> QED BY <1>2, <2>1
<1>11. ASSUME NEW i \in 1..Len(rows), rows[i].kind = "needs" PROVE i = 10
  <2>1. i - 4 \in 1..6 /\ body[i - 4].kind = "needs"
        BY <1>10, <1>11
  <2>2. i - 4 \notin 1..5
        BY <1>6, <2>1
  <2> QED BY <1>10, <2>1, <2>2
<1>12. /\ rows[5] = body[1] /\ rows[6] = body[2] /\ rows[7] = body[3] /\ rows[8] = body[4] /\ rows[9] = body[5]
       /\ rows[10] = body[6]
  <2>1. /\ rows[1 + 4] = body[1] /\ rows[2 + 4] = body[2] /\ rows[3 + 4] = body[3] /\ rows[4 + 4] = body[4]
        /\ rows[5 + 4] = body[5] /\ rows[6 + 4] = body[6]
        BY <1>10
  <2> QED BY <2>1
<1>13. /\ rows[1] = Tell(1, Low, High) /\ rows[2] = Open(1, High, "exit") /\ rows[3] = Enable(1)
       /\ rows[4] = Ack(1, "zero", Plain, "exit")
       /\ rows[11] = Disable(1) /\ rows[12] = Close(1) /\ rows[13] = Tell(1, High, Low)
  <2> DEFINE h == <<Tell(1, Low, High), Open(1, High, "exit"), Enable(1), Ack(1, "zero", Plain, "exit")>>
             t == <<Disable(1), Close(1), Tell(1, High, Low)>>
  <2>1. /\ IsRows(h) /\ Len(h) = 4 /\ h[1] = Tell(1, Low, High) /\ h[2] = Open(1, High, "exit") /\ h[3] = Enable(1)
        /\ h[4] = Ack(1, "zero", Plain, "exit")
        BY DEF IsRows
  <2>2. IsRows(t) /\ Len(t) = 3 /\ t[1] = Disable(1) /\ t[2] = Close(1) /\ t[3] = Tell(1, High, Low)
        BY DEF IsRows
  <2>3. rows = (h \o body) \o t
        BY DEF rows, Blind
  <2> HIDE DEF h, t
  <2>4. At(rows, 1, h) /\ At(rows, 1 + Len(h) + Len(body), t)
        BY <1>2, <2>1, <2>2, <2>3, ThreeParts, Zenon
  <2>5. \A i \in 1..4 : rows[1 - 1 + i] = h[i]
        BY <2>1, <2>4 DEF At
  <2>6. \A i \in 1..3 : rows[(1 + 4 + 6) - 1 + i] = t[i]
        BY <1>2, <2>1, <2>2, <2>4 DEF At
  <2>7. /\ rows[1 - 1 + 1] = h[1] /\ rows[1 - 1 + 2] = h[2] /\ rows[1 - 1 + 3] = h[3] /\ rows[1 - 1 + 4] = h[4]
        /\ rows[(1 + 4 + 6) - 1 + 1] = t[1] /\ rows[(1 + 4 + 6) - 1 + 2] = t[2] /\ rows[(1 + 4 + 6) - 1 + 3] = t[3]
        BY <2>5, <2>6
  <2> QED BY <2>1, <2>2, <2>7
<1>14. /\ \A i \in {1, 3, 11, 12, 13} : rows[i].fail = "next" /\ rows[i].kind # "loop"
       /\ \A i \in {2, 4} : rows[i].fail = "exit" /\ rows[i].kind # "loop"
      BY <1>13 DEF Tell, TellOr, Open, Enable, Try, Ack, Disable, Close, Row
<1>15. \A i \in {1, 2, 3, 4, 11, 12, 13} : rows[i].kind # "loop" /\ Target(rows, i) \in {i + 1, 14}
  <2>1. \A i \in {1, 3, 11, 12, 13} : Target(rows, i) = i + 1
        BY <1>14 DEF Target
  <2>2. \A i \in {2, 4} : Target(rows, i) = 14
        BY <1>10, <1>14 DEF Target
  <2> QED BY <1>14, <2>1, <2>2
<1>16. /\ rows[5].kind = "call" /\ rows[5].op = "turn" /\ rows[6].kind = "call" /\ rows[6].op = "read"
       /\ rows[7].kind = "await" /\ rows[7].op = "await"
       /\ rows[8].kind = "note" /\ rows[8].bad = {} /\ rows[9].kind = "loop" /\ rows[9].bad = {}
      BY <1>2, <1>12 DEF Ack, Read, Try, Await, Note, Loop, Row
<1>17. \A i \in 5..7 : Inner(rows[i]) /\ rows[i].line = 1 /\ rows[i].kind \in {"call", "await"} /\ rows[i].op # "protect"
      BY <1>6, <1>12, <1>16
<1>18. "done" \notin rows[10].bad /\ rows[10].kind = "needs" /\ Target(rows, 10) = 14
  <2>1. rows[10].fail = "exit" => Target(rows, 10) = Len(rows) + 1
        BY DEF Target
  <2> QED BY <1>5, <1>10, <1>12, <2>1
<1>19. DrainRows(rows)
      BY <1>10, <1>15, <1>16, <1>17, <1>18 DEF DrainRows
<1> QED BY <1>4, <1>10, <1>11, <1>19

----------------------------------------------------------------------------
(* Programs that look for the motor.                                        *)

IsScan(rows) == \E o, d \in 5..Len(rows) : o < d /\ ScanRows(rows, o, d)

\* A program that is put together from its parts, the last of which comes off.
LEMMA LastPart ==
    ASSUME NEW s, IsRows(s), NEW t, IsRows(t), NEW r, r = s \o t
    PROVE  /\ IsRows(r) /\ Len(r) = Len(s) + Len(t) /\ Len(s) \in Nat /\ Len(t) \in Nat
           /\ \A rows : Len(rows) \in Nat /\ At(rows, 1, r) => At(rows, 1, s) /\ At(rows, 1 + Len(s), t)
PROOF
<1>1. IsRows(s \o t) /\ Len(s \o t) = Len(s) + Len(t) /\ Len(s) \in Nat /\ Len(t) \in Nat
      BY Concatenated, Zenon
<1>2. ASSUME NEW rows, Len(rows) \in Nat, At(rows, 1, s \o t)
      PROVE  At(rows, 1, s) /\ At(rows, 1 + Len(s), t)
  <2>1. 1 \in Nat /\ 1 >= 1
        OBVIOUS
  <2> QED BY <1>2, <2>1, AtJoined, Zenon
<1> QED BY <1>1, <1>2

\* A part that starts as another does.
LEMMA AtStart ==
    ASSUME NEW rows, Len(rows) \in Nat, NEW a \in Nat, NEW s, At(rows, a, s), Len(s) \in Nat,
           NEW t, NEW m \in Nat, Len(t) = m, m <= Len(s), \A i \in 1..m : s[i] = t[i]
    PROVE  At(rows, a, t)
PROOF
<1> DEFINE n == Len(rows)
           l == Len(s)
<1>1. a + l <= n + 1 /\ (\A i \in 1..l : rows[a - 1 + i] = s[i]) /\ n \in Nat /\ l \in Nat /\ m <= l
      BY DEF At
<1> HIDE DEF n, l
<1>2. a + m <= n + 1 /\ \A i \in 1..m : i \in 1..l
      BY <1>1
<1>3. \A i \in 1..m : rows[a - 1 + i] = t[i]
      BY <1>1, <1>2
<1> QED BY <1>2, <1>3 DEF At, n

\* An orderly part, at a given place.
LEMMA OrderlyAt ==
    ASSUME NEW rows, IsRows(rows), NEW s, Orderly(s), NEW a \in Nat, a >= 1, At(rows, a, s),
           NEW d, d = a + Len(s)
    PROVE  Stretch(rows, a, d) /\ d \in Nat /\ a <= d
PROOF
<1>1. Stretch(rows, a, a + Len(s))
      BY AtOrderly, Zenon
<1>2. Len(s) \in Nat
      BY DEF Orderly, IsRows
<1> QED BY <1>1, <1>2

LEMMA OrderlyOn ==
    ASSUME NEW rows, IsRows(rows), NEW s, Orderly(s), NEW a \in Nat, NEW b \in Nat, 1 <= a, a <= b, Stretch(rows, a, b),
           At(rows, b, s), NEW n \in Nat, Len(s) = n, NEW d, d = b + n
    PROVE  Stretch(rows, a, d)
PROOF
<1>1. Stretch(rows, b, d) /\ d \in Nat /\ b <= d
      BY OrderlyAt
<1> QED BY <1>1, StretchJoined DEF Stretch

LEMMA ServesOn ==
    ASSUME NEW rows, NEW a \in Nat, Serves(rows[a])
    PROVE  Stretch(rows, a, a + 1)
PROOF
<1>1. \A i \in a..((a + 1) - 1) : i = a
      OBVIOUS
<1> QED BY <1>1 DEF Stretch, Within, OnLineOne, Serves, LoopsBack

\* The program from row o on, of which the part up to row d keeps to itself.
ScanRowsAt(rows, o, d) ==
    /\ o \in 5..Len(rows) /\ d \in 5..Len(rows) /\ o < d
    /\ rows[1] = Sound(1, High) /\ rows[2] = Sound(1, Low) /\ rows[3] = Found(1)
    /\ \E fail : rows[4] = Switch(1, fail)
    /\ \A i \in 5..(o - 1) : rows[i] = Recheck(1) \/ \E fail : rows[i] = Verify(1, fail)
    /\ rows[o] = Open(1, High, "exit") \/ rows[o] = OpenThere(1)
    /\ Within(rows, o + 1, d) /\ OnLineOne(rows, o + 1, d)
    /\ \A i \in (o + 1)..(d - 1) : rows[i].kind = "needs" => d = Len(rows) /\ rows[i].fail = "off"
    /\ rows[d] = Disable(1)
    /\ Len(rows) = d \/ rows[d + 1] = Close(1)
    /\ Len(rows) \in {d, d + 1} \/ (Len(rows) = d + 4 /\ rows[d + 2] = Back(1) /\ rows[d + 3] = Return
                                    /\ rows[d + 4] = Disable(1))

\* A program that opens with Seek and keeps to itself until it disables its motor has that shape.
LEMMA ScanIs ==
    ASSUME NEW rows, NEW o, NEW d, ScanRowsAt(rows, o, d)
    PROVE  IsScan(rows)
PROOF
<1> USE DEF ScanRowsAt
<1>1. Sounds(rows[1], 1, High) /\ Sounds(rows[2], 1, Low) /\ Finds(rows[3], 1) /\ Is(rows[4], "switch", 1)
      BY LineRowsAre
<1>2. ASSUME NEW i \in 5..(o - 1) PROVE Is(rows[i], "verify", 1) \/ Is(rows[i], "recheck", 1)
  <2>1. rows[i] = Recheck(1) \/ \E fail : rows[i] = Verify(1, fail)
        OBVIOUS
  <2> QED BY <2>1, LineRowsAre
<1>3. (Opens(rows[o], 1, High) \/ Opens(rows[o], 1, NoBaud)) /\ SwitchesOff(rows[d], 1)
      BY LineRowsAre
<1>4. Len(rows) # d => Is(rows[d + 1], "close", 1)
      BY LineRowsAre
<1>5. Len(rows) \notin {d, d + 1} => Len(rows) = d + 4 /\ Is(rows[d + 2], "back", 1) /\ Is(rows[d + 3], "return", 1)
                        /\ SwitchesOff(rows[d + 4], 1)
      BY LineRowsAre
<1>6. ScanRows(rows, o, d)
      BY <1>1, <1>2, <1>3, <1>4, <1>5 DEF ScanRows
<1> QED BY <1>6 DEF IsScan

LEMMA ProbeIs ==
    ASSUME NEW b
    PROVE  IsRows(Probe(b)) /\ Len(Probe(b)) = 2 /\ Probe(b)[1] = Sound(b, High) /\ Probe(b)[2] = Sound(b, Low)
PROOF BY DEF Probe, IsRows

LEMMA EndOffIs == IsRows(EndOff) /\ Len(EndOff) = 2 /\ EndOff[1] = Return /\ EndOff[2] = Disable(1)
PROOF BY DEF EndOff, IsRows

LEMMA SeekIs ==
    /\ IsRows(Seek) /\ Len(Seek) = 6
    /\ Seek[1] = Sound(1, High) /\ Seek[2] = Sound(1, Low) /\ Seek[3] = Found(1) /\ Seek[4] = Switch(1, "next")
    /\ Seek[5] = Open(1, High, "exit") /\ Seek[6] = Ack(1, "enable", {TRUE}, "exit")
PROOF
<1> DEFINE s == <<Found(1), Switch(1, "next"), Open(1, High, "exit"), Ack(1, "enable", {TRUE}, "exit")>>
           p == Probe(1)
<1>1. /\ IsRows(s) /\ Len(s) = 4 /\ s[1] = Found(1) /\ s[2] = Switch(1, "next") /\ s[3] = Open(1, High, "exit")
      /\ s[4] = Ack(1, "enable", {TRUE}, "exit")
      BY DEF IsRows
<1>2. Seek = p \o s
      BY DEF Seek
<1>3. IsRows(p) /\ Len(p) = 2 /\ p[1] = Sound(1, High) /\ p[2] = Sound(1, Low)
      BY ProbeIs
<1> HIDE DEF s, p
<1>4. IsRows(Seek) /\ Len(Seek) = 6 /\ At(Seek, 1, p) /\ At(Seek, 3, s)
  <2>1. IsRows(p) /\ IsRows(s)
        BY <1>1, <1>3
  <2>2. /\ IsRows(Seek) /\ Len(Seek) = Len(p) + Len(s)
        /\ \A rows : Len(rows) \in Nat /\ At(rows, 1, Seek) => At(rows, 1, p) /\ At(rows, 1 + Len(p), s)
        BY <1>2, <2>1, LastPart, Zenon
  <2>3. Len(Seek) = 6 /\ At(Seek, 1, Seek)
        BY <1>1, <1>3, <2>2, AtSelf
  <2>4. At(Seek, 1, p) /\ At(Seek, 1 + Len(p), s)
        BY <2>2, <2>3
  <2>5. 1 + Len(p) = 3
        BY <1>3
  <2> QED BY <2>2, <2>3, <2>4, <2>5
<1>5. \A i \in 1..2 : Seek[1 - 1 + i] = p[i]
      BY <1>3, <1>4 DEF At
<1>6. \A i \in 1..4 : Seek[3 - 1 + i] = s[i]
      BY <1>1, <1>4 DEF At
<1>7. /\ Seek[1 - 1 + 1] = p[1] /\ Seek[1 - 1 + 2] = p[2]
      /\ Seek[3 - 1 + 1] = s[1] /\ Seek[3 - 1 + 2] = s[2] /\ Seek[3 - 1 + 3] = s[3] /\ Seek[3 - 1 + 4] = s[4]
      BY <1>5, <1>6
<1> QED BY <1>1, <1>3, <1>4, <1>7

LEMMA SeekAt ==
    ASSUME NEW rows, At(rows, 1, Seek)
    PROVE  /\ rows[1] = Sound(1, High) /\ rows[2] = Sound(1, Low) /\ rows[3] = Found(1) /\ rows[4] = Switch(1, "next")
           /\ rows[5] = Open(1, High, "exit") /\ rows[6] = Ack(1, "enable", {TRUE}, "exit")
PROOF
<1>1. \A i \in 1..6 : rows[1 - 1 + i] = Seek[i]
      BY SeekIs DEF At
<1>2. /\ rows[1 - 1 + 1] = Seek[1] /\ rows[1 - 1 + 2] = Seek[2] /\ rows[1 - 1 + 3] = Seek[3]
      /\ rows[1 - 1 + 4] = Seek[4] /\ rows[1 - 1 + 5] = Seek[5] /\ rows[1 - 1 + 6] = Seek[6]
      BY <1>1
<1> QED BY <1>2, SeekIs

LEMMA EndOffAt ==
    ASSUME NEW rows, NEW a \in Nat, At(rows, a, EndOff)
    PROVE  rows[a] = Return /\ rows[a + 1] = Disable(1)
PROOF
<1>1. \A i \in 1..2 : rows[a - 1 + i] = EndOff[i]
      BY EndOffIs DEF At
<1>2. rows[a - 1 + 1] = EndOff[1] /\ rows[a - 1 + 2] = EndOff[2] /\ a - 1 + 1 = a /\ a - 1 + 2 = a + 1
      BY <1>1
<1> QED BY <1>2, EndOffIs

LEMMA HilAutoCalibrateIsScan == IsScan(hil_auto_calibrate)
PROOF
<1> DEFINE m == <<Ack(1, "zero", Plain, "off"),
              Ack(1, "turn", Plain, "out"), Ack(1, "zero", Plain, "out"),
              Try(1, "clear_and_turn", Plain), Read(1), Try(1, "clear_and_turn", Plain), Read(1), Here,
              Disable(1), Close(1), Back(1)>>
           s == <<Ack(1, "zero", Plain, "off"),
              Ack(1, "turn", Plain, "out"), Ack(1, "zero", Plain, "out"),
              Try(1, "clear_and_turn", Plain), Read(1), Try(1, "clear_and_turn", Plain), Read(1), Here>>
           rows == (Seek \o m) \o EndOff
<1>1. IsRows(m) /\ Len(m) = 11 /\ m[9] = Disable(1) /\ m[10] = Close(1) /\ m[11] = Back(1)
      BY DEF IsRows
<1>2. Orderly(s) /\ Len(s) = 8 /\ \A i \in 1..8 : m[i] = s[i]
  <2>1. Orderly(s)
        BY ServingRows, RoundRows DEF Orderly, IsRows
  <2> QED BY <2>1
<1>3. hil_auto_calibrate = rows
      BY DEF hil_auto_calibrate
<1> HIDE DEF m, s
<1>4. IsRows(rows) /\ Len(rows) = 19 /\ At(rows, 1, Seek) /\ At(rows, 7, m) /\ At(rows, 18, EndOff)
  <2>1. /\ IsRows(rows) /\ Len(rows) = Len(Seek) + Len(m) + Len(EndOff)
        /\ At(rows, 1, Seek) /\ At(rows, 1 + Len(Seek), m) /\ At(rows, 1 + Len(Seek) + Len(m), EndOff)
    <3>1. IsRows(Seek) /\ IsRows(m) /\ IsRows(EndOff)
          BY <1>1, SeekIs, EndOffIs
    <3> QED BY <3>1, ThreeParts, Zenon
  <2>2. /\ Len(Seek) + Len(m) + Len(EndOff) = 19 /\ 1 + Len(Seek) = 7 /\ 1 + Len(Seek) + Len(m) = 18
        BY <1>1, SeekIs, EndOffIs
  <2> HIDE DEF rows
  <2> QED BY <2>1, <2>2
<1> HIDE DEF rows
<1>5. rows[15] = Disable(1) /\ rows[16] = Close(1) /\ rows[17] = Back(1)
  <2>1. \A i \in 1..11 : rows[7 - 1 + i] = m[i]
        BY <1>1, <1>4 DEF At
  <2>2. rows[7 - 1 + 9] = m[9] /\ rows[7 - 1 + 10] = m[10] /\ rows[7 - 1 + 11] = m[11]
        BY <2>1
  <2> QED BY <1>1, <2>2
<1>6. rows[18] = Return /\ rows[18 + 1] = Disable(1)
      BY <1>4, EndOffAt
<1>7. Stretch(rows, 6, 15)
  <2>1. Stretch(rows, 6, 7)
    <3>1. Serves(rows[6])
          BY <1>4, SeekAt, ServingRows
    <3>2. Stretch(rows, 6, 6 + 1)
          BY <3>1, ServesOn
    <3> QED BY <3>2
  <2>2. At(rows, 7, s)
    <3>1. Len(rows) \in Nat /\ 7 \in Nat /\ Len(m) \in Nat /\ 8 \in Nat /\ 8 <= Len(m)
          BY <1>1, <1>4
    <3> QED BY <1>2, <1>4, <3>1, AtStart
  <2>3. 6 \in Nat /\ 7 \in Nat /\ 8 \in Nat /\ 1 <= 6 /\ 6 <= 7 /\ 15 = 7 + 8
        OBVIOUS
  <2> QED BY <1>2, <1>4, <2>1, <2>2, <2>3, OrderlyOn, Zenon
<1>8. ScanRowsAt(rows, 5, 15)
      BY <1>4, <1>5, <1>6, <1>7, SeekAt DEF ScanRowsAt, Stretch
<1> QED BY <1>3, <1>4, <1>8, ScanIs

LEMMA HilVoltageSetupIsScan == IsScan(hil_voltage_setup)
PROOF
<1> DEFINE m == <<Ack(1, "current", {10, 30}, "again"),
              Ack(1, "speed", {24}, "skip"), Read(1), Ack(1, "speed", {30}, "skip"), Read(1),
              Stop(1), Loop(6), Try(1, "current", {SafeDefault}), Disable(1), Close(1)>>
           s == <<Ack(1, "current", {10, 30}, "again"),
              Ack(1, "speed", {24}, "skip"), Read(1), Ack(1, "speed", {30}, "skip"), Read(1),
              Stop(1), Loop(6), Try(1, "current", {SafeDefault})>>
           rows == Seek \o m
<1>1. IsRows(m) /\ Len(m) = 10 /\ m[9] = Disable(1) /\ m[10] = Close(1)
      BY DEF IsRows
<1>2. Orderly(s) /\ Len(s) = 8 /\ \A i \in 1..8 : m[i] = s[i]
  <2>1. Orderly(s)
        BY ServingRows, RoundRows DEF Orderly, IsRows
  <2> QED BY <2>1
<1>3. hil_voltage_setup = rows
      BY DEF hil_voltage_setup
<1> HIDE DEF m, s
<1>4. IsRows(rows) /\ Len(rows) = 16 /\ At(rows, 1, Seek) /\ At(rows, 7, m)
  <2>1. /\ IsRows(rows) /\ Len(rows) = Len(Seek) + Len(m)
        /\ \A all : Len(all) \in Nat /\ At(all, 1, rows) => At(all, 1, Seek) /\ At(all, 1 + Len(Seek), m)
    <3>1. IsRows(Seek) /\ IsRows(m)
          BY <1>1, SeekIs
    <3> QED BY <3>1, LastPart, Zenon
  <2> HIDE DEF rows
  <2>2. Len(Seek) + Len(m) = 16 /\ 1 + Len(Seek) = 7
        BY <1>1, SeekIs
  <2>3. Len(rows) = 16 /\ At(rows, 1, rows)
        BY <2>1, <2>2, AtSelf
  <2>4. At(rows, 1, Seek) /\ At(rows, 1 + Len(Seek), m)
        BY <2>1, <2>3
  <2> QED BY <2>1, <2>2, <2>3, <2>4
<1> HIDE DEF rows
<1>5. rows[15] = Disable(1) /\ rows[16] = Close(1)
  <2>1. \A i \in 1..10 : rows[7 - 1 + i] = m[i]
        BY <1>1, <1>4 DEF At
  <2>2. rows[7 - 1 + 9] = m[9] /\ rows[7 - 1 + 10] = m[10]
        BY <2>1
  <2> QED BY <1>1, <2>2
<1>6. Stretch(rows, 6, 15)
  <2>1. Stretch(rows, 6, 7)
    <3>1. Serves(rows[6])
          BY <1>4, SeekAt, ServingRows
    <3>2. Stretch(rows, 6, 6 + 1)
          BY <3>1, ServesOn
    <3> QED BY <3>2
  <2>2. At(rows, 7, s)
    <3>1. Len(rows) \in Nat /\ 7 \in Nat /\ Len(m) \in Nat /\ 8 \in Nat /\ 8 <= Len(m)
          BY <1>1, <1>4
    <3> QED BY <1>2, <1>4, <3>1, AtStart
  <2>3. 6 \in Nat /\ 7 \in Nat /\ 8 \in Nat /\ 1 <= 6 /\ 6 <= 7 /\ 15 = 7 + 8
        OBVIOUS
  <2> QED BY <1>2, <1>4, <2>1, <2>2, <2>3, OrderlyOn, Zenon
<1>7. ScanRowsAt(rows, 5, 15)
      BY <1>4, <1>5, <1>6, SeekAt DEF ScanRowsAt, Stretch
<1> QED BY <1>3, <1>7, ScanIs

LEMMA EnvelopeParts ==
    /\ Orderly(run_test1_comms) /\ Len(run_test1_comms) = 2
    /\ Orderly(do_90deg) /\ Len(do_90deg) = 5
    /\ Orderly(run_test5_overshoot) /\ Len(run_test5_overshoot) = 6
    /\ Orderly(run_test3_max_rpm) /\ Len(run_test3_max_rpm) = 4
PROOF
<1>1. Orderly(run_test1_comms) /\ Len(run_test1_comms) = 2
      BY ServingRows, RoundRows DEF Orderly, IsRows, run_test1_comms
<1>2. Orderly(do_90deg) /\ Len(do_90deg) = 5
      BY ServingRows, RoundRows DEF Orderly, IsRows, do_90deg
<1>3. Orderly(run_test5_overshoot) /\ Len(run_test5_overshoot) = 6
      BY ServingRows, RoundRows DEF Orderly, IsRows, run_test5_overshoot
<1>4. Orderly(run_test3_max_rpm) /\ Len(run_test3_max_rpm) = 4
      BY ServingRows, RoundRows DEF Orderly, IsRows, run_test3_max_rpm
<1> QED BY <1>1, <1>2, <1>3, <1>4

\* hil_envelope, which calibrates and drives the envelope it found.
LEMMA HilEnvelopeIsScan == IsScan(hil_envelope)
PROOF
<1> DEFINE k == <<Found(1), Switch(1, "next"), Verify(1, "next"), Recheck(1), OpenThere(1),
                  Ack(1, "enable", {TRUE}, "exit"), Ack(1, "zero", Plain, "off")>>
           t == <<Disable(1), Close(1), Back(1)>>
           p0 == Probe(1)
           p1 == p0 \o k
           p2 == p1 \o run_test1_comms
           p3 == p2 \o do_90deg
           p4 == p3 \o run_test5_overshoot
           p5 == p4 \o do_90deg
           p6 == p5 \o run_test3_max_rpm
           p7 == p6 \o t
           rows == p7 \o EndOff
<1>1. /\ IsRows(k) /\ Len(k) = 7 /\ k[1] = Found(1) /\ k[2] = Switch(1, "next") /\ k[3] = Verify(1, "next")
      /\ k[4] = Recheck(1) /\ k[5] = OpenThere(1) /\ k[6] = Ack(1, "enable", {TRUE}, "exit")
      /\ k[7] = Ack(1, "zero", Plain, "off")
      BY DEF IsRows
<1>2. IsRows(t) /\ Len(t) = 3 /\ t[1] = Disable(1) /\ t[2] = Close(1) /\ t[3] = Back(1)
      BY DEF IsRows
<1>3. hil_envelope = rows
      BY DEF hil_envelope
<1> HIDE DEF k, t
<1>4. /\ IsRows(run_test1_comms) /\ IsRows(do_90deg) /\ IsRows(run_test5_overshoot) /\ IsRows(run_test3_max_rpm)
      /\ IsRows(p0) /\ Len(p0) = 2 /\ IsRows(EndOff) /\ Len(EndOff) = 2
      BY EnvelopeParts, ProbeIs, EndOffIs DEF Orderly
<1>0. p0[1] = Sound(1, High) /\ p0[2] = Sound(1, Low)
      BY ProbeIs
<1> HIDE DEF p0
<1> DEFINE Splits(r, s, u) == \A all : Len(all) \in Nat /\ At(all, 1, r) => At(all, 1, s) /\ At(all, 1 + Len(s), u)
<1>5. IsRows(p1) /\ Len(p1) = Len(p0) + Len(k) /\ Splits(p1, p0, k)
      BY <1>1, <1>4, LastPart, Zenon
<1> HIDE DEF p1
<1>6. Len(p1) = 9
  <2>1. Len(p0) = 2 /\ Len(k) = 7 /\ Len(p1) = Len(p0) + Len(k)
        BY <1>1, <1>4, <1>5
  <2>2. Len(p0) + Len(k) = 9
        BY <2>1
  <2> QED BY <2>1, <2>2
<1>7. IsRows(p2) /\ Len(p2) = Len(p1) + Len(run_test1_comms) /\ Splits(p2, p1, run_test1_comms)
      BY <1>4, <1>5, LastPart, Zenon
<1>8. Len(p2) = 11
      BY <1>6, <1>7, EnvelopeParts
<1> HIDE DEF p2
<1>9. IsRows(p3) /\ Len(p3) = Len(p2) + Len(do_90deg) /\ Splits(p3, p2, do_90deg)
      BY <1>4, <1>7, LastPart, Zenon
<1>10. Len(p3) = 16
      BY <1>8, <1>9, EnvelopeParts
<1> HIDE DEF p3
<1>11. IsRows(p4) /\ Len(p4) = Len(p3) + Len(run_test5_overshoot) /\ Splits(p4, p3, run_test5_overshoot)
      BY <1>4, <1>9, LastPart, Zenon
<1>12. Len(p4) = 22
      BY <1>10, <1>11, EnvelopeParts
<1> HIDE DEF p4
<1>13. IsRows(p5) /\ Len(p5) = Len(p4) + Len(do_90deg) /\ Splits(p5, p4, do_90deg)
      BY <1>4, <1>11, LastPart, Zenon
<1>14. Len(p5) = 27
      BY <1>12, <1>13, EnvelopeParts
<1> HIDE DEF p5
<1>15. IsRows(p6) /\ Len(p6) = Len(p5) + Len(run_test3_max_rpm) /\ Splits(p6, p5, run_test3_max_rpm)
      BY <1>4, <1>13, LastPart, Zenon
<1>16. Len(p6) = 31
      BY <1>14, <1>15, EnvelopeParts
<1> HIDE DEF p6
<1>17. IsRows(p7) /\ Len(p7) = Len(p6) + Len(t) /\ Splits(p7, p6, t)
      BY <1>2, <1>15, LastPart, Zenon
<1>18. Len(p7) = 34
      BY <1>2, <1>16, <1>17
<1> HIDE DEF p7
<1>19. IsRows(rows) /\ Len(rows) = Len(p7) + Len(EndOff) /\ Splits(rows, p7, EndOff)
      BY <1>4, <1>17, LastPart, Zenon
<1>20. Len(rows) = 36 /\ Len(rows) \in Nat
      BY <1>4, <1>18, <1>19
<1> HIDE DEF rows
<1>21. At(rows, 1, rows)
      BY <1>19, AtSelf
<1>22. At(rows, 1, p7) /\ At(rows, 1 + Len(p7), EndOff)
      BY <1>19, <1>20, <1>21
<1>23. At(rows, 1, p6) /\ At(rows, 1 + Len(p6), t)
      BY <1>17, <1>20, <1>22
<1>24. At(rows, 1, p5) /\ At(rows, 1 + Len(p5), run_test3_max_rpm)
      BY <1>15, <1>20, <1>23
<1>25. At(rows, 1, p4) /\ At(rows, 1 + Len(p4), do_90deg)
      BY <1>13, <1>20, <1>24
<1>26. At(rows, 1, p3) /\ At(rows, 1 + Len(p3), run_test5_overshoot)
      BY <1>11, <1>20, <1>25
<1>27. At(rows, 1, p2) /\ At(rows, 1 + Len(p2), do_90deg)
      BY <1>9, <1>20, <1>26
<1>28. At(rows, 1, p1) /\ At(rows, 1 + Len(p1), run_test1_comms)
      BY <1>7, <1>20, <1>27
<1>29. At(rows, 1, p0) /\ At(rows, 1 + Len(p0), k)
      BY <1>5, <1>20, <1>28
<1>30. /\ 1 + Len(p0) = 3 /\ 1 + Len(p1) = 10 /\ 1 + Len(p2) = 12 /\ 1 + Len(p3) = 17 /\ 1 + Len(p4) = 23
       /\ 1 + Len(p5) = 28 /\ 1 + Len(p6) = 32 /\ 1 + Len(p7) = 35
  <2>1. 1 + Len(p0) = 3
        BY <1>4
  <2>2. /\ 1 + Len(p1) = 10 /\ 1 + Len(p2) = 12 /\ 1 + Len(p3) = 17 /\ 1 + Len(p4) = 23
        /\ 1 + Len(p5) = 28 /\ 1 + Len(p6) = 32 /\ 1 + Len(p7) = 35
        BY <1>6, <1>8, <1>10, <1>12, <1>14, <1>16, <1>18
  <2> QED BY <2>1, <2>2
<1>31. /\ At(rows, 3, k) /\ At(rows, 10, run_test1_comms) /\ At(rows, 12, do_90deg)
       /\ At(rows, 17, run_test5_overshoot) /\ At(rows, 23, do_90deg) /\ At(rows, 28, run_test3_max_rpm)
       /\ At(rows, 32, t) /\ At(rows, 35, EndOff)
      BY <1>22, <1>23, <1>24, <1>25, <1>26, <1>27, <1>28, <1>29, <1>30, Zenon
<1>32. rows[1] = Sound(1, High) /\ rows[2] = Sound(1, Low)
  <2>1. \A i \in 1..2 : rows[1 - 1 + i] = p0[i]
        BY <1>4, <1>29 DEF At
  <2>2. rows[1 - 1 + 1] = p0[1] /\ rows[1 - 1 + 2] = p0[2]
        BY <2>1
  <2> QED BY <1>0, <2>2
<1>33. /\ rows[3] = Found(1) /\ rows[4] = Switch(1, "next") /\ rows[5] = Verify(1, "next") /\ rows[6] = Recheck(1)
       /\ rows[7] = OpenThere(1) /\ Serves(rows[8]) /\ Serves(rows[9])
  <2>1. \A i \in 1..7 : rows[3 - 1 + i] = k[i]
        BY <1>1, <1>31 DEF At
  <2>2. /\ rows[3 - 1 + 1] = k[1] /\ rows[3 - 1 + 2] = k[2] /\ rows[3 - 1 + 3] = k[3] /\ rows[3 - 1 + 4] = k[4]
        /\ rows[3 - 1 + 5] = k[5] /\ rows[3 - 1 + 6] = k[6] /\ rows[3 - 1 + 7] = k[7]
        BY <2>1
  <2>3. rows[8] = Ack(1, "enable", {TRUE}, "exit") /\ rows[9] = Ack(1, "zero", Plain, "off")
        BY <1>1, <2>2
  <2> QED BY <1>1, <2>2, <2>3, ServingRows
<1>34. rows[32] = Disable(1) /\ rows[33] = Close(1) /\ rows[34] = Back(1)
  <2>1. \A i \in 1..3 : rows[32 - 1 + i] = t[i]
        BY <1>2, <1>31 DEF At
  <2>2. rows[32 - 1 + 1] = t[1] /\ rows[32 - 1 + 2] = t[2] /\ rows[32 - 1 + 3] = t[3]
        BY <2>1
  <2> QED BY <1>2, <2>2
<1>35. rows[35] = Return /\ rows[35 + 1] = Disable(1)
      BY <1>31, EndOffAt
<1>36. Stretch(rows, 8, 32)
  <2>1. Stretch(rows, 8, 8 + 1) /\ Stretch(rows, 9, 9 + 1)
        BY <1>33, ServesOn
  <2>2. Stretch(rows, 8, 9) /\ Stretch(rows, 9, 10)
        BY <2>1
  <2>3. Stretch(rows, 8, 10)
        BY <2>2, StretchJoined DEF Stretch
  <2>4. /\ 8 \in Nat /\ 10 \in Nat /\ 12 \in Nat /\ 17 \in Nat /\ 23 \in Nat /\ 28 \in Nat /\ 1 <= 8
        /\ 8 <= 10 /\ 8 <= 12 /\ 8 <= 17 /\ 8 <= 23 /\ 8 <= 28
        /\ 2 \in Nat /\ 5 \in Nat /\ 6 \in Nat /\ 4 \in Nat
        /\ 12 = 10 + 2 /\ 17 = 12 + 5 /\ 23 = 17 + 6 /\ 28 = 23 + 5 /\ 32 = 28 + 4
        OBVIOUS
  <2>5. Stretch(rows, 8, 12)
        BY <1>19, <1>31, <2>3, <2>4, EnvelopeParts, OrderlyOn, Zenon
  <2>6. Stretch(rows, 8, 17)
        BY <1>19, <1>31, <2>5, <2>4, EnvelopeParts, OrderlyOn, Zenon
  <2>7. Stretch(rows, 8, 23)
        BY <1>19, <1>31, <2>6, <2>4, EnvelopeParts, OrderlyOn, Zenon
  <2>8. Stretch(rows, 8, 28)
        BY <1>19, <1>31, <2>7, <2>4, EnvelopeParts, OrderlyOn, Zenon
  <2> QED BY <1>19, <1>31, <2>8, <2>4, EnvelopeParts, OrderlyOn, Zenon
<1>37. ScanRowsAt(rows, 7, 32)
      BY <1>20, <1>32, <1>33, <1>34, <1>35, <1>36 DEF ScanRowsAt, Stretch
<1> QED BY <1>3, <1>37, ScanIs

\* An orderly part but for one row that needs an iteration that succeeded.
LEMMA OrderlyButOne ==
    ASSUME NEW body, IsRows(body), NEW rest, Orderly(rest), Len(body) = Len(rest), NEW k \in 1..Len(body),
           \A i \in 1..Len(body) : i # k => body[i] = rest[i],
           body[k].kind = "needs", body[k].line = 1, "done" \notin body[k].bad
    PROVE  Body(body) /\ OneLine(body) /\ \A i \in 1..Len(body) : body[i].kind = "needs" => i = k
PROOF
<1>1. Body(rest) /\ OneLine(rest) /\ \A i \in 1..Len(rest) : rest[i].kind # "needs"
      BY OrderlyIsBody
<1>2. ASSUME NEW i \in 1..Len(body)
      PROVE  /\ Inner(body[i]) /\ LoopsBack(body[i], i, 1) /\ ~Protects(body[i]) /\ body[i].line = 1
             /\ body[i].kind = "needs" => i = k
  <2>1. CASE i = k
    <3>1. Inner(body[i]) /\ LoopsBack(body[i], i, 1) /\ ~Protects(body[i]) /\ body[i].line = 1
          BY <2>1 DEF Inner, LoopsBack, Protects, Sending
    <3> QED BY <2>1, <3>1
  <2>2. CASE i # k
    <3>1. i \in 1..Len(rest) /\ body[i] = rest[i]
          BY <2>2
    <3>2. Inner(rest[i]) /\ LoopsBack(rest[i], i, 1) /\ rest[i].line = 1 /\ rest[i].kind # "needs"
          BY <1>1, <3>1 DEF Body, OneLine
    <3>3. ~Protects(rest[i])
      <4>1. CASE Serves(rest[i])
            BY <4>1 DEF Serves
      <4>2. ASSUME NEW j, Rounds(rest[i], j) PROVE ~Protects(rest[i])
            BY <4>2 DEF Rounds, Protects, Sending
      <4> QED BY <3>1, <4>1, <4>2 DEF Orderly
    <3> QED BY <3>1, <3>2, <3>3
  <2> QED BY <2>1, <2>2
<1> QED BY <1>2 DEF Body, OneLine

Copied(rows, s, a, d) == \A i \in a..(d - 1) : i - (a - 1) \in 1..Len(s) /\ rows[i] = s[i - (a - 1)]

LEMMA BodyAt ==
    ASSUME NEW rows, IsRows(rows), NEW s, Body(s), NEW a \in Nat, a >= 1, At(rows, a, s),
           NEW n, n = Len(s), NEW d, d = a + n
    PROVE  Within(rows, a, d) /\ Copied(rows, s, a, d)
PROOF
<1>1. /\ Within(rows, a, a + Len(s))
      /\ \A i \in a..(a + Len(s) - 1) : i - (a - 1) \in 1..Len(s) /\ rows[i] = s[i - (a - 1)]
      BY AtBody
<1>2. Len(s) \in Nat
      BY DEF Body, IsRows
<1> QED BY <1>1, <1>2 DEF Copied

BenchRows ==
    <<Ack(1, "enable", {TRUE}, "exit"), Call(1, "read", Plain, "exit"), Try(1, "zero", Plain),
      Ack(1, "read", Plain, "again"), Ack(1, "turn", Plain, "again"), Await(1, "again"), Note, Loop(4),
      Needs("off"), Try(1, "turn", Plain),
      Ack(1, "speed", {5, 30}, "again"), Read(1), Read(1), Stop(1), Loop(4), Stop(1)>>

LEMMA BenchBody ==
    /\ IsRows(BenchRows) /\ Body(BenchRows) /\ OneLine(BenchRows) /\ Len(BenchRows) = 16
    /\ \A i \in 1..16 : BenchRows[i].kind = "needs" => BenchRows[i].fail = "off"
PROOF
<1> DEFINE rest ==
    <<Ack(1, "enable", {TRUE}, "exit"), Call(1, "read", Plain, "exit"), Try(1, "zero", Plain),
      Ack(1, "read", Plain, "again"), Ack(1, "turn", Plain, "again"), Await(1, "again"), Note, Loop(4),
      Note, Try(1, "turn", Plain),
      Ack(1, "speed", {5, 30}, "again"), Read(1), Read(1), Stop(1), Loop(4), Stop(1)>>
           body == BenchRows
<1>1. Orderly(rest)
      BY ServingRows, RoundRows DEF Orderly, IsRows
<1>2. IsRows(body) /\ Len(body) = 16 /\ Len(rest) = 16 /\ body[9] = Needs("off")
      BY DEF IsRows, BenchRows
<1>3. \A i \in 1..16 : i # 9 => body[i] = rest[i]
      BY DEF BenchRows
<1> HIDE DEF body, rest
<1>4. body[9].kind = "needs" /\ body[9].line = 1 /\ body[9].bad = {"silent"} /\ body[9].fail = "off"
      BY <1>2 DEF Needs, Row
<1>5. Len(body) = Len(rest) /\ 9 \in 1..Len(body) /\ "done" \notin body[9].bad
      /\ \A i \in 1..Len(body) : i # 9 => body[i] = rest[i]
      BY <1>2, <1>3, <1>4
<1>6. Body(body) /\ OneLine(body) /\ \A i \in 1..Len(body) : body[i].kind = "needs" => i = 9
      BY <1>1, <1>2, <1>4, <1>5, OrderlyButOne
<1>7. \A i \in 1..16 : body[i].kind = "needs" => body[i].fail = "off"
      BY <1>2, <1>4, <1>6
<1> QED BY <1>2, <1>6, <1>7 DEF body

LEMMA HilSingleMotorBenchIsScan ==
    ASSUME NEW setup \in BOOLEAN PROVE IsScan(hil_single_motor_bench(setup))
PROOF
<1> DEFINE k == <<Found(1), Switch(1, "exit"), Verify(1, "exit"), Open(1, High, "exit")>>
           opt == IF setup THEN <<Ack(1, "mode", {4}, "exit"), Send(1, "read", Plain, "exit")>> ELSE <<>>
           m == <<Ack(1, "enable", {TRUE}, "exit"), Call(1, "read", Plain, "exit"), Try(1, "zero", Plain),
                  Ack(1, "read", Plain, "again"), Ack(1, "turn", Plain, "again"), Await(1, "again"), Note, Loop(4),
                  Needs("off"), Try(1, "turn", Plain),
                  Ack(1, "speed", {5, 30}, "again"), Read(1), Read(1), Stop(1), Loop(4),
                  Stop(1), Disable(1)>>
           p0 == Probe(1)
           p1 == p0 \o k
           p2 == p1 \o opt
           rows == p2 \o m
           n == Len(opt)
           d == 23 + n
<1>1. /\ IsRows(k) /\ Len(k) = 4 /\ k[1] = Found(1) /\ k[2] = Switch(1, "exit") /\ k[3] = Verify(1, "exit")
      /\ k[4] = Open(1, High, "exit")
      BY DEF IsRows
<1>2. IsRows(m) /\ Len(m) = 17 /\ m[17] = Disable(1)
      BY DEF IsRows
<1>3. \A i \in 1..16 : m[i] = BenchRows[i]
      BY DEF BenchRows
<1>4. Orderly(opt) /\ IsRows(opt) /\ n \in {0, 2}
  <2>1. CASE setup
    <3>1. opt = <<Ack(1, "mode", {4}, "exit"), Send(1, "read", Plain, "exit")>>
          BY <2>1
    <3>2. /\ Orderly(<<Ack(1, "mode", {4}, "exit"), Send(1, "read", Plain, "exit")>>)
          /\ IsRows(<<Ack(1, "mode", {4}, "exit"), Send(1, "read", Plain, "exit")>>)
          /\ Len(<<Ack(1, "mode", {4}, "exit"), Send(1, "read", Plain, "exit")>>) = 2
          BY ServingRows DEF Orderly, IsRows
    <3> HIDE DEF opt
    <3> QED BY <3>1, <3>2
  <2>2. CASE ~setup
    <3>1. opt = <<>>
          BY <2>2
    <3>2. Orderly(<<>>) /\ IsRows(<<>>) /\ Len(<<>>) = 0
          BY DEF Orderly, IsRows
    <3> HIDE DEF opt
    <3> QED BY <3>1, <3>2
  <2> QED BY <2>1, <2>2
<1>5. hil_single_motor_bench(setup) = rows
      BY DEF hil_single_motor_bench
<1>6. IsRows(p0) /\ Len(p0) = 2 /\ p0[1] = Sound(1, High) /\ p0[2] = Sound(1, Low)
      BY ProbeIs
<1> HIDE DEF k, m, p0, opt
<1> DEFINE Splits(r, s, u) == \A all : Len(all) \in Nat /\ At(all, 1, r) => At(all, 1, s) /\ At(all, 1 + Len(s), u)
<1>7. IsRows(p1) /\ Len(p1) = Len(p0) + Len(k) /\ Splits(p1, p0, k)
      BY <1>1, <1>6, LastPart, Zenon
<1> HIDE DEF p1
<1>8. Len(p1) = 6
      BY <1>1, <1>6, <1>7
<1>9. IsRows(p2) /\ Len(p2) = Len(p1) + Len(opt) /\ Splits(p2, p1, opt)
      BY <1>4, <1>7, LastPart, Zenon
<1> HIDE DEF p2
<1>10. Len(p2) = 6 + n
      BY <1>4, <1>8, <1>9
<1>11. IsRows(rows) /\ Len(rows) = Len(p2) + Len(m) /\ Splits(rows, p2, m)
      BY <1>2, <1>9, LastPart, Zenon
<1> HIDE DEF rows, n
<1>12. Len(rows) = d /\ d \in {23, 25}
      BY <1>2, <1>4, <1>10, <1>11
<1>13. At(rows, 1, p2) /\ At(rows, 1 + Len(p2), m)
      BY <1>11, <1>12, AtSelf
<1>14. At(rows, 1, p1) /\ At(rows, 1 + Len(p1), opt)
      BY <1>9, <1>12, <1>13
<1>15. At(rows, 1, p0) /\ At(rows, 1 + Len(p0), k)
      BY <1>7, <1>12, <1>14
<1>16. 1 + Len(p0) = 3 /\ 1 + Len(p1) = 7 /\ 1 + Len(p2) = 7 + n
      BY <1>4, <1>6, <1>8, <1>10
<1>17. At(rows, 3, k) /\ At(rows, 7, opt) /\ At(rows, 7 + n, m)
      BY <1>13, <1>14, <1>15, <1>16, Zenon
<1>18. rows[1] = Sound(1, High) /\ rows[2] = Sound(1, Low)
  <2>1. \A i \in 1..2 : rows[1 - 1 + i] = p0[i]
        BY <1>6, <1>15 DEF At
  <2>2. rows[1 - 1 + 1] = p0[1] /\ rows[1 - 1 + 2] = p0[2]
        BY <2>1
  <2> QED BY <1>6, <2>2
<1>19. rows[3] = Found(1) /\ rows[4] = Switch(1, "exit") /\ rows[5] = Verify(1, "exit") /\ rows[6] = Open(1, High, "exit")
  <2>1. \A i \in 1..4 : rows[3 - 1 + i] = k[i]
        BY <1>1, <1>17 DEF At
  <2>2. rows[3 - 1 + 1] = k[1] /\ rows[3 - 1 + 2] = k[2] /\ rows[3 - 1 + 3] = k[3] /\ rows[3 - 1 + 4] = k[4]
        BY <2>1
  <2> QED BY <1>1, <2>2
<1>20. rows[d] = Disable(1)
  <2>1. \A i \in 1..17 : rows[(7 + n) - 1 + i] = m[i]
        BY <1>2, <1>17 DEF At
  <2>2. rows[(7 + n) - 1 + 17] = m[17] /\ (7 + n) - 1 + 17 = d
        BY <1>4, <2>1
  <2> QED BY <1>2, <2>2
<1>21. Stretch(rows, 7, 7 + n)
  <2>1. 7 \in Nat /\ 7 >= 1
        OBVIOUS
  <2>2. Stretch(rows, 7, 7 + Len(opt))
        BY <1>4, <1>11, <1>17, <2>1, AtOrderly, Zenon
  <2> QED BY <2>2 DEF n
<1>22. /\ Within(rows, 7 + n, d) /\ OnLineOne(rows, 7 + n, d)
       /\ \A i \in (7 + n)..(d - 1) : rows[i].kind = "needs" => rows[i].fail = "off"
  <2> DEFINE a == 7 + n
             s == BenchRows
  <2>1. a \in Nat /\ a >= 1 /\ a + 16 = d
        BY <1>4
  <2>2. IsRows(s) /\ Body(s) /\ OneLine(s) /\ Len(s) = 16
        /\ \A i \in 1..16 : s[i].kind = "needs" => s[i].fail = "off"
        BY BenchBody
  <2>3. At(rows, a, s)
    <3>1. Len(rows) \in Nat /\ Len(m) \in Nat /\ 16 \in Nat /\ 16 <= Len(m)
          BY <1>2, <1>12
    <3> HIDE DEF a, s
    <3> QED BY <1>3, <1>17, <2>1, <2>2, <3>1, AtStart DEF a, s
  <2> HIDE DEF a, s, d
  <2>4. IsRows(rows) /\ d = a + 16 /\ 16 = Len(s)
        BY <1>11, <2>1, <2>2
  <2>5. /\ Within(rows, a, d)
        /\ \A i \in a..(d - 1) : i - (a - 1) \in 1..16 /\ rows[i] = s[i - (a - 1)]
    <3>1. IsRows(rows) /\ Body(s) /\ a \in Nat /\ a >= 1 /\ At(rows, a, s) /\ 16 = Len(s) /\ d = a + 16
          BY <2>1, <2>2, <2>3, <2>4
    <3>2. Within(rows, a, d) /\ Copied(rows, s, a, d)
          BY <3>1, BodyAt, Zenon
    <3> QED BY <3>1, <3>2 DEF Copied
  <2>6. OnLineOne(rows, a, d) /\ \A i \in a..(d - 1) : rows[i].kind = "needs" => rows[i].fail = "off"
        BY <2>2, <2>5 DEF OnLineOne, OneLine
  <2> QED BY <2>5, <2>6 DEF a
<1>23. Within(rows, 7, d) /\ OnLineOne(rows, 7, d)
  <2>1. 7 \in Nat /\ 7 + n \in Nat /\ d \in Nat /\ 7 <= 7 + n /\ 7 + n <= d
        BY <1>4
  <2> HIDE DEF d
  <2> QED BY <1>21, <1>22, <2>1, StretchJoined DEF Stretch
<1>24. \A i \in 7..(d - 1) : rows[i].kind = "needs" => rows[i].fail = "off"
  <2>1. \A i \in 7..(d - 1) : i \in 7..((7 + n) - 1) \/ i \in (7 + n)..(d - 1)
        BY <1>4
  <2> HIDE DEF d
  <2> QED BY <1>21, <1>22, <2>1 DEF Stretch
<1>25. ScanRowsAt(rows, 6, d)
  <2> HIDE DEF d
  <2>1. 6 + 1 = 7 /\ 6 \in 5..Len(rows) /\ d \in 5..Len(rows) /\ 6 < d /\ \A i \in 5..(6 - 1) : i = 5
        BY <1>12
  <2>2. \A i \in 5..(6 - 1) : rows[i] = Recheck(1) \/ \E fail : rows[i] = Verify(1, fail)
        BY <1>19, <2>1
  <2> QED BY <1>12, <1>18, <1>19, <1>20, <1>23, <1>24, <2>1, <2>2 DEF ScanRowsAt
<1> QED BY <1>5, <1>25, ScanIs

----------------------------------------------------------------------------
(* Programs of the scheduler, the pair, and the others.                     *)

\* Rows whose result is ignored, on any line, and loops.
Ignores(r) == r.kind = "call" /\ r.bad = {} /\ r.line \in Buses
Patient(rows) ==
    /\ IsRows(rows)
    /\ \A i \in 1..Len(rows) : Ignores(rows[i]) \/ \E k \in Nat : k < i /\ Rounds(rows[i], k)

LEMMA IgnoringRows ==
    /\ \A op, args : \A b \in Buses : Ignores(Try(b, op, args))
    /\ \A b \in Buses : Ignores(Turn(b)) /\ Ignores(Enable(b)) /\ Ignores(Disable(b))
PROOF BY DEF Ignores, Try, Turn, Enable, Disable, Row

\* Patient parts, one after the other.
LEMMA PatientJoined ==
    ASSUME NEW s, Patient(s), NEW t, Patient(t)
    PROVE  Patient(s \o t)
PROOF
<1>1. IsRows(s) /\ IsRows(t) /\ IsRows(s \o t) /\ Len(s) \in Nat /\ Len(t) \in Nat
      BY Concatenated DEF Patient
<1>2. ASSUME NEW i \in 1..Len(s \o t)
      PROVE  Ignores((s \o t)[i]) \/ \E k \in Nat : k < i /\ Rounds((s \o t)[i], k)
  <2> DEFINE r == (s \o t)[i]
  <2>1. CASE i \in 1..Len(s) /\ r = s[i]
    <3> HIDE DEF r
    <3> QED BY <2>1 DEF Patient
  <2>2. ASSUME NEW j \in 1..Len(t), i = Len(s) + j, r = t[j]
        PROVE  Ignores(r) \/ \E k \in Nat : k < i /\ Rounds(r, k)
    <3> HIDE DEF r
    <3>1. Ignores(r) \/ \E k \in Nat : k < j /\ Rounds(r, k)
          BY <2>2 DEF Patient
    <3> QED BY <1>1, <2>2, <3>1
  <2>3. (i \in 1..Len(s) /\ r = s[i]) \/ \E j \in 1..Len(t) : i = Len(s) + j /\ r = t[j]
        BY <1>1, JoinedRows
  <2> HIDE DEF r
  <2> QED BY <2>1, <2>2, <2>3 DEF r
<1> QED BY <1>1, <1>2 DEF Patient

\* A patient part keeps to itself.
LEMMA PatientIsBody ==
    ASSUME NEW s, Patient(s)
    PROVE  Body(s) /\ \A i \in 1..Len(s) : s[i].bad = {} /\ s[i].line \in Buses /\ s[i].kind \in {"call", "loop"}
PROOF
<1>1. ASSUME NEW i \in 1..Len(s)
      PROVE  /\ Inner(s[i]) /\ LoopsBack(s[i], i, 1) /\ ~Protects(s[i])
             /\ s[i].bad = {} /\ s[i].line \in Buses /\ s[i].kind \in {"call", "loop"}
  <2>1. CASE Ignores(s[i])
        BY <2>1 DEF Ignores, Inner, LoopsBack, Protects
  <2>2. ASSUME NEW k \in Nat, k < i, Rounds(s[i], k)
        PROVE  /\ Inner(s[i]) /\ LoopsBack(s[i], i, 1) /\ ~Protects(s[i])
               /\ s[i].bad = {} /\ s[i].line \in Buses /\ s[i].kind \in {"call", "loop"}
    <3>1. 1 <= i - k
          BY <2>2 DEF Patient, IsRows
    <3> QED BY <2>2, <3>1, BusesType DEF Rounds, Inner, LoopsBack, Protects
  <2> QED BY <2>1, <2>2 DEF Patient
<1> QED BY <1>1 DEF Patient, Body

LEMMA EachIs ==
    ASSUME NEW rows, rows = [b \in 1..Lines |-> rows[b]]
    PROVE  /\ IsRows(rows) /\ Len(rows) = Lines /\ Lines \in Nat
           /\ (\A b \in Buses : Ignores(rows[b])) => Patient(rows)
PROOF
<1>1. Len(rows) = Lines /\ Lines \in Nat
      BY LinesAssumption
<1> QED BY <1>1 DEF Patient, IsRows, Buses

LEMMA EachRows ==
    /\ Patient(Each(Enable)) /\ Patient(Each(Disable)) /\ Patient(Each(Turn))
    /\ Len(Each(Enable)) = Lines /\ Len(Each(Disable)) = Lines /\ Len(Each(Turn)) = Lines
    /\ \A b \in Buses : Each(Disable)[b] = Disable(b)
PROOF
<1> DEFINE e == [b \in 1..Lines |-> Enable(b)]
           d == [b \in 1..Lines |-> Disable(b)]
           t == [b \in 1..Lines |-> Turn(b)]
<1>1. e = [b \in 1..Lines |-> e[b]] /\ \A b \in Buses : e[b] = Enable(b)
      BY DEF Buses
<1>2. d = [b \in 1..Lines |-> d[b]] /\ \A b \in Buses : d[b] = Disable(b)
      BY DEF Buses
<1>3. t = [b \in 1..Lines |-> t[b]] /\ \A b \in Buses : t[b] = Turn(b)
      BY DEF Buses
<1>4. Each(Enable) = e /\ Each(Disable) = d /\ Each(Turn) = t
      BY DEF Each
<1> HIDE DEF e, d, t
<1>5. Patient(e) /\ Patient(d) /\ Patient(t) /\ Len(e) = Lines /\ Len(d) = Lines /\ Len(t) = Lines
      BY <1>1, <1>2, <1>3, EachIs, IgnoringRows
<1> QED BY <1>2, <1>4, <1>5

\* The rows that open every line.
LEMMA OpenEach ==
    ASSUME NEW o, o = Each(LAMBDA b : Open(b, High, "next"))
    PROVE  IsRows(o) /\ Len(o) = Lines /\ \A b \in Buses : o[b] = Open(b, High, "next")
PROOF
<1>1. o = [b \in 1..Lines |-> Open(b, High, "next")]
      BY DEF Each
<1>2. o = [b \in 1..Lines |-> o[b]] /\ \A b \in Buses : o[b] = Open(b, High, "next")
      BY <1>1 DEF Buses
<1> QED BY <1>2, EachIs

Closes(l, n) == IsRows(l) /\ \A j \in 1..Len(l) : Rounds(l[j], n)

LEMMA RoundOf ==
    ASSUME NEW s, Patient(s), NEW l, Closes(l, Len(s))
    PROVE  Patient(s \o l)
PROOF
<1>1. IsRows(s) /\ IsRows(l) /\ IsRows(s \o l) /\ Len(s) \in Nat /\ Len(l) \in Nat
      BY Concatenated DEF Patient, Closes
<1>2. ASSUME NEW i \in 1..Len(s \o l)
      PROVE  Ignores((s \o l)[i]) \/ \E k \in Nat : k < i /\ Rounds((s \o l)[i], k)
  <2> DEFINE r == (s \o l)[i]
  <2>1. CASE i \in 1..Len(s) /\ r = s[i]
    <3> HIDE DEF r
    <3> QED BY <2>1 DEF Patient
  <2>2. ASSUME NEW j \in 1..Len(l), i = Len(s) + j, r = l[j]
        PROVE  Ignores(r) \/ \E k \in Nat : k < i /\ Rounds(r, k)
    <3> HIDE DEF r
    <3>1. Rounds(r, Len(s)) /\ Len(s) < i
          BY <1>1, <2>2 DEF Closes
    <3> QED BY <1>1, <3>1
  <2>3. (i \in 1..Len(s) /\ r = s[i]) \/ \E j \in 1..Len(l) : i = Len(s) + j /\ r = l[j]
        BY <1>1, JoinedRows
  <2> HIDE DEF r
  <2> QED BY <2>1, <2>2, <2>3 DEF r
<1> QED BY <1>1, <1>2 DEF Patient

LEMMA PlansArePatient == Patient(Plans) /\ Patient(Solo)
PROOF
<1>1. Patient(Solo)
      BY IgnoringRows, RoundRows, BusesType DEF Solo, Patient, IsRows
<1>2. Patient(Plans)
  <2> DEFINE t == Each(Turn)
             l == <<Loop(Lines)>>
  <2>1. Plans = t \o l
        BY DEF Plans
  <2>2. IsRows(l) /\ Len(l) = 1 /\ l[1] = Loop(Lines)
        BY DEF IsRows
  <2>3. Len(t) = Lines /\ Patient(t)
        BY EachRows
  <2> HIDE DEF t, l
  <2>4. Closes(l, Len(t))
        BY <2>2, <2>3, RoundRows DEF Closes
  <2>5. Patient(t \o l)
        BY <2>2, <2>3, <2>4, RoundOf, Zenon
  <2> QED BY <2>1, <2>5
<1> QED BY <1>1, <1>2

IsFleet(rows) == \E d \in Lines..Len(rows) : FleetRows(rows, d)

\* A patient part between the opening and the disabling of every line has the shape of the scheduler.
LEMMA FleetIs ==
    ASSUME NEW body, Patient(body) PROVE IsFleet(Fleet(body))
PROOF
<1> DEFINE o == Each(LAMBDA b : Open(b, High, "next"))
           e == Each(Enable)
           f == Each(Disable)
           p1 == o \o e
           p2 == p1 \o body
           rows == p2 \o f
           m == Len(body)
           d == Lines + Lines + m
           a == Lines + 1
           q == Lines + 1 + Lines
<1>1. Fleet(body) = rows
      BY DEF Fleet
<1>2. IsRows(o) /\ Len(o) = Lines /\ \A b \in Buses : o[b] = Open(b, High, "next")
      BY OpenEach
<1>3. /\ Patient(e) /\ IsRows(e) /\ IsRows(f) /\ Len(e) = Lines /\ Len(f) = Lines
      /\ \A b \in Buses : f[b] = Disable(b)
      BY EachRows DEF Patient
<1>4. IsRows(body) /\ Len(body) \in Nat /\ Lines \in Nat /\ Lines >= 2
      BY LinesAssumption DEF Patient, IsRows
<1> HIDE DEF o, e, f, m
<1> DEFINE Splits(r, s, u) == \A all : Len(all) \in Nat /\ At(all, 1, r) => At(all, 1, s) /\ At(all, 1 + Len(s), u)
<1>5. IsRows(p1) /\ Len(p1) = Len(o) + Len(e) /\ Splits(p1, o, e)
      BY <1>2, <1>3, LastPart, Zenon
<1> HIDE DEF p1
<1>6. IsRows(p2) /\ Len(p2) = Len(p1) + Len(body) /\ Splits(p2, p1, body)
      BY <1>4, <1>5, LastPart, Zenon
<1> HIDE DEF p2
<1>7. IsRows(rows) /\ Len(rows) = Len(p2) + Len(f) /\ Splits(rows, p2, f)
      BY <1>3, <1>6, LastPart, Zenon
<1> HIDE DEF rows
<1>8. /\ m \in Nat /\ Len(p1) = Lines + Lines /\ Len(p2) = d /\ Len(rows) = d + Lines /\ Len(rows) \in Nat
      /\ d \in Nat /\ a \in Nat /\ q \in Nat /\ a >= 1 /\ q >= 1 /\ a <= q /\ q <= d + 1
      BY <1>2, <1>3, <1>4, <1>5, <1>6, <1>7 DEF m
<1>9. At(rows, 1, p2) /\ At(rows, 1 + Len(p2), f)
      BY <1>7, <1>8, AtSelf
<1>10. At(rows, 1, p1) /\ At(rows, 1 + Len(p1), body)
      BY <1>6, <1>8, <1>9
<1>11. At(rows, 1, o) /\ At(rows, 1 + Len(o), e)
      BY <1>5, <1>8, <1>10
<1>12. 1 + Len(p2) = d + 1 /\ 1 + Len(p1) = q /\ 1 + Len(o) = a /\ q = a + Lines /\ d + 1 = q + m /\ a + (Lines + m) = d + 1
      BY <1>2, <1>4, <1>8
<1>13. At(rows, d + 1, f) /\ At(rows, q, body) /\ At(rows, a, e)
      BY <1>9, <1>10, <1>11, <1>12
<1> HIDE DEF d, a, q
<1>14. \A b \in Buses : rows[b] = Open(b, High, "next")
  <2>1. \A i \in 1..Lines : rows[1 - 1 + i] = o[i]
        BY <1>2, <1>11 DEF At
  <2>2. \A b \in Buses : b \in 1..Lines /\ 1 - 1 + b = b
        BY <1>4 DEF Buses
  <2> QED BY <1>2, <2>1, <2>2
<1>15. \A b \in Buses : rows[d + b] = Disable(b)
  <2>1. \A i \in 1..Lines : rows[(d + 1) - 1 + i] = f[i]
        BY <1>3, <1>13 DEF At
  <2>2. \A b \in Buses : b \in 1..Lines /\ (d + 1) - 1 + b = d + b
        BY <1>4, <1>8 DEF Buses
  <2> QED BY <1>3, <2>1, <2>2
<1>16. Within(rows, a, q) /\ Copied(rows, e, a, q)
  <2>1. Body(e) /\ Lines = Len(e)
        BY <1>3, PatientIsBody
  <2> QED BY <1>3, <1>7, <1>8, <1>12, <1>13, <2>1, BodyAt, Zenon
<1>17. Within(rows, q, d + 1) /\ Copied(rows, body, q, d + 1)
  <2>1. Body(body) /\ m = Len(body)
        BY PatientIsBody DEF m
  <2> QED BY <1>7, <1>8, <1>12, <1>13, <2>1, BodyAt, Zenon
<1>18. Within(rows, a, d + 1)
      BY <1>8, <1>16, <1>17, StretchJoined
<1>19. ASSUME NEW i \in a..d
       PROVE  rows[i].bad = {} /\ rows[i].line \in Buses /\ rows[i].kind \in {"call", "loop"}
  <2>1. i \in a..(q - 1) \/ i \in q..((d + 1) - 1)
        BY <1>8
  <2>2. CASE i \in a..(q - 1)
    <3>1. i - (a - 1) \in 1..Len(e) /\ rows[i] = e[i - (a - 1)]
          BY <1>16, <2>2 DEF Copied
    <3> QED BY <1>3, <3>1, PatientIsBody
  <2>3. CASE i \in q..((d + 1) - 1)
    <3>1. i - (q - 1) \in 1..Len(body) /\ rows[i] = body[i - (q - 1)]
          BY <1>17, <2>3 DEF Copied
    <3> QED BY <3>1, PatientIsBody
  <2> QED BY <2>1, <2>2, <2>3
<1>20. ASSUME NEW b \in Buses
       PROVE  Opens(rows[b], b, High) /\ SwitchesOff(rows[d + b], b) /\ rows[d + b].bad = {}
      BY <1>14, <1>15, LineRowsAre
<1>21. FleetRows(rows, d)
      BY <1>8, <1>18, <1>19, <1>20 DEF FleetRows, a
<1>22. d \in Lines..Len(rows)
      BY <1>4, <1>8 DEF d
<1> QED BY <1>1, <1>21, <1>22 DEF IsFleet

LEMMA FleetsAre ==
    /\ IsFleet(hil_scheduler) /\ IsFleet(hil_scheduler_choreography) /\ IsFleet(hil_scheduler_n3)
    /\ IsFleet(hil_motor_profile_demo) /\ IsFleet(hil_inter_move_rest_sweep)
PROOF
<1>1. Patient(Plans) /\ Patient(Solo \o Plans)
      BY PlansArePatient, PatientJoined
<1>2. Patient((Each(Turn) \o Plans) \o Plans)
      BY PlansArePatient, EachRows, PatientJoined, Zenon
<1> QED BY <1>1, <1>2, FleetIs DEF hil_scheduler, hil_scheduler_choreography, hil_scheduler_n3,
        hil_motor_profile_demo, hil_inter_move_rest_sweep

\* hil_motor_group_n2, row by row.
LEMMA PairIs == PairRows(hil_motor_group_n2)
PROOF
<1> DEFINE m == <<Found(1), Found(2), OpenThere(1), OpenThere(2),
                  Call(1, "enable", {TRUE}, "exit"), Try(2, "enable", {TRUE}),
                  Try(1, "zero", Plain), Try(2, "zero", Plain),
                  Read(1), Read(2), Send(1, "turn", Plain, "again"), Send(2, "turn", Plain, "again"), Loop(4),
                  Call(1, "enable", {FALSE}, "exit"), Disable(2)>>
           p == Probe(1)
           q == Probe(2)
           rows == (p \o q) \o m
<1>1. /\ IsRows(m) /\ Len(m) = 15 /\ m[1] = Found(1) /\ m[2] = Found(2) /\ m[3] = OpenThere(1) /\ m[4] = OpenThere(2)
      /\ m[5] = Call(1, "enable", {TRUE}, "exit") /\ m[6] = Try(2, "enable", {TRUE}) /\ m[7] = Try(1, "zero", Plain)
      /\ m[8] = Try(2, "zero", Plain) /\ m[9] = Read(1) /\ m[10] = Read(2) /\ m[11] = Send(1, "turn", Plain, "again")
      /\ m[12] = Send(2, "turn", Plain, "again") /\ m[13] = Loop(4)
      /\ m[14] = Call(1, "enable", {FALSE}, "exit") /\ m[15] = Disable(2)
      BY DEF IsRows
<1>2. hil_motor_group_n2 = rows
      BY DEF hil_motor_group_n2
<1>3. /\ IsRows(p) /\ Len(p) = 2 /\ p[1] = Sound(1, High) /\ p[2] = Sound(1, Low)
      /\ IsRows(q) /\ Len(q) = 2 /\ q[1] = Sound(2, High) /\ q[2] = Sound(2, Low)
      BY ProbeIs
<1> HIDE DEF m, p, q
<1>4. IsRows(rows) /\ Len(rows) = 19 /\ At(rows, 1, p) /\ At(rows, 3, q) /\ At(rows, 5, m)
  <2>1. /\ IsRows(rows) /\ Len(rows) = Len(p) + Len(q) + Len(m)
        /\ At(rows, 1, p) /\ At(rows, 1 + Len(p), q) /\ At(rows, 1 + Len(p) + Len(q), m)
        BY <1>1, <1>3, ThreeParts, Zenon
  <2>2. Len(p) + Len(q) + Len(m) = 19 /\ 1 + Len(p) = 3 /\ 1 + Len(p) + Len(q) = 5
        BY <1>1, <1>3
  <2> HIDE DEF rows
  <2> QED BY <2>1, <2>2
<1> HIDE DEF rows
<1>5. rows[1] = Sound(1, High) /\ rows[2] = Sound(1, Low) /\ rows[3] = Sound(2, High) /\ rows[4] = Sound(2, Low)
  <2>1. (\A i \in 1..2 : rows[1 - 1 + i] = p[i]) /\ (\A i \in 1..2 : rows[3 - 1 + i] = q[i])
        BY <1>3, <1>4 DEF At
  <2>2. rows[1 - 1 + 1] = p[1] /\ rows[1 - 1 + 2] = p[2] /\ rows[3 - 1 + 1] = q[1] /\ rows[3 - 1 + 2] = q[2]
        BY <2>1
  <2> QED BY <1>3, <2>2
<1>6. /\ rows[5] = Found(1) /\ rows[6] = Found(2) /\ rows[7] = OpenThere(1) /\ rows[8] = OpenThere(2)
      /\ rows[9] = Call(1, "enable", {TRUE}, "exit") /\ rows[10] = Try(2, "enable", {TRUE})
      /\ rows[11] = Try(1, "zero", Plain) /\ rows[12] = Try(2, "zero", Plain) /\ rows[13] = Read(1)
      /\ rows[14] = Read(2) /\ rows[15] = Send(1, "turn", Plain, "again")
      /\ rows[16] = Send(2, "turn", Plain, "again") /\ rows[17] = Loop(4)
      /\ rows[18] = Call(1, "enable", {FALSE}, "exit") /\ rows[19] = Disable(2)
  <2>1. \A i \in 1..15 : rows[5 - 1 + i] = m[i]
        BY <1>1, <1>4 DEF At
  <2>2. /\ rows[5 - 1 + 1] = m[1] /\ rows[5 - 1 + 2] = m[2] /\ rows[5 - 1 + 3] = m[3] /\ rows[5 - 1 + 4] = m[4]
        /\ rows[5 - 1 + 5] = m[5] /\ rows[5 - 1 + 6] = m[6] /\ rows[5 - 1 + 7] = m[7] /\ rows[5 - 1 + 8] = m[8]
        /\ rows[5 - 1 + 9] = m[9] /\ rows[5 - 1 + 10] = m[10] /\ rows[5 - 1 + 11] = m[11]
        /\ rows[5 - 1 + 12] = m[12] /\ rows[5 - 1 + 13] = m[13] /\ rows[5 - 1 + 14] = m[14]
        /\ rows[5 - 1 + 15] = m[15]
        BY <2>1
  <2> QED BY <1>1, <2>2
<1>7. /\ Sounds(rows[1], 1, High) /\ Sounds(rows[2], 1, Low) /\ Sounds(rows[3], 2, High) /\ Sounds(rows[4], 2, Low)
      /\ Finds(rows[5], 1) /\ Finds(rows[6], 2) /\ Opens(rows[7], 1, NoBaud) /\ Opens(rows[8], 2, NoBaud)
      /\ SwitchesOff(rows[18], 1) /\ SwitchesOff(rows[19], 2) /\ rows[19].bad = {}
      BY <1>5, <1>6, LineRowsAre
<1>8. ASSUME NEW i \in {9, 10, 11, 12, 13, 14, 15, 16, 17}
      PROVE  /\ Inner(rows[i]) /\ rows[i].line \in {1, 2} /\ ~Protects(rows[i]) /\ rows[i].kind # "needs"
             /\ rows[i].kind = "loop" => rows[i].args = {4} /\ i = 17
             /\ rows[i].line = 2 => rows[i].bad = {} \/ (i = 16 /\ rows[i].fail = "again")
  <2>1. CASE i \in {9, 11, 13, 15}
        BY <1>6, <2>1 DEF Inner, Protects, Sending, Call, Try, Send, Read, Row
  <2>2. CASE i \in {10, 12, 14, 16}
        BY <1>6, <2>2 DEF Inner, Protects, Sending, Call, Try, Send, Read, Row
  <2>3. CASE i = 17
        BY <1>6, <2>3 DEF Inner, Protects, Sending, Loop, Row
  <2> QED BY <2>1, <2>2, <2>3
<1>9. rows[16].kind # "loop" /\ rows[17].kind = "loop" /\ rows[18].kind # "loop" /\ rows[19].kind # "loop"
      /\ rows[16].fail = "again"
      BY <1>6 DEF Send, Loop, Call, Disable, Try, Row
<1>10. Target(rows, 16) = 17
  <2> DEFINE loops == {j \in 16..Len(rows) : rows[j].kind = "loop"}
             loop == CHOOSE j \in loops : \A k \in loops : j <= k
  <2>1. loops = {17}
    <3>1. ASSUME NEW j \in 16..19 PROVE j \in {16, 17, 18, 19}
          BY <3>1
    <3> QED BY <1>4, <1>9, <3>1
  <2>2. loop = 17
    <3> HIDE DEF loops
    <3> QED BY <2>1
  <2>3. Target(rows, 16) = loop
        BY <1>9 DEF Target
  <2> HIDE DEF loop
  <2> QED BY <2>2, <2>3
<1>11. \A i \in 9..17 : i \in {9, 10, 11, 12, 13, 14, 15, 16, 17}
      OBVIOUS
<1>12. PairRows(rows)
  <2>1. \A i \in 9..17 : Inner(rows[i]) /\ rows[i].line \in {1, 2} /\ ~Protects(rows[i])
        BY <1>8, <1>11
  <2>2. \A i \in 9..17 : rows[i].kind = "loop" => rows[i].args = {4} /\ i = 17
        BY <1>8, <1>11
  <2>3. \A i \in 9..17 : rows[i].kind # "needs"
        BY <1>8, <1>11
  <2>4. \A i \in 9..17 : rows[i].line = 2 => rows[i].bad = {} \/ Target(rows, i) = 17
        BY <1>8, <1>10, <1>11
  <2>5. Len(rows) = 19
        BY <1>4
  <2> QED BY <1>7, <2>1, <2>2, <2>3, <2>4, <2>5 DEF PairRows
<1> QED BY <1>2, <1>12

\* move_quarter_turn, row by row.
LEMMA QuarterIs == QuarterRows(move_quarter_turn)
PROOF
<1> DEFINE s == <<Ack(1, "enable", {TRUE}, "exit"), Ack(1, "zero", Plain, "off"),
                  Ack(1, "turn", Plain, "off"), Read(1), Loop(2)>>
           rows == move_quarter_turn
<1>1. Orderly(s) /\ Len(s) = 5
      BY ServingRows, RoundRows DEF Orderly, IsRows
<1>2. /\ IsRows(rows) /\ Len(rows) = 7 /\ rows[1] = Open(1, Low, "exit") /\ rows[7] = Disable(1)
      /\ rows[2] = Ack(1, "enable", {TRUE}, "exit") /\ rows[3] = Ack(1, "zero", Plain, "off")
      /\ rows[4] = Ack(1, "turn", Plain, "off") /\ rows[5] = Read(1) /\ rows[6] = Loop(2)
      BY DEF move_quarter_turn, IsRows
<1>3. \A i \in 1..5 : rows[1 + i] = s[i]
      BY DEF move_quarter_turn
<1>4. At(rows, 2, s)
      BY <1>1, <1>2, <1>3 DEF At
<1> HIDE DEF s, rows
<1>5. Stretch(rows, 2, 7)
  <2>1. 2 \in Nat /\ 2 >= 1 /\ 2 + Len(s) = 7
        BY <1>1
  <2>2. Stretch(rows, 2, 2 + Len(s))
        BY <1>1, <1>2, <1>4, <2>1, AtOrderly, Zenon
  <2> QED BY <2>1, <2>2
<1>6. \A i \in 2..6 : ~SwitchesOff(rows[i], 1)
  <2>1. rows[2].args = {TRUE} /\ rows[3].op = "zero" /\ rows[4].op = "turn" /\ rows[5].op = "read" /\ rows[6].op = "loop"
        BY <1>2 DEF Ack, Read, Try, Loop, Row
  <2>2. {TRUE} # {FALSE}
        OBVIOUS
  <2>3. ~SwitchesOff(rows[2], 1)
        BY <2>1, <2>2, Zenon DEF SwitchesOff
  <2>4. \A i \in 3..6 : ~SwitchesOff(rows[i], 1)
    <3>1. \A i \in 3..6 : i \in {3, 4, 5, 6}
          OBVIOUS
    <3>2. \A i \in {3, 4, 5, 6} : rows[i].op # "enable"
          BY <2>1
    <3> QED BY <3>1, <3>2 DEF SwitchesOff
  <2>5. \A i \in 2..6 : i = 2 \/ i \in 3..6
        OBVIOUS
  <2> QED BY <2>3, <2>4, <2>5
<1>7. Opens(rows[1], 1, Low) /\ SwitchesOff(rows[7], 1)
      BY <1>2, LineRowsAre
<1>8. \A i \in 2..6 : rows[i].kind # "needs"
      BY <1>5 DEF Stretch
<1> QED BY <1>2, <1>5, <1>6, <1>7, <1>8 DEF QuarterRows, Stretch, rows

\* Rows of the programs that leave the motor enabled.
Lets(r) == r.kind \in {"open", "call", "send", "await", "loop", "any"} /\ ~\E b \in Buses : IsOff(r, b)

LEMMA LettingRows ==
    /\ \A b, rate, fail : Lets(Open(b, rate, fail))
    /\ \A b, op, args, fail : op # "enable" => Lets(Call(b, op, args, fail)) /\ Lets(Ack(b, op, args, fail))
    /\ \A b, op, args : op # "enable" => Lets(Try(b, op, args))
    /\ \A b, fail : Lets(Call(b, "enable", {TRUE}, fail))
    /\ \A b : Lets(Read(b))
    /\ \A k : Lets(Loop(k))
    /\ Lets(Row("any", 1, "any", Plain, {}, "next"))
PROOF
<1>1. {TRUE} # {FALSE}
      OBVIOUS
<1>2. \A b, fail : Lets(Call(b, "enable", {TRUE}, fail))
  <2>1. ASSUME NEW b, NEW fail PROVE Lets(Call(b, "enable", {TRUE}, fail))
    <3> DEFINE r == Call(b, "enable", {TRUE}, fail)
    <3>1. r.kind = "call" /\ r.args = {TRUE}
          BY DEF Call, Row
    <3> HIDE DEF r
    <3>2. \A c : ~IsOff(r, c)
          BY <1>1, <3>1, Zenon DEF IsOff
    <3> QED BY <3>1, <3>2 DEF Lets, r
  <2> QED BY <2>1
<1>3. \A r : r.kind \in {"open", "call", "loop", "any"} /\ r.op # "enable" => Lets(r)
      BY DEF Lets, IsOff
<1>4. \A b, rate, fail : Lets(Open(b, rate, fail))
      BY <1>3 DEF Open, Row
<1>5. \A b, op, args, fail : op # "enable" => Lets(Call(b, op, args, fail)) /\ Lets(Ack(b, op, args, fail))
      BY <1>3 DEF Call, Ack, Row
<1>6. \A b, op, args : op # "enable" => Lets(Try(b, op, args))
      BY <1>3 DEF Try, Row
<1>7. \A b : Lets(Read(b))
      BY <1>6 DEF Read
<1>8. (\A k : Lets(Loop(k))) /\ Lets(Row("any", 1, "any", Plain, {}, "next"))
      BY <1>3 DEF Loop, Row
<1> QED BY <1>2, <1>4, <1>5, <1>6, <1>7, <1>8

\* The programs that leave the motor enabled.
LEMMA HumblesAre ==
    /\ HumbleRows(read_encoder) /\ HumbleRows(stress_read) /\ HumbleRows(client)
    /\ HumbleRows(hil_two_motor_sequential_compliant)
    /\ \A micro : HumbleRows(apply_profile(micro))
PROOF
<1>1. \A rows : (\A i \in 1..Len(rows) : Lets(rows[i])) => HumbleRows(rows)
      BY DEF HumbleRows, Lets
<1>2. HumbleRows(read_encoder)
  <2>1. \A i \in 1..Len(read_encoder) : Lets(read_encoder[i])
        BY LettingRows DEF read_encoder
  <2> QED BY <1>1, <2>1
<1>3. HumbleRows(stress_read)
  <2>1. \A i \in 1..Len(stress_read) : Lets(stress_read[i])
        BY LettingRows DEF stress_read
  <2> QED BY <1>1, <2>1
<1>4. HumbleRows(client)
  <2>1. \A i \in 1..Len(client) : Lets(client[i])
        BY LettingRows DEF client
  <2> QED BY <1>1, <2>1
<1>5. HumbleRows(hil_two_motor_sequential_compliant)
  <2>1. /\ Lets(Open(1, High, "exit")) /\ Lets(Open(2, High, "exit")) /\ Lets(Try(1, "stop", Plain))
        /\ Lets(Try(2, "stop", Plain)) /\ Lets(Ack(1, "protect", Plain, "skip")) /\ Lets(Try(1, "release", Plain))
        /\ Lets(Ack(2, "protect", Plain, "skip")) /\ Lets(Try(2, "release", Plain))
        /\ Lets(Call(1, "enable", {TRUE}, "exit")) /\ Lets(Call(2, "enable", {TRUE}, "exit"))
        /\ Lets(Try(1, "zero", Plain)) /\ Lets(Try(2, "zero", Plain)) /\ Lets(Try(1, "turn", Plain))
        /\ Lets(Read(1)) /\ Lets(Try(2, "turn", Plain)) /\ Lets(Read(2)) /\ Lets(Loop(4))
        BY LettingRows
  <2>2. \A i \in 1..Len(hil_two_motor_sequential_compliant) : Lets(hil_two_motor_sequential_compliant[i])
        BY <2>1 DEF hil_two_motor_sequential_compliant
  <2> QED BY <1>1, <2>2
<1>6. ASSUME NEW micro PROVE HumbleRows(apply_profile(micro))
  <2> DEFINE o == <<Open(1, Low, "exit")>>
             t == ApplyProfile(micro)
             rows == o \o t
  <2>1. IsRows(o) /\ Len(o) = 1 /\ Lets(o[1])
        BY LettingRows DEF IsRows
  <2>2. IsRows(t) /\ Len(t) = 3 /\ Lets(t[1]) /\ Lets(t[2]) /\ Lets(t[3])
        BY LettingRows DEF IsRows, ApplyProfile
  <2>3. apply_profile(micro) = rows
        BY DEF apply_profile
  <2> HIDE DEF o, t
  <2>4. /\ IsRows(rows) /\ Len(rows) = Len(o) + Len(t)
        /\ \A all : Len(all) \in Nat /\ At(all, 1, rows) => At(all, 1, o) /\ At(all, 1 + Len(o), t)
        BY <2>1, <2>2, LastPart, Zenon
  <2> HIDE DEF rows
  <2>5. Len(rows) = 4 /\ At(rows, 1, rows) /\ 1 + Len(o) = 2
        BY <2>1, <2>2, <2>4, AtSelf
  <2>6. At(rows, 1, o) /\ At(rows, 1 + Len(o), t)
        BY <2>4, <2>5
  <2>7. (\A i \in 1..1 : rows[1 - 1 + i] = o[i]) /\ (\A i \in 1..3 : rows[2 - 1 + i] = t[i])
        BY <2>1, <2>2, <2>5, <2>6 DEF At
  <2>8. rows[1 - 1 + 1] = o[1] /\ rows[2 - 1 + 1] = t[1] /\ rows[2 - 1 + 2] = t[2] /\ rows[2 - 1 + 3] = t[3]
        BY <2>7
  <2>9. \A i \in 1..Len(rows) : Lets(rows[i])
    <3>1. \A i \in 1..4 : i \in {1, 2, 3, 4}
          OBVIOUS
    <3> QED BY <2>1, <2>2, <2>5, <2>8, <3>1
  <2> QED BY <1>1, <2>3, <2>9
<1> QED BY <1>2, <1>3, <1>4, <1>5, <1>6

----------------------------------------------------------------------------
(* The table has these shapes, and keeps to two rates.                      *)

\* Every program of the table has the shape it is listed under.
LEMMA TableHasShapes == TableShapes /\ DrainRows(Table["hil_drain_timing"])
PROOF
<1>1. \A p \in Blinds \ {"hil_drain_timing"} : IsBlind(Table[p])
      BY TableIs, BlindPrograms, HilDiagnosticsIsBlind, HilMotorGroupIsBlind, BenchQuarterTurnIsBlind,
         HilChainedMovesIsBlind DEF Blinds
<1>2. /\ Table["hil_drain_timing"] = hil_drain_timing
      /\ \E d \in 3..(Len(hil_drain_timing) - 2) : BlindRows(hil_drain_timing, d)
      /\ \A i \in 1..Len(hil_drain_timing) : hil_drain_timing[i].kind = "needs" => i = 10
      BY TableIs, HilDrainTimingIsBlind
<1>3. \A p \in Blinds : \E d \in 3..(Len(Table[p]) - 2) : BlindRows(Table[p], d)
  <2>1. ASSUME NEW p \in Blinds PROVE \E d \in 3..(Len(Table[p]) - 2) : BlindRows(Table[p], d)
    <3>1. CASE p = "hil_drain_timing"
          BY <1>2, <3>1
    <3>2. CASE p # "hil_drain_timing"
          BY <1>1, <3>2 DEF IsBlind
    <3> QED BY <3>1, <3>2
  <2> QED BY <2>1
<1>4. \A p \in Blinds : \A i \in 1..Len(Table[p]) : Table[p][i].kind = "needs" => p = "hil_drain_timing" /\ i = 10
  <2>1. ASSUME NEW p \in Blinds, NEW i \in 1..Len(Table[p]), Table[p][i].kind = "needs"
        PROVE  p = "hil_drain_timing" /\ i = 10
    <3>1. p = "hil_drain_timing"
          BY <1>1, <2>1 DEF IsBlind
    <3> QED BY <1>2, <2>1, <3>1
  <2> QED BY <2>1
<1>5. \A p \in Scanners : IsScan(Table[p])
  <2>1. TRUE \in BOOLEAN /\ FALSE \in BOOLEAN
        OBVIOUS
  <2>2. IsScan(hil_single_motor_bench(TRUE)) /\ IsScan(hil_single_motor_bench(FALSE))
        BY <2>1, HilSingleMotorBenchIsScan, Zenon
  <2> QED BY <2>2, TableIs, HilAutoCalibrateIsScan, HilVoltageSetupIsScan, HilEnvelopeIsScan DEF Scanners
<1>6. \A p \in Fleets : IsFleet(Table[p])
      BY TableIs, FleetsAre DEF Fleets
<1>7. PairRows(Table[Pair]) /\ QuarterRows(Table[Quarter])
      BY TableIs, PairIs, QuarterIs DEF Pair, Quarter
<1>8. \A p \in Humble : HumbleRows(Table[p])
  <2>1. \A p \in Humble : p \in {"read_encoder", "stress_read", "apply_profile", "apply_profile_finest", "client",
                                 "hil_two_motor_sequential_compliant"}
        BY TableIs DEF Humble, Blinds, Scanners, Fleets, Pair, Quarter
  <2>2. HumbleRows(apply_profile(4)) /\ HumbleRows(apply_profile(Byte))
        BY HumblesAre
  <2> QED BY <2>1, <2>2, TableIs, HumblesAre
<1> QED BY <1>2, <1>3, <1>4, <1>5, <1>6, <1>7, <1>8, HilDrainTimingIsBlind DEF TableShapes, IsScan, IsFleet

\* Rows that neither tell nor look for a rate.
Plainest(r) == r.kind \notin {"tell", "sound", "found", "switch", "back"}

LEMMA PlainestRates == \A r : Plainest(r) => RowHasRates(r) /\ ~Switches(r)
PROOF BY DEF Plainest, RowHasRates, Switches

LEMMA BlindRates ==
    ASSUME NEW rows, Len(rows) \in Nat, NEW d \in 3..(Len(rows) - 2), BlindRows(rows, d)
    PROVE  HasRates(rows) /\ Stays(rows)
PROOF
<1>1. d \in Nat /\ (Len(rows) = d + 2 \/ Len(rows) = d + 4)
      BY DEF BlindRows
<1>2. ASSUME NEW i \in 1..Len(rows) PROVE RowHasRates(rows[i]) /\ ~Switches(rows[i])
  <2>1. CASE i \in {1, d + 2}
        BY <2>1 DEF BlindRows, Tells, Is, RowHasRates, Switches
  <2>2. CASE i \in {2, d, d + 1}
        BY <2>2, PlainestRates DEF BlindRows, Opens, SwitchesOff, Is, Plainest
  <2>3. CASE Len(rows) = d + 4 /\ i \in {d + 3, d + 4}
        BY <1>1, <2>3, PlainestRates DEF BlindRows, Opens, Reads, Is, Plainest
  <2>4. CASE i \in 3..(d - 1)
    <3>1. Inner(rows[i])
          BY <2>4 DEF BlindRows, Within
    <3> QED BY <3>1, PlainestRates DEF Inner, Plainest
  <2> QED BY <1>1, <2>1, <2>2, <2>3, <2>4
<1> QED BY <1>2 DEF HasRates, Stays

LEMMA ScanRates ==
    ASSUME NEW rows, Len(rows) \in Nat, NEW o \in 5..Len(rows), NEW d \in 5..Len(rows), o < d, ScanRows(rows, o, d)
    PROVE  HasRates(rows) /\ OneLine(rows) /\ Probes(rows, 3)
PROOF
<1>1. o \in Nat /\ d \in Nat /\ 5 <= o /\ Len(rows) \in {d, d + 1, d + 4}
      BY DEF ScanRows
<1>2. ASSUME NEW i \in 1..Len(rows) PROVE RowHasRates(rows[i]) /\ rows[i].line = 1
  <2>1. CASE i \in {1, 2}
        BY <2>1 DEF ScanRows, Sounds, Is, RowHasRates
  <2>2. CASE i \in {3, 4}
        BY <2>2 DEF ScanRows, Finds, Is, RowHasRates
  <2>3. CASE i \in 5..(o - 1)
        BY <2>3, PlainestRates DEF ScanRows, Is, Plainest
  <2>4. CASE i = o
        BY <2>4, PlainestRates DEF ScanRows, Opens, Is, Plainest
  <2>5. CASE i \in (o + 1)..(d - 1)
    <3>1. Inner(rows[i]) /\ rows[i].line = 1
          BY <2>5 DEF ScanRows, Within, OnLineOne
    <3> QED BY <3>1, PlainestRates DEF Inner, Plainest
  <2>6. CASE i = d
        BY <2>6, PlainestRates DEF ScanRows, SwitchesOff, Is, Plainest
  <2>7. CASE i = d + 1
    <3>1. Is(rows[i], "close", 1)
          BY <1>1, <2>7 DEF ScanRows
    <3> QED BY <3>1, PlainestRates DEF Is, Plainest
  <2>8. CASE i \in {d + 2, d + 3, d + 4}
    <3>1. Is(rows[d + 2], "back", 1) /\ Is(rows[d + 3], "return", 1) /\ SwitchesOff(rows[d + 4], 1)
          BY <1>1, <2>8 DEF ScanRows
    <3> QED BY <2>8, <3>1 DEF Is, SwitchesOff, RowHasRates
  <2> HIDE DEF ScanRows
  <2> QED BY <1>1, <2>1, <2>2, <2>3, <2>4, <2>5, <2>6, <2>7, <2>8
<1>3. Probes(rows, 3)
  <2>1. rows[1].kind = "sound" /\ rows[2].kind = "sound" /\ rows[3].kind = "found" /\ rows[3].line = 1
        BY DEF ScanRows, Sounds, Finds, Is
  <2>2. 3 < Len(rows) /\ \A i \in 1..(3 - 1) : i = 1 \/ i = 2
        BY <1>1
  <2> QED BY <2>1, <2>2 DEF Probes
<1> QED BY <1>2, <1>3 DEF HasRates, OneLine

LEMMA FleetRates ==
    ASSUME NEW rows, Len(rows) \in Nat, NEW d \in Lines..Len(rows), FleetRows(rows, d)
    PROVE  HasRates(rows) /\ Stays(rows)
PROOF
<1>1. d \in Nat /\ Lines \in Nat /\ Lines <= d /\ Len(rows) = d + Lines
      BY LinesAssumption DEF FleetRows
<1>2. ASSUME NEW i \in 1..Len(rows) PROVE Plainest(rows[i])
  <2>1. CASE i \in 1..Lines
    <3>1. Opens(rows[i], i, High)
          BY <2>1 DEF FleetRows, Buses
    <3> QED BY <3>1 DEF Opens, Is, Plainest
  <2>2. CASE i \in (Lines + 1)..d
    <3>1. rows[i].kind \in {"call", "loop"}
          BY <2>2 DEF FleetRows
    <3> QED BY <3>1 DEF Plainest
  <2>3. CASE i > d
    <3>1. i - d \in 1..Lines /\ d + (i - d) = i
          BY <1>1, <2>3
    <3>2. SwitchesOff(rows[d + (i - d)], i - d)
          BY <3>1 DEF FleetRows, Buses
    <3> QED BY <3>1, <3>2 DEF SwitchesOff, Is, Plainest
  <2> QED BY <1>1, <2>1, <2>2, <2>3
<1> QED BY <1>2, PlainestRates DEF HasRates, Stays

LEMMA PairRates ==
    ASSUME NEW rows, PairRows(rows) PROVE HasRates(rows) /\ Stays(rows) /\ Probes(rows, 5)
PROOF
<1>1. Len(rows) = 19
      BY DEF PairRows
<1>2. ASSUME NEW i \in 1..Len(rows) PROVE RowHasRates(rows[i]) /\ ~Switches(rows[i])
  <2>1. CASE i \in {1, 2, 3, 4}
        BY <2>1 DEF PairRows, Sounds, Is, RowHasRates, Switches
  <2>2. CASE i \in {5, 6}
        BY <2>2 DEF PairRows, Finds, Is, RowHasRates, Switches
  <2>3. CASE i \in {7, 8, 18, 19}
        BY <2>3, PlainestRates DEF PairRows, Opens, SwitchesOff, Is, Plainest
  <2>4. CASE i \in 9..17
    <3>1. Inner(rows[i])
          BY <2>4 DEF PairRows
    <3> QED BY <3>1, PlainestRates DEF Inner, Plainest
  <2> QED BY <1>1, <2>1, <2>2, <2>3, <2>4
<1>3. Probes(rows, 5)
  <2>1. /\ rows[1].kind = "sound" /\ rows[2].kind = "sound" /\ rows[3].kind = "sound" /\ rows[4].kind = "sound"
        /\ rows[5].kind = "found" /\ rows[5].line = 1
        BY DEF PairRows, Sounds, Finds, Is
  <2>2. 5 < Len(rows) /\ \A i \in 1..(5 - 1) : i \in {1, 2, 3, 4}
        BY <1>1
  <2> QED BY <2>1, <2>2 DEF Probes
<1> QED BY <1>2, <1>3 DEF HasRates, Stays

\* Every program of the table keeps to two rates, and looks before it switches back.
LEMMA TableRates == TableHasRates
PROOF
<1>1. TableShapes
      BY TableHasShapes
<1>2. \A p \in DOMAIN Table : Len(Table[p]) \in Nat
      BY CodeIs
<1>3. ASSUME NEW p \in DOMAIN Table
      PROVE  /\ HasRates(Table[p])
             /\ Stays(Table[p]) \/ (p \in Probers /\ OneLine(Table[p]))
             /\ p \in Probers => Probes(Table[p], Found1(p))
  <2>1. CASE p \in Blinds
    <3>1. HasRates(Table[p]) /\ Stays(Table[p])
          BY <1>1, <1>2, <2>1, BlindRates DEF TableShapes
    <3> QED BY <2>1, <3>1 DEF Blinds, Probers
  <2>2. CASE p \in Scanners
    <3>1. HasRates(Table[p]) /\ OneLine(Table[p]) /\ Probes(Table[p], 3)
          BY <1>1, <1>2, <2>2, ScanRates DEF TableShapes
    <3>2. p \in Probers /\ Found1(p) = 3
          BY <2>2 DEF Scanners, Probers, Found1
    <3> QED BY <3>1, <3>2
  <2>3. CASE p \in Fleets
    <3>1. HasRates(Table[p]) /\ Stays(Table[p])
          BY <1>1, <1>2, <2>3, FleetRates DEF TableShapes
    <3> QED BY <2>3, <3>1 DEF Fleets, Probers
  <2>4. CASE p = Pair
    <3>1. HasRates(Table[p]) /\ Stays(Table[p]) /\ Probes(Table[p], 5)
          BY <1>1, <2>4, PairRates DEF TableShapes
    <3>2. Found1(p) = 5
          BY <2>4 DEF Pair, Found1
    <3> QED BY <3>1, <3>2
  <2>5. CASE p = Quarter
    <3>1. QuarterRows(Table[p])
          BY <1>1, <2>5 DEF TableShapes
    <3>2. ASSUME NEW i \in 1..Len(Table[p]) PROVE Plainest(Table[p][i])
      <4>1. i = 1 \/ i = 7 \/ i \in 2..(7 - 1)
            BY <3>1 DEF QuarterRows
      <4>2. CASE i \in {1, 7}
            BY <3>1, <4>2 DEF QuarterRows, Opens, SwitchesOff, Is, Plainest
      <4>3. CASE i \in 2..(7 - 1)
        <5>1. Inner(Table[p][i])
              BY <3>1, <4>3 DEF QuarterRows, Within
        <5> QED BY <5>1 DEF Inner, Plainest
      <4> QED BY <4>1, <4>2, <4>3
    <3>3. HasRates(Table[p]) /\ Stays(Table[p])
          BY <3>2, PlainestRates DEF HasRates, Stays
    <3> QED BY <2>5, <3>3 DEF Quarter, Probers
  <2>6. CASE p \in Humble
    <3>1. HumbleRows(Table[p])
          BY <1>1, <2>6 DEF TableShapes
    <3>2. ASSUME NEW i \in 1..Len(Table[p]) PROVE Plainest(Table[p][i])
      <4>1. Table[p][i].kind \in {"open", "call", "send", "await", "loop", "any"}
            BY <3>1 DEF HumbleRows
      <4> QED BY <4>1 DEF Plainest
    <3>3. HasRates(Table[p]) /\ Stays(Table[p])
          BY <3>2, PlainestRates DEF HasRates, Stays
    <3>4. p \notin Probers
          BY <2>6 DEF Humble, Probers, Scanners, Pair
    <3> QED BY <3>3, <3>4
  <2> QED BY <2>1, <2>2, <2>3, <2>4, <2>5, <2>6 DEF Humble
<1> QED BY <1>3 DEF TableHasRates

----------------------------------------------------------------------------
(* The theorems.                                                            *)

\* No program has ended at first.
LEMMA InitTraceless == Init => NoTroubleNoTrace
PROOF BY DEF Init, NoTroubleNoTrace, Ended

\* Of every program of the table, from every state an earlier one, killed or not,
\* has left its motors in: while nothing goes wrong, a program that looks for the
\* motor or switches it blindly has its port open at the rate the motor listens at.
THEOREM LineFound == Spec => []LineIsFound
PROOF
<1>1. TableShapes /\ DrainRows(Table["hil_drain_timing"]) /\ TableHasRates
      BY TableHasShapes, TableRates
<1>2. Init => ProgramInv /\ RateInv /\ FoundInv /\ UnusedInv /\ CalmInv
      BY InitHolds, InitRates, InitUnused
<1>3. ProgramInv /\ RateInv /\ FoundInv /\ UnusedInv /\ CalmInv /\ [Next]_vars
        => (ProgramInv /\ RateInv /\ FoundInv /\ UnusedInv /\ CalmInv)'
      BY <1>1, StepKeepsInv, StepKeepsRates, StepKeepsUnused, StepKeepsCalm
<1>4. ProgramInv /\ RateInv /\ UnusedInv /\ CalmInv => LineIsFound
      BY <1>1, LinesAreFound
<1> QED BY <1>2, <1>3, <1>4, PTL DEF Spec

\* A program in which nothing goes wrong leaves the motors it disables disabled and
\* at rest, and the rate it restores as it found it, at whichever row it ends.
THEOREM CalmLeavesNoTrace == Spec => []NoTroubleNoTrace
PROOF
<1>1. TableShapes /\ DrainRows(Table["hil_drain_timing"]) /\ TableHasRates
      BY TableHasShapes, TableRates
<1>2. Init => ProgramInv /\ RateInv /\ FoundInv /\ UnusedInv /\ CalmInv /\ NoTroubleNoTrace
      BY InitHolds, InitRates, InitUnused, InitTraceless
<1>3. ProgramInv /\ RateInv /\ FoundInv /\ UnusedInv /\ CalmInv /\ NoTroubleNoTrace /\ [Next]_vars
        => (ProgramInv /\ RateInv /\ FoundInv /\ UnusedInv /\ CalmInv /\ NoTroubleNoTrace)'
      BY <1>1, StepKeepsInv, StepKeepsRates, StepKeepsUnused, StepKeepsCalm, StepKeepsTraceless
<1> QED BY <1>2, <1>3, PTL DEF Spec
=============================================================================
