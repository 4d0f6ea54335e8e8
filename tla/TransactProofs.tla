--------------------------- MODULE TransactProofs ---------------------------
(***************************************************************************)
(* transact() stays within its buffer and returns the first reply on the    *)
(* line, for every line, opcode, length of frames and size of the buffer.   *)
(***************************************************************************)
EXTENDS Transact, TLAPS

\* Where the scan stands: the frame it looks for fits, what was tried was
\* complete, and a frame that is tried is the last thing that was read.
ScanInv ==
    /\ at = "start" => bufN = 0 /\ scanPos = 0 /\ got = 0 /\ received = <<>>
    /\ at \in {"filling", "trying"} => want \in Overhead..MaxFrame
    /\ scanPos <= bufN
    /\ bufN + got <= Capacity
    /\ at = "filling" => /\ got < Need
                         /\ got > 0 => ~Overflows
    /\ at = "trying" => scanPos + want = bufN /\ got = 0
    /\ Tried > 0 => scanPos + want - 1 <= bufN
    /\ at # "ended" <=> outcome = "none"

\* No reply starts where one was looked for.
TriedInv == \A q \in 1..Tried : ~ReplyAt(q)

IInv ==
    /\ TypeOK /\ ScanInv /\ BufferHoldsLine /\ TriedInv
    /\ FirstReply /\ NoReplyMissed

\* The frame under the scan, as it stands on the line.
LEMMA CandidateOnLine ==
  ASSUME TypeOK, ScanInv, BufferHoldsLine, at = "trying"
  PROVE  /\ Candidate = LineFrame(Tried + 1)
         /\ Tried + 1 \in 1..Len(received)
         /\ Tried + want = Len(received)
         /\ Candidate \in Seq(Bytes)
  <1>1. /\ want \in Nat /\ want >= 4 /\ scanPos \in Nat /\ bufN \in Nat /\ got = 0
        /\ scanPos + want = bufN /\ Len(received) \in Nat /\ Gone >= 0
        /\ Gone = Len(received) - bufN
    BY DEF TypeOK, ScanInv, BufferHoldsLine, Overhead, Gone
  <1>2. Tried \in Nat /\ Tried + want = Len(received)
    BY <1>1 DEF Tried, Gone
  <1>3. \A k \in 1..want : buf[scanPos + k - 1] = received[Tried + 1 + k - 1]
    <2> SUFFICES ASSUME NEW k \in 1..want
                 PROVE  buf[scanPos + k - 1] = received[Tried + 1 + k - 1]
      OBVIOUS
    <2>1. scanPos + k - 1 \in 0..(bufN + got - 1)
      BY <1>1
    <2>2. buf[scanPos + k - 1] = received[Gone + (scanPos + k - 1) + 1]
      BY <2>1 DEF BufferHoldsLine
    <2>3. Gone + (scanPos + k - 1) + 1 = Tried + 1 + k - 1
      BY <1>1, <1>2 DEF Tried
    <2> QED
      BY <2>2, <2>3
  <1>4. \A k \in 1..want : received[Tried + 1 + k - 1] \in Bytes
    <2> SUFFICES ASSUME NEW k \in 1..want PROVE received[Tried + 1 + k - 1] \in Bytes
      OBVIOUS
    <2>1. Tried + 1 + k - 1 \in 1..Len(received)
      BY <1>1, <1>2
    <2> QED
      BY <2>1 DEF TypeOK
  <1>5. Candidate = LineFrame(Tried + 1)
    BY <1>3 DEF Candidate, LineFrame
  <1>6. Candidate \in Seq(Bytes)
    BY <1>1, <1>4, <1>5 DEF LineFrame
  <1> QED
    BY <1>1, <1>2, <1>5, <1>6

LEMMA InitIInv == Init => IInv
  <1> SUFFICES ASSUME Init PROVE IInv
    OBVIOUS
  <1>1. Gone = 0 /\ Tried = 0 /\ Capacity \in Nat
    BY FrameAssumption DEF Init, Gone, Tried, Capacity
  <1>2. TypeOK
    BY <1>1 DEF Init, TypeOK
  <1>3. ScanInv
    BY <1>1 DEF Init, ScanInv
  <1>4. BufferHoldsLine
    BY <1>1 DEF Init, BufferHoldsLine
  <1> QED
    BY <1>1, <1>2, <1>3, <1>4 DEF Init, IInv, TriedInv, FirstReply, NoReplyMissed

\* What was on the line stays there.
LEMMA ReplyAtKept ==
  ASSUME TypeOK, want' = want, NEW b \in Bytes, received' = Append(received, b),
         NEW q \in Nat \ {0}, q + want - 1 <= Len(received)
  PROVE  ReplyAt(q)' <=> ReplyAt(q)
  <1>1. Len(received') = Len(received) + 1 /\ Len(received) \in Nat /\ want \in Nat
    BY DEF TypeOK
  <1>2. \A k \in 1..want : received'[q + k - 1] = received[q + k - 1]
    BY <1>1 DEF TypeOK
  <1>3. LineFrame(q)' = LineFrame(q)
    BY <1>2 DEF LineFrame
  <1> QED
    BY <1>1, <1>3 DEF ReplyAt

\* A step that reads nothing changes nothing on the line, and unless it ends the
\* transaction, nothing of its result.
LEMMA LineUnchanged ==
  ASSUME want' = want, received' = received
  PROVE  /\ \A q : LineFrame(q)' = LineFrame(q) /\ (ReplyAt(q)' <=> ReplyAt(q))
         /\ outcome' = outcome /\ reply' = reply =>
               (FirstReply' <=> FirstReply) /\ (NoReplyMissed' <=> NoReplyMissed)
  <1>1. \A q : LineFrame(q)' = LineFrame(q) /\ (ReplyAt(q)' <=> ReplyAt(q))
    BY DEF ReplyAt, LineFrame
  <1>2. ASSUME outcome' = outcome, reply' = reply
        PROVE  (FirstReply' <=> FirstReply) /\ (NoReplyMissed' <=> NoReplyMissed)
    <2>1. FirstReply' <=> FirstReply
      BY <1>1, <1>2 DEF FirstReply
    <2>2. NoReplyMissed' <=> NoReplyMissed
      BY <1>1, <1>2 DEF NoReplyMissed
    <2> QED
      BY <2>1, <2>2
  <1> QED
    BY <1>1, <1>2

LEMMA StepIInv == IInv /\ [Next]_vars => IInv'
  <1> SUFFICES ASSUME IInv, [Next]_vars PROVE IInv'
    OBVIOUS
  <1>0. /\ want \in Nat /\ bufN \in Nat /\ scanPos \in Nat /\ got \in Nat
        /\ Len(received) \in Nat /\ Capacity \in Nat /\ MaxFrame \in Nat
        /\ MaxFrame <= Capacity
    BY FrameAssumption DEF IInv, TypeOK, Capacity
  <1>1. ASSUME NEW d \in DataLens, NEW p \in PayloadLens, Request(d, p) PROVE IInv'
    <2>1. /\ bufN' = 0 /\ scanPos' = 0 /\ got' = 0 /\ received' = <<>>
          /\ bufN = 0 /\ scanPos = 0 /\ got = 0 /\ received = <<>>
          /\ buf' = buf /\ reply' = reply
      BY <1>1 DEF Request, IInv, ScanInv
    <2>2. want' = Overhead + p /\ want' \in Nat /\ want' >= Overhead
      BY <1>1, LengthsAssumption DEF Request, Overhead
    <2>3. Gone' = 0 /\ Tried' = 0
      BY <2>1 DEF Gone, Tried
    <2>4. /\ at' \in {"ended", "filling"}
          /\ at' = "filling" => outcome' = "none" /\ want' <= MaxFrame
          /\ at' = "ended" => outcome' \in {"InvalidArg", "NotOpen", "WriteFailed"}
      BY <1>1 DEF Request, End, IInv, ScanInv
    <2>5. TypeOK'
      BY <2>1, <2>2, <2>4 DEF IInv, TypeOK
    <2>6. ScanInv'
      BY <1>0, <2>1, <2>2, <2>3, <2>4 DEF ScanInv, Need, Overflows, Overhead
    <2>7. BufferHoldsLine'
      BY <2>1, <2>3 DEF BufferHoldsLine
    <2>8. FirstReply' /\ NoReplyMissed'
      BY <2>4 DEF FirstReply, NoReplyMissed
    <2> QED
      BY <2>3, <2>5, <2>6, <2>7, <2>8 DEF IInv, TriedInv
  <1>2. CASE Compact
    <2>1. /\ at = "filling" /\ at' = at /\ want' = want /\ got' = got
          /\ outcome' = outcome /\ reply' = reply /\ received' = received
          /\ bufN' = bufN - scanPos /\ scanPos' = 0 /\ scanPos <= bufN /\ got = 0
          /\ want \in Overhead..MaxFrame /\ Need > 0
          /\ buf' = [k \in DOMAIN buf |->
                        IF k < bufN - scanPos THEN buf[scanPos + k] ELSE buf[k]]
      <3>1. got = 0
        BY <1>0, <1>2 DEF Compact, IInv, ScanInv
      <3> QED
        BY <1>0, <1>2, <3>1 DEF Compact, IInv, ScanInv, Need
    <2>2. Gone' = Gone + scanPos /\ Tried' = Tried /\ Need' = Need /\ bufN' \in Nat
      BY <1>0, <2>1 DEF Gone, Tried, Need
    <2>3. bufN + got <= Capacity /\ bufN' + Need' = want /\ ~Overflows'
      BY <1>0, <2>1, <2>2 DEF IInv, ScanInv, Need, Overflows, Capacity
    <2>4. BufferHoldsLine'
      <3>1. Gone' >= 0
        BY <1>0, <2>2 DEF IInv, BufferHoldsLine, Gone
      <3>2. ASSUME NEW k \in 0..(bufN' + got' - 1) PROVE buf'[k] = received'[Gone' + k + 1]
        <4>1. scanPos + k \in 0..(bufN + got - 1) /\ k < bufN - scanPos
              /\ k \in 0..(Capacity - 1)
          BY <1>0, <2>1, <2>3, <3>2
        <4>2. buf'[k] = buf[scanPos + k]
          BY <2>1, <4>1 DEF IInv, TypeOK
        <4>3. buf[scanPos + k] = received[Gone + (scanPos + k) + 1]
          BY <4>1 DEF IInv, BufferHoldsLine
        <4>4. Gone + (scanPos + k) + 1 = Gone' + k + 1
          BY <1>0, <2>2, <4>1 DEF Gone
        <4> QED
          BY <2>1, <4>2, <4>3, <4>4
      <3> QED
        BY <3>1, <3>2 DEF BufferHoldsLine
    <2>5. TypeOK'
      <3>1. \A k \in 0..(Capacity - 1) : k < bufN - scanPos => scanPos + k \in 0..(Capacity - 1)
        BY <1>0, <2>1, <2>3
      <3>2. buf' \in [0..(Capacity - 1) -> Bytes \cup {NoByte}]
        BY <2>1, <3>1 DEF IInv, TypeOK
      <3>3. bufN' \in 0..Capacity
        BY <1>0, <2>1, <2>2, <2>3
      <3> QED
        BY <2>1, <3>2, <3>3 DEF IInv, TypeOK
    <2>6. ScanInv'
      BY <1>0, <2>1, <2>2, <2>3 DEF IInv, ScanInv
    <2>7. TriedInv'
      BY <2>1, <2>2, LineUnchanged DEF IInv, TriedInv
    <2>8. FirstReply' /\ NoReplyMissed'
      BY <2>1, LineUnchanged DEF IInv
    <2> QED
      BY <2>4, <2>5, <2>6, <2>7, <2>8 DEF IInv
  <1>3. ASSUME NEW b \in Bytes, Receive(b) PROVE IInv'
    <2>1. /\ at = "filling" /\ outcome' = outcome /\ outcome = "none"
          /\ want' = want /\ scanPos' = scanPos /\ reply' = reply
          /\ received' = Append(received, b)
          /\ buf' = [buf EXCEPT ![bufN + got] = b]
          /\ got < Need /\ bufN + Need <= Capacity /\ want \in Overhead..MaxFrame
          /\ scanPos <= bufN
      BY <1>0, <1>3 DEF Receive, IInv, ScanInv, Overflows, Need
    <2>2. \/ got + 1 = Need /\ bufN' = bufN + Need /\ got' = 0 /\ at' = "trying"
          \/ got + 1 # Need /\ got' = got + 1 /\ bufN' = bufN /\ at' = at
      BY <1>3 DEF Receive
    <2>n. PICK n \in Nat, g \in Nat : bufN' = n /\ got' = g /\ n + g = bufN + got + 1
      <3>1. CASE got + 1 = Need
        BY <1>0, <2>2, <3>1
      <3>2. CASE got + 1 # Need
        BY <1>0, <2>2, <3>2
      <3> QED
        BY <3>1, <3>2
    <2>3. Len(received') = Len(received) + 1 /\ Gone' = Gone /\ Tried' = Tried
      <3>1. Len(received') = Len(received) + 1
        BY <2>1 DEF IInv, TypeOK
      <3>2. Gone' = Gone
        BY <1>0, <2>n, <3>1 DEF Gone
      <3> QED
        BY <2>1, <3>1, <3>2 DEF Tried
    <2>4. bufN + got \in 0..(Capacity - 1) /\ Need \in Nat /\ bufN' \in Nat /\ got' \in Nat
      BY <1>0, <2>1, <2>2 DEF Need
    <2>5. TypeOK'
      BY <2>1, <2>2, <2>4 DEF IInv, TypeOK
    <2>6. BufferHoldsLine'
      <3>1. ASSUME NEW k \in 0..(bufN + got) PROVE buf'[k] = received'[Gone + k + 1]
        <4>1. CASE k = bufN + got
          <5>1. Gone + k + 1 = Len(received) + 1
            BY <1>0, <4>1 DEF Gone
          <5> QED
            BY <2>1, <2>4, <4>1, <5>1 DEF IInv, TypeOK
        <4>2. CASE k # bufN + got
          <5>1. k \in 0..(bufN + got - 1) /\ k \in 0..(Capacity - 1)
            BY <1>0, <2>4, <3>1, <4>2
          <5>2. buf[k] = received[Gone + k + 1] /\ Gone >= 0
            BY <5>1 DEF IInv, BufferHoldsLine
          <5>3. Gone + k + 1 \in 1..Len(received)
            BY <1>0, <5>1, <5>2 DEF Gone
          <5> QED
            BY <2>1, <4>2, <5>1, <5>2, <5>3 DEF IInv, TypeOK
        <4> QED
          BY <4>1, <4>2
      <3>2. n + g - 1 = bufN + got
        BY <1>0, <2>n
      <3>3. \A k \in 0..(n + g - 1) : buf'[k] = received'[Gone + k + 1]
        BY <3>1, <3>2
      <3> QED
        BY <2>n, <2>3, <3>3 DEF IInv, BufferHoldsLine
    <2>7. ScanInv'
      <3>1. n + g <= Capacity
        BY <1>0, <2>n, <2>4
      <3>2. at' = "filling" => Need' = Need /\ got' < Need' /\ ~Overflows'
        BY <1>0, <2>1, <2>2, <2>4 DEF Need, Overflows
      <3>3. at' = "trying" => scanPos' + want' = bufN' /\ got' = 0
        BY <1>0, <2>1, <2>2 DEF Need
      <3>4. scanPos' <= bufN' /\ bufN <= bufN'
        BY <1>0, <2>1, <2>2, <2>4
      <3>5. Tried' > 0 => scanPos' + want' - 1 <= bufN'
        <4>1. Tried > 0 => scanPos + want - 1 <= bufN
          BY DEF IInv, ScanInv
        <4> QED
          BY <1>0, <2>1, <2>3, <2>4, <3>4, <4>1
      <3>6. at' \in {"filling", "trying"} /\ want' \in Overhead..MaxFrame
            /\ outcome' = "none"
        BY <2>1, <2>2
      <3> QED
        BY <2>n, <3>1, <3>2, <3>3, <3>4, <3>5, <3>6 DEF ScanInv
    <2>8. TriedInv'
      <3> SUFFICES ASSUME NEW q \in 1..Tried PROVE ~ReplyAt(q)'
        BY <2>3 DEF TriedInv
      <3>1. Tried \in Int /\ Tried > 0 /\ q \in Nat \ {0}
        BY <1>0 DEF Tried, Gone
      <3>2. scanPos + want - 1 <= bufN
        BY <3>1 DEF IInv, ScanInv
      <3>3. q + want - 1 <= Len(received)
        BY <1>0, <2>1, <3>1, <3>2 DEF Tried, Gone
      <3>4. ReplyAt(q)' <=> ReplyAt(q)
        BY <2>1, <3>1, <3>3, ReplyAtKept DEF IInv
      <3> QED
        BY <3>4 DEF IInv, TriedInv
    <2> QED
      BY <2>1, <2>5, <2>6, <2>7, <2>8 DEF IInv, FirstReply, NoReplyMissed
  <1>4. CASE ReadFails
    <2>1. /\ at = "filling" /\ at' = "ended" /\ outcome' \in {"ReadTimeout", "ReadFailed"}
          /\ UNCHANGED <<want, buf, bufN, scanPos, got, reply, received>>
          /\ got < Need
      BY <1>4 DEF ReadFails, End, IInv, ScanInv
    <2>2. /\ Gone' = Gone /\ Tried' = Tried /\ (TriedInv' <=> TriedInv)
          /\ (BufferHoldsLine' <=> BufferHoldsLine)
          /\ \A q : ReplyAt(q)' <=> ReplyAt(q)
      BY <2>1 DEF Gone, Tried, TriedInv, BufferHoldsLine, ReplyAt, LineFrame
    <2>3. TypeOK' /\ ScanInv'
      BY <2>1, <2>2 DEF IInv, TypeOK, ScanInv
    <2>4. \A p \in 1..Len(received) : ~ReplyAt(p)
      <3> SUFFICES ASSUME NEW p \in 1..Len(received), p > Tried PROVE ~ReplyAt(p)
        BY <1>0 DEF IInv, TriedInv, Tried, Gone
      <3>1. p + want - 1 > Len(received)
        BY <1>0, <2>1 DEF Tried, Gone, Need
      <3> QED
        BY <1>0, <3>1 DEF ReplyAt
    <2> QED
      BY <2>1, <2>2, <2>3, <2>4 DEF IInv, FirstReply, NoReplyMissed
  <1>5. CASE Accept
    <2>1. /\ at = "trying" /\ at' = "ended" /\ outcome' = "OK" /\ reply' = Candidate
          /\ UNCHANGED <<want, buf, bufN, scanPos, got, received>> /\ IsReply(Candidate, want)
      BY <1>5 DEF Accept, End
    <2>2. /\ Gone' = Gone /\ Tried' = Tried /\ (TriedInv' <=> TriedInv)
          /\ (BufferHoldsLine' <=> BufferHoldsLine)
          /\ \A q : ReplyAt(q)' <=> ReplyAt(q)
      BY <2>1 DEF Gone, Tried, TriedInv, BufferHoldsLine, ReplyAt, LineFrame
    <2>3. /\ Candidate = LineFrame(Tried + 1)
          /\ Tried + 1 \in 1..Len(received)
          /\ Tried + want = Len(received)
          /\ Candidate \in Seq(Bytes)
      BY <2>1, CandidateOnLine DEF IInv
    <2>4. TypeOK' /\ ScanInv'
      BY <2>1, <2>2, <2>3 DEF IInv, TypeOK, ScanInv
    <2>5. FirstReply'
      <3>1. ReplyAt(Tried + 1)
        <4>1. Tried + 1 + want - 1 <= Len(received)
          BY <1>0, <2>3 DEF Tried, Gone
        <4>2. IsReply(LineFrame(Tried + 1), want)
          BY <2>1, <2>3
        <4> QED
          BY <4>1, <4>2 DEF ReplyAt
      <3>2. PICK n \in 1..Len(received) : n = Tried + 1 /\ n - 1 = Tried
        BY <1>0, <2>3 DEF Tried, Gone
      <3>3. reply' = LineFrame(n)' /\ ReplyAt(n)' /\ n \in 1..Len(received')
        BY <2>1, <2>3, <3>1, <3>2, LineUnchanged
      <3>4. ASSUME NEW q \in 1..(n - 1) PROVE ~ReplyAt(q)'
        <4>1. ~ReplyAt(q)
          BY <3>2 DEF IInv, TriedInv
        <4> QED
          BY <2>2, <4>1
      <3> QED
        BY <3>3, <3>4 DEF FirstReply
    <2> QED
      BY <2>1, <2>2, <2>4, <2>5 DEF IInv, NoReplyMissed
  <1>6. CASE Reject
    <2>1. /\ at = "trying" /\ scanPos' = scanPos + 1 /\ ~IsReply(Candidate, want)
          /\ UNCHANGED <<want, buf, bufN, got, reply, received>>
          /\ \/ at' = "filling" /\ outcome' = outcome
             \/ at' = "ended" /\ outcome' = "ReadFailed"
          /\ scanPos + want = bufN /\ got = 0 /\ want \in Overhead..MaxFrame
          /\ outcome = "none" /\ bufN + got <= Capacity /\ want >= 4
      BY <1>6 DEF Reject, Step, End, IInv, ScanInv, Overhead
    <2>2. /\ Gone' = Gone /\ Tried' = Tried + 1
          /\ (BufferHoldsLine' <=> BufferHoldsLine)
      BY <1>0, <2>1 DEF Gone, Tried, BufferHoldsLine
    <2>r. \A q : ReplyAt(q)' <=> ReplyAt(q)
      BY <2>1 DEF ReplyAt, LineFrame
    <2>3. TypeOK'
      BY <1>0, <2>1 DEF IInv, TypeOK
    <2>4. ScanInv'
      BY <1>0, <2>1, <2>2 DEF ScanInv, Need, Overhead
    <2>5. ~ReplyAt(Tried + 1)
      <3>1. Candidate = LineFrame(Tried + 1)
        BY <2>1, CandidateOnLine DEF IInv
      <3> QED
        BY <2>1, <3>1 DEF ReplyAt
    <2>6. TriedInv'
      <3> SUFFICES ASSUME NEW q \in 1..(Tried + 1) PROVE ~ReplyAt(q)
        BY <2>2, <2>r DEF TriedInv
      <3>1. q \in 1..Tried \/ q = Tried + 1
        BY <1>0 DEF Tried, Gone
      <3> QED
        BY <2>5, <3>1 DEF IInv, TriedInv
    <2>7. \A p \in 1..Len(received) : ~ReplyAt(p)
      <3> SUFFICES ASSUME NEW p \in 1..Len(received), p > Tried + 1 PROVE ~ReplyAt(p)
        BY <1>0, <2>5 DEF IInv, TriedInv, Tried, Gone
      <3>1. p + want - 1 > Len(received)
        BY <1>0, <2>1 DEF Tried, Gone
      <3> QED
        BY <1>0, <3>1 DEF ReplyAt
    <2>8. FirstReply' /\ NoReplyMissed'
      BY <2>1, <2>r, <2>7 DEF FirstReply, NoReplyMissed
    <2> QED
      BY <2>2, <2>3, <2>4, <2>6, <2>8 DEF IInv
  <1>7. CASE Terminated \/ UNCHANGED vars
    <2>1. UNCHANGED vars
      BY <1>7 DEF Terminated
    <2>2. TypeOK' /\ ScanInv' /\ BufferHoldsLine'
      BY <2>1 DEF vars, IInv, TypeOK, ScanInv, BufferHoldsLine, Tried, Gone, Need, Overflows
    <2>3. TriedInv'
      BY <2>1, LineUnchanged DEF vars, IInv, TriedInv, Tried, Gone
    <2>4. FirstReply' /\ NoReplyMissed'
      BY <2>1, LineUnchanged DEF vars, IInv
    <2> QED
      BY <2>2, <2>3, <2>4 DEF IInv
  <1> QED
    BY <1>1, <1>2, <1>3, <1>4, <1>5, <1>6, <1>7 DEF Next

LEMMA Inductive == Spec => []IInv
  BY InitIInv, StepIInv, PTL DEF Spec

\* transact() and read_exact() touch the buffer only where it exists, and parse
\* only bytes that were read, whatever the line carries.
THEOREM BufferIsSafe == Spec => []WithinBuffer
  <1>1. IInv => WithinBuffer
    <2> SUFFICES ASSUME IInv PROVE WithinBuffer
      OBVIOUS
    <2>1. Capacity \in Nat /\ bufN \in Nat /\ scanPos \in Nat /\ want \in Nat
      BY FrameAssumption DEF IInv, TypeOK, Capacity
    <2>2. ~Overflows => bufN + Need <= Capacity
      BY <2>1 DEF Overflows, Need
    <2> QED
      BY <2>1, <2>2 DEF IInv, ScanInv, WithinBuffer
  <1> QED
    BY <1>1, Inductive, PTL

\* Compaction loses nothing that was not tried.
THEOREM BufferIsLine == Spec => []BufferHoldsLine
  <1>1. IInv => BufferHoldsLine
    BY DEF IInv
  <1> QED
    BY <1>1, Inductive, PTL

\* A transaction that succeeds returns the first reply on the line.
THEOREM FirstReplyReturned == Spec => []FirstReply
  <1>1. IInv => FirstReply
    BY DEF IInv
  <1> QED
    BY <1>1, Inductive, PTL

\* A transaction that fails has not read a reply.
THEOREM FailureHidesNoReply == Spec => []NoReplyMissed
  <1>1. IInv => NoReplyMissed
    BY DEF IInv
  <1> QED
    BY <1>1, Inductive, PTL

\* With the constants of the code (16 frames to scan, 2 in the buffer) the scan
\* never reaches MAX_SCAN_BYTES: the compaction sets scan_pos back before.
THEOREM ScanBoundNeverReached ==
  ASSUME ScanFrames > 2, MaxFrame > 0
  PROVE  Spec => [](scanPos < MaxScan)
  <1>1. Capacity < MaxScan
    <2>1. MaxFrame * ScanFrames > MaxFrame * 2
      BY FrameAssumption, ScanAssumption
    <2> QED
      BY <2>1 DEF Capacity, MaxScan
  <1>2. IInv => scanPos < MaxScan
    <2> SUFFICES ASSUME IInv PROVE scanPos < MaxScan
      OBVIOUS
    <2>1. /\ scanPos <= bufN /\ bufN + got <= Capacity
          /\ bufN \in Nat /\ got \in Nat /\ scanPos \in Nat
      BY DEF IInv, TypeOK, ScanInv
    <2>2. Capacity \in Nat /\ MaxScan \in Nat
      BY FrameAssumption, ScanAssumption DEF Capacity, MaxScan
    <2> QED
      BY <1>1, <2>1, <2>2
  <1> QED
    BY <1>2, Inductive, PTL

\* The places of transact(), its lengths and its buffer keep their types.
THEOREM TransactTyped == Spec => []TypeOK
  <1>1. IInv => TypeOK
    BY DEF IInv
  <1> QED
    BY <1>1, Inductive, PTL
=============================================================================
