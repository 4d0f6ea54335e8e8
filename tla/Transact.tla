------------------------------ MODULE Transact ------------------------------
(***************************************************************************)
(* transact() and Transport::read_exact (src/include/mks_servo/            *)
(* transport.hpp) with parse_frame() and checksum8() (protocol.hpp): one    *)
(* request, and the search of its reply in the bytes that arrive.           *)
(*                                                                         *)
(* The line is not the model's: after the input was drained any bytes may   *)
(* arrive (the reply, late acks of earlier commands, noise), one at a time, *)
(* and a read may time out or fail between any two of them.                 *)
(***************************************************************************)
EXTENDS Integers, Sequences, Functions

CONSTANTS
    Bytes,          \* the bytes that may arrive
    NoByte,         \* what an element of the buffer holds before it is written
    Modulus,        \* 2^8
    HeadUp,         \* HEAD_UP
    Code,           \* the opcode of the request (0 takes any reply)
    MaxFrame,       \* MAX_FRAME_SIZE
    ScanFrames,     \* MAX_SCAN_BYTES / MAX_FRAME_SIZE
    DataLens,       \* lengths of a request's data
    PayloadLens,    \* lengths of a reply's payload
    MaxReceived     \* bound: bytes that arrive

Overhead == 4
Capacity == MaxFrame * 2
MaxScan == MaxFrame * ScanFrames

ASSUME BytesAssumption == Bytes \subseteq Nat /\ NoByte \notin Bytes
ASSUME FrameAssumption ==
    Modulus \in Nat \ {0} /\ HeadUp \in Nat /\ Code \in Nat /\ MaxFrame \in Nat
ASSUME ScanAssumption == ScanFrames \in Nat \ {0}
ASSUME LengthsAssumption == DataLens \subseteq Nat /\ PayloadLens \subseteq Nat
ASSUME ReceivedAssumption == MaxReceived \in Nat

VARIABLES
    at,        \* where the transaction is
    want,      \* length of the frame it looks for
    buf,       \* buf, indexed from 0
    bufN,      \* buf_n
    scanPos,   \* scan_pos
    got,       \* got: bytes that the read_exact() under way has read
    outcome,   \* t_status of the result
    reply,     \* the frame the result was taken from
    received   \* history: the bytes read since the input was drained

vars == <<at, want, buf, bufN, scanPos, got, outcome, reply, received>>

Init ==
    /\ at = "start" /\ want = 0
    /\ buf = [k \in 0..(Capacity - 1) |-> NoByte]
    /\ bufN = 0 /\ scanPos = 0 /\ got = 0
    /\ outcome = "none" /\ reply = <<>>
    /\ received = <<>>

\* checksum8() of the first n bytes of a frame.
Checksum8(f, n) == FoldFunctionOnSet(+, 0, f, 1..n) % Modulus

\* parse_frame() accepts the frame of n bytes, and its opcode is the request's.
IsReply(f, n) ==
    /\ f[1] = HeadUp
    /\ f[n] = Checksum8(f, n - 1)
    /\ Code = 0 \/ f[3] = Code

\* The frame that starts at scan_pos.
Candidate == [k \in 1..want |-> buf[scanPos + k - 1]]

End(status) == at' = "ended" /\ outcome' = status

\* The request is built, the input drained and the request written.
Request(dataLen, payloadLen) ==
    /\ at = "start"
    /\ want' = Overhead + payloadLen
    /\ \/ /\ Overhead + dataLen > MaxFrame
          /\ End("InvalidArg")
       \/ /\ Overhead + dataLen <= MaxFrame
          /\ \E status \in {"NotOpen", "WriteFailed"} : End(status)
       \/ /\ Overhead + dataLen <= MaxFrame
          /\ want' > MaxFrame
          /\ End("InvalidArg")
       \/ /\ Overhead + dataLen <= MaxFrame
          /\ want' <= MaxFrame
          /\ at' = "filling"
          /\ UNCHANGED outcome
    /\ UNCHANGED <<buf, bufN, scanPos, got, reply, received>>

\* Bytes to read before there are `want` of them from scan_pos on.
Need == want - (bufN - scanPos)

\* Mutant: compacts one byte too late.
Overflows_off == bufN + Need > Capacity + 1
Overflows == bufN + Need > Capacity

\* Mutant: the last byte is left behind.
Compact_short ==
    /\ at = "filling"
    /\ Overflows
    /\ buf' = [k \in DOMAIN buf |->
                  IF k < bufN - scanPos - 1 THEN buf[scanPos + k] ELSE buf[k]]
    /\ bufN' = bufN - scanPos
    /\ scanPos' = 0
    /\ UNCHANGED <<at, want, got, outcome, reply, received>>

\* What has not been tried yet is moved to the front of the buffer.
Compact ==
    /\ at = "filling"
    /\ Overflows
    /\ buf' = [k \in DOMAIN buf |->
                  IF k < bufN - scanPos THEN buf[scanPos + k] ELSE buf[k]]
    /\ bufN' = bufN - scanPos
    /\ scanPos' = 0
    /\ UNCHANGED <<at, want, got, outcome, reply, received>>

\* read_exact() reads a byte; the last one it was asked for ends it.
Receive(b) ==
    /\ at = "filling"
    /\ ~Overflows
    /\ Len(received) < MaxReceived
    /\ received' = Append(received, b)
    /\ buf' = [buf EXCEPT ![bufN + got] = b]
    /\ IF got + 1 = Need
       THEN bufN' = bufN + Need /\ got' = 0 /\ at' = "trying"
       ELSE got' = got + 1 /\ UNCHANGED <<bufN, at>>
    /\ UNCHANGED <<want, scanPos, outcome, reply>>

\* read_exact() runs out of time, or fails.  What it has read is lost with buf.
ReadFails ==
    /\ at = "filling"
    /\ ~Overflows
    /\ \E status \in {"ReadTimeout", "ReadFailed"} : End(status)
    /\ UNCHANGED <<want, buf, bufN, scanPos, got, reply, received>>

Accept ==
    /\ at = "trying"
    /\ IsReply(Candidate, want)
    /\ reply' = Candidate
    /\ End("OK")
    /\ UNCHANGED <<want, buf, bufN, scanPos, got, received>>

\* Mutant: a frame that is not the reply is thrown away whole.
Step_frame == want
\* Not the reply: the next byte may start it.
Step == 1

Reject ==
    /\ at = "trying"
    /\ ~IsReply(Candidate, want)
    /\ scanPos' = scanPos + Step
    /\ IF scanPos' < MaxScan
       THEN at' = "filling" /\ UNCHANGED outcome
       ELSE End("ReadFailed")
    /\ UNCHANGED <<want, buf, bufN, got, reply, received>>

Terminated == at = "ended" /\ UNCHANGED vars

Next ==
    \/ \E d \in DataLens, p \in PayloadLens : Request(d, p)
    \/ Compact
    \/ \E b \in Bytes : Receive(b)
    \/ ReadFails
    \/ Accept \/ Reject
    \/ Terminated

Spec == Init /\ [][Next]_vars

----------------------------------------------------------------------------
(* Properties.                                                              *)

\* Every variable has its type: the type invariant.
TypeOK ==
    /\ at \in {"start", "filling", "trying", "ended"}
    /\ want \in Nat
    /\ buf \in [0..(Capacity - 1) -> Bytes \cup {NoByte}]
    /\ bufN \in 0..Capacity /\ scanPos \in Nat /\ got \in Nat
    /\ outcome \in {"none", "OK", "InvalidArg", "NotOpen", "WriteFailed",
                    "ReadTimeout", "ReadFailed"}
    /\ reply \in Seq(Bytes)
    /\ received \in Seq(Bytes)

\* The unsigned buf_n - scan_pos does not wrap, read_exact() writes within the
\* buffer, and the frame that is parsed lies within what was read.
WithinBuffer ==
    /\ scanPos <= bufN
    /\ bufN + got <= Capacity
    /\ at = "filling" /\ ~Overflows => got < Need /\ bufN + Need <= Capacity
    /\ at = "trying" => scanPos + want <= bufN

\* Number of received bytes that are no longer in the buffer.
Gone == Len(received) - bufN - got

\* Through all compactions the buffer holds the latest bytes of the line.
BufferHoldsLine ==
    /\ Gone >= 0
    /\ \A k \in 0..(bufN + got - 1) : buf[k] = received[Gone + k + 1]

\* The frame that starts with the p-th byte received, and would be the reply.
LineFrame(p) == [k \in 1..want |-> received[p + k - 1]]
ReplyAt(p) == p + want - 1 <= Len(received) /\ IsReply(LineFrame(p), want)

\* The result is the first frame on the line that answers the request: stray
\* frames and noise before it, whatever their lengths, do not hide it ...
FirstReply ==
    outcome = "OK" =>
        \E p \in 1..Len(received) :
            /\ ReplyAt(p)
            /\ reply = LineFrame(p)
            /\ \A q \in 1..(p - 1) : ~ReplyAt(q)

\* ... and a transaction that fails has not read one.
NoReplyMissed ==
    outcome \in {"ReadTimeout", "ReadFailed"} =>
        \A p \in 1..Len(received) : ~ReplyAt(p)

\* Positions at which a frame was looked for.
Tried == Gone + scanPos
=============================================================================
