------------------------------ MODULE Envelope ------------------------------
(***************************************************************************)
(* auto_calibrate() and the cache of its result (src/include/mks_servo/     *)
(* envelope.hpp): the choice of a tier of speed and acceleration, the file  *)
(* that keeps it, and a process that may end at any moment.                 *)
(*                                                                         *)
(* What a motor does at a tier is chosen anew in each measurement.  Of the  *)
(* numbers of an envelope the model keeps those that decide something: its  *)
(* validity, the latency that a later start compares with, and the tier.    *)
(***************************************************************************)
EXTENDS Integers

CONSTANTS
    Tiers,        \* number of TIERS, from aggressive to gentle
    SoakN,        \* moves of the mini-soak
    Latencies,    \* comms_latency_us_p99, as far as it may vary
    MaxCalls      \* bound: calls of the client

ASSUME TiersAssumption == Tiers \in Nat \ {0}
ASSUME SoakAssumption == SoakN \in Nat \ {0}
ASSUME LatenciesAssumption == Latencies \subseteq Nat \ {0}
ASSUME CallsAssumption == MaxCalls \in Nat

\* A default-initialised Envelope.
NoEnvelope == [valid |-> FALSE, p99 |-> 0, tier |-> 0]

VARIABLES
    call,        \* the call under way, or the last one
    at,          \* where it is
    env,         \* the envelope it works on, and returns
    tier,        \* the tier that is tried
    file,        \* the cache file: how many of its three parts there are, whether
                 \* its header is the library's, and the envelope behind it
    part,        \* the next part to reach the file
    failed,      \* history: tiers seen to fail in the calibration under way
    answered,    \* history: the motor has answered in this call
    made,        \* history: envelopes that were measured
    calls        \* bound

vars == <<call, at, env, tier, file, part, failed, answered, made, calls>>

Init ==
    /\ call = "none" /\ at = "idle" /\ env = NoEnvelope /\ tier = 1
    /\ file \in [size : {0, 3}, ours : {FALSE}, env : {NoEnvelope}]
    /\ part = 1
    /\ failed = {} /\ answered = TRUE /\ made = {}
    /\ calls = 0

----------------------------------------------------------------------------
(* Calls of the client.                                                     *)

Call(name, start) ==
    /\ at = "idle" /\ calls < MaxCalls
    /\ call' = name /\ at' = start /\ calls' = calls + 1
    /\ failed' = {} /\ answered' = TRUE
    /\ tier' = 1 /\ part' = 1

AutoCalibrateCached ==
    /\ Call("auto_calibrate_cached", "loading")
    /\ UNCHANGED <<env, file, made>>

AutoCalibrate ==
    /\ Call("auto_calibrate", "measuring")
    /\ env' = NoEnvelope
    /\ UNCHANGED <<file, made>>

\* The client saves what it was given last, valid or not.
SaveEnvelope ==
    /\ Call("save_envelope", "opening")
    /\ UNCHANGED <<env, file, made>>

----------------------------------------------------------------------------
(* auto_calibrate()                                                         *)

\* Step 1: no sample of the latency, or some.
NoSample ==
    /\ at = "measuring"
    /\ at' = "idle" /\ answered' = FALSE
    /\ UNCHANGED <<call, env, tier, file, part, failed, made, calls>>

Sampled(p99) ==
    /\ at = "measuring"
    /\ env' = [NoEnvelope EXCEPT !.p99 = p99]
    /\ at' = "trying"
    /\ UNCHANGED <<call, tier, file, part, failed, answered, made, calls>>

\* Step 2: four moves at a tier, all in time and alike; the first tier that
\* manages is picked.
TierPasses ==
    /\ at = "trying" /\ tier <= Tiers
    /\ env' = [env EXCEPT !.tier = tier]
    /\ at' = "soaking"
    /\ UNCHANGED <<call, tier, file, part, failed, answered, made, calls>>

TierFails ==
    /\ at = "trying" /\ tier <= Tiers
    /\ failed' = failed \cup {tier}
    /\ tier' = tier + 1
    /\ UNCHANGED <<call, at, env, file, part, answered, made, calls>>

NoTierLeft ==
    /\ at = "trying" /\ tier > Tiers
    /\ at' = "idle"
    /\ UNCHANGED <<call, env, tier, file, part, failed, answered, made, calls>>

\* Mutant: the tier is kept however the soak went.
Recommended_kept(t, successes) == t
\* Mutant: one tier down, there or not.
Recommended_beyond(t, successes) == IF successes * 10 < SoakN * 8 THEN t + 1 ELSE t
\* Less than 80% of the soak steps down by one tier, if there is one.
Recommended(t, successes) ==
    IF successes * 10 < SoakN * 8 /\ t < Tiers THEN t + 1 ELSE t

\* Steps 3 and 4 (the top speed, of which nothing depends, and the soak).
Soaked(successes) ==
    /\ at = "soaking"
    /\ env' = [env EXCEPT !.valid = TRUE, !.tier = Recommended(tier, successes)]
    /\ failed' = IF successes * 10 < SoakN * 8 THEN failed \cup {tier} ELSE failed
    /\ made' = made \cup {env'}
    /\ at' = IF call = "auto_calibrate_cached" THEN "opening" ELSE "idle"
    /\ UNCHANGED <<call, tier, file, part, answered, calls>>

----------------------------------------------------------------------------
(* save_envelope()                                                          *)

\* Mutant: the file is overwritten without being emptied.
Emptied_kept == file.size
Emptied == 0

Open ==
    /\ at = "opening"
    /\ file' = [file EXCEPT !.size = Emptied]
    /\ at' = "writing"
    /\ UNCHANGED <<call, env, tier, part, failed, answered, made, calls>>

OpenFails ==
    /\ at = "opening"
    /\ at' = "idle"
    /\ UNCHANGED <<call, env, tier, file, part, failed, answered, made, calls>>

\* What was written reaches the file in order, here in three parts: the header,
\* the beginning of the envelope, and its end.
Reaches ==
    /\ at = "writing"
    /\ file' = [size |-> IF part > file.size THEN part ELSE file.size,
                ours |-> file.ours \/ part = 1,
                env  |-> CASE part = 1 -> file.env
                           [] part = 2 -> [env EXCEPT !.tier = file.env.tier]
                           [] part = 3 -> [file.env EXCEPT !.tier = env.tier]]
    /\ part' = part + 1
    /\ at' = IF part = 3 THEN "idle" ELSE "writing"
    /\ UNCHANGED <<call, env, tier, failed, answered, made, calls>>

\* The disk is full: the file stays as it is.
WriteFails ==
    /\ at = "writing"
    /\ at' = "idle"
    /\ UNCHANGED <<call, env, tier, file, part, failed, answered, made, calls>>

----------------------------------------------------------------------------
(* auto_calibrate_cached()                                                  *)

\* load_envelope()
Loaded == IF file.size = 3 /\ file.ours THEN file.env ELSE NoEnvelope

\* Mutant: a cache that cannot be used is the answer.
Load_missed ==
    /\ at = "loading"
    /\ env' = Loaded
    /\ at' = IF Loaded.valid THEN "probing" ELSE "idle"
    /\ UNCHANGED <<call, tier, file, part, failed, answered, made, calls>>

Load ==
    /\ at = "loading"
    /\ env' = Loaded
    /\ at' = IF Loaded.valid THEN "probing" ELSE "measuring"
    /\ UNCHANGED <<call, tier, file, part, failed, answered, made, calls>>

\* The latency is compared with that of the cached envelope.
ProbeHits ==
    /\ at = "probing"
    /\ \E now \in Latencies : 2 * now < 3 * env.p99
    /\ at' = "idle"
    /\ UNCHANGED <<call, env, tier, file, part, failed, answered, made, calls>>

ProbeMisses ==
    /\ at = "probing"
    /\ \E now \in Latencies : 2 * now >= 3 * env.p99
    /\ env' = NoEnvelope
    /\ at' = "measuring"
    /\ UNCHANGED <<call, tier, file, part, failed, answered, made, calls>>

ProbeDead ==
    /\ at = "probing"
    /\ env' = [env EXCEPT !.valid = FALSE]
    /\ at' = "idle" /\ answered' = FALSE
    /\ UNCHANGED <<call, tier, file, part, failed, made, calls>>

----------------------------------------------------------------------------
\* The process ends; another one will find the file.
Crash ==
    /\ at # "idle"
    /\ call' = "none" /\ at' = "idle" /\ env' = NoEnvelope
    /\ failed' = {} /\ answered' = TRUE /\ tier' = 1 /\ part' = 1
    /\ UNCHANGED <<file, made, calls>>

Next ==
    \/ AutoCalibrateCached \/ AutoCalibrate \/ SaveEnvelope
    \/ NoSample \/ \E p99 \in Latencies : Sampled(p99)
    \/ TierPasses \/ TierFails \/ NoTierLeft
    \/ \E successes \in 0..SoakN : Soaked(successes)
    \/ Open \/ OpenFails \/ Reaches \/ WriteFails
    \/ Load \/ ProbeHits \/ ProbeMisses \/ ProbeDead
    \/ Crash

Spec == Init /\ [][Next]_vars

----------------------------------------------------------------------------
(* Properties.                                                              *)

Envelopes == [valid : BOOLEAN, p99 : {0} \cup Latencies, tier : 0..Tiers]

\* Every variable has its type: the type invariant.
TypeOK ==
    /\ call \in {"none", "auto_calibrate_cached", "auto_calibrate", "save_envelope"}
    /\ at \in {"idle", "measuring", "trying", "soaking", "opening", "writing", "loading",
               "probing"}
    /\ env \in Envelopes
    /\ tier \in 1..(Tiers + 1)
    /\ file \in [size : 0..3, ours : BOOLEAN, env : Envelopes]
    /\ part \in 1..4
    /\ failed \in SUBSET (1..Tiers)
    /\ answered \in BOOLEAN
    /\ made \in SUBSET Envelopes
    /\ calls \in 0..MaxCalls

\* A valid envelope that comes out of the cache file was measured as it is, by
\* one calibration, through crashes, full disks and files of other versions.
CacheIsMeasured == Loaded.valid => Loaded \in made

\* A fresh recommendation is the most aggressive tier that was not seen to fail
\* (the last tier is recommended even then).
BestThatHeld ==
    \/ at = "opening" /\ call = "auto_calibrate_cached"
    \/ at = "idle" /\ call = "auto_calibrate" /\ env.valid
    => /\ 1..(env.tier - 1) \subseteq failed
       /\ env.tier \in failed => env.tier = Tiers

\* A calibration, cached or not, gives no envelope only if the motor did not
\* answer in this call or no tier passed: a cache that cannot be used never
\* stands in the way.
InvalidMeansUnwell ==
    at = "idle" /\ call \in {"auto_calibrate", "auto_calibrate_cached"} /\ ~env.valid =>
        ~answered \/ failed = 1..Tiers
=============================================================================
