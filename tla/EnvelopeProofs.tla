--------------------------- MODULE EnvelopeProofs ---------------------------
(***************************************************************************)
(* The cache of an envelope never lies, and auto_calibrate() recommends the *)
(* best tier that held, for any number of tiers, length of the soak and     *)
(* sequence of calls, crashes and failures of the disk.                     *)
(***************************************************************************)
EXTENDS Envelope, TLAPS

\* What is on its way to the file: parts reach it in order, and make up, of the
\* envelope that is written, as much as the file has.
FileInv ==
    /\ at # "writing" => part = 1 \/ at = "idle"
    /\ at = "writing" => /\ part \in 1..3 /\ file.size = part - 1
                         /\ part > 1 => file.ours
                         /\ part = 3 => /\ file.env.valid = env.valid
                                        /\ file.env.p99 = env.p99

\* A valid envelope, in memory or in a complete file, was measured; it is valid
\* only from the end of its calibration on.
MadeInv ==
    /\ env.valid => env \in made
    /\ at \in {"measuring", "trying", "soaking"} => ~env.valid
    /\ CacheIsMeasured

\* How far the calibration of the call has come: every tier above the one that
\* is tried has failed.
TierInv ==
    /\ at \in {"loading", "probing"} => call = "auto_calibrate_cached"
    /\ at = "probing" => env.valid
    /\ at \in {"loading", "probing", "measuring"} => tier = 1 /\ failed = {}
    /\ at \in {"measuring", "trying", "soaking"} =>
          call \in {"auto_calibrate_cached", "auto_calibrate"}
    /\ at \in {"trying", "soaking"} => failed = 1..(tier - 1)
    /\ at = "soaking" => tier <= Tiers /\ env.tier = tier
    /\ at \in {"opening", "writing"} =>
          /\ call \in {"auto_calibrate_cached", "save_envelope"}
          /\ call = "auto_calibrate_cached" => env.valid

IInv ==
    /\ TypeOK /\ FileInv /\ MadeInv
    /\ TierInv /\ BestThatHeld /\ InvalidMeansUnwell

\* Every step keeps the types.
LEMMA TypeStep ==
  ASSUME IInv, [Next]_vars
  PROVE  TypeOK'
<1> USE TiersAssumption, SoakAssumption, LatenciesAssumption, CallsAssumption DEF IInv, TypeOK, Envelopes, NoEnvelope, FileInv, TierInv, Emptied
<1>1. CASE AutoCalibrateCached
  BY <1>1 DEF AutoCalibrateCached, Call
<1>2. CASE AutoCalibrate
  BY <1>2 DEF AutoCalibrate, Call
<1>3. CASE SaveEnvelope
  BY <1>3 DEF SaveEnvelope, Call
<1>4. CASE NoSample
  BY <1>4 DEF NoSample
<1>5. ASSUME NEW p99 \in Latencies, Sampled(p99) PROVE TypeOK'
  <2>1. env' = [valid |-> FALSE, p99 |-> p99, tier |-> 0]
    BY <1>5 DEF Sampled
  <2>2. env' \in Envelopes
    BY <2>1
  <2>3. QED
    BY <2>2, <1>5 DEF Sampled
<1>6. CASE TierPasses
  BY <1>6 DEF TierPasses
<1>7. CASE TierFails
  BY <1>7 DEF TierFails
<1>8. CASE NoTierLeft
  BY <1>8 DEF NoTierLeft
<1>9. ASSUME NEW successes \in 0..SoakN, Soaked(successes) PROVE TypeOK'
  <2>1. Recommended(tier, successes) \in 0..Tiers
    BY <1>9 DEF Recommended, Soaked
  <2>2. env' = [valid |-> TRUE, p99 |-> env.p99, tier |-> Recommended(tier, successes)]
    BY <1>9 DEF Soaked
  <2>3. env' \in Envelopes
    BY <2>1, <2>2
  <2>4. made' \in SUBSET Envelopes
    BY <2>3, <1>9 DEF Soaked
  <2>5. tier \in 1..Tiers /\ failed' \in SUBSET (1..Tiers)
    BY <1>9 DEF Soaked
  <2> HIDE DEF Envelopes
  <2>6. QED
    BY <2>3, <2>4, <2>5, <1>9 DEF Soaked
<1>10. CASE Open
  BY <1>10 DEF Open
<1>11. CASE OpenFails
  BY <1>11 DEF OpenFails
<1>12. CASE Reaches
  <2>1. at = "writing" /\ file.size = part - 1 /\ part \in 1..3
    BY <1>12 DEF Reaches
  <2>2. CASE part = 1
    BY <2>1, <2>2, <1>12 DEF Reaches
  <2>3. CASE part = 2
    BY <2>1, <2>3, <1>12 DEF Reaches
  <2>4. CASE part = 3
    BY <2>1, <2>4, <1>12 DEF Reaches
  <2>5. QED
    BY <2>1, <2>2, <2>3, <2>4
<1>13. CASE WriteFails
  BY <1>13 DEF WriteFails
<1>14. CASE Load
  <2>1. Loaded \in Envelopes
    BY DEF Loaded, NoEnvelope
  <2>2. QED
    BY <2>1, <1>14 DEF Load
<1>15. CASE ProbeHits
  BY <1>15 DEF ProbeHits
<1>16. CASE ProbeMisses
  BY <1>16 DEF ProbeMisses
<1>17. CASE ProbeDead
  BY <1>17 DEF ProbeDead
<1>18. CASE Crash
  BY <1>18 DEF Crash
<1>19. CASE UNCHANGED vars
  BY <1>19 DEF vars
<1>20. QED
  BY <1>1, <1>2, <1>3, <1>4, <1>5, <1>6, <1>7, <1>8, <1>9, <1>10, <1>11, <1>12,
     <1>13, <1>14, <1>15, <1>16, <1>17, <1>18, <1>19 DEF Next

\* Every step keeps what is known of the file that is written.
LEMMA FileStep ==
  ASSUME IInv, [Next]_vars
  PROVE  FileInv'
<1> USE DEF IInv, TypeOK, Envelopes, FileInv, Emptied
<1>1. CASE AutoCalibrateCached
  BY <1>1 DEF AutoCalibrateCached, Call
<1>2. CASE AutoCalibrate
  BY <1>2 DEF AutoCalibrate, Call
<1>3. CASE SaveEnvelope
  BY <1>3 DEF SaveEnvelope, Call
<1>4. CASE NoSample
  BY <1>4 DEF NoSample
<1>5. ASSUME NEW p99 \in Latencies, Sampled(p99) PROVE FileInv'
  BY <1>5 DEF Sampled
<1>6. CASE TierPasses
  BY <1>6 DEF TierPasses
<1>7. CASE TierFails
  BY <1>7 DEF TierFails
<1>8. CASE NoTierLeft
  BY <1>8 DEF NoTierLeft
<1>9. ASSUME NEW successes \in 0..SoakN, Soaked(successes) PROVE FileInv'
  BY <1>9 DEF Soaked
<1>10. CASE Open
  BY <1>10 DEF Open
<1>11. CASE OpenFails
  BY <1>11 DEF OpenFails
<1>12. CASE Reaches
  <2>1. at = "writing" /\ file.size = part - 1 /\ part \in 1..3
    BY <1>12 DEF Reaches
  <2>2. file'.size = part /\ part' = part + 1
    BY <2>1, <1>12 DEF Reaches
  <2>3. CASE part = 1
    <3>1. file'.ours
      BY <2>3, <1>12 DEF Reaches
    <3>2. QED
      BY <2>1, <2>2, <2>3, <3>1, <1>12 DEF Reaches
  <2>4. CASE part = 2
    <3>1. file.ours
      BY <2>1, <2>4
    <3>2. file'.ours
      BY <3>1, <1>12 DEF Reaches
    <3>3. file'.env = [env EXCEPT !.tier = file.env.tier] /\ env' = env /\ at' = "writing"
      BY <2>4, <1>12 DEF Reaches
    <3>4. file'.env.valid = env'.valid /\ file'.env.p99 = env'.p99
      BY <3>3
    <3>5. QED
      BY <2>1, <2>2, <2>4, <3>2, <3>3, <3>4
  <2>5. CASE part = 3
    BY <2>1, <2>5, <1>12 DEF Reaches
  <2>6. QED
    BY <2>1, <2>3, <2>4, <2>5
<1>13. CASE WriteFails
  BY <1>13 DEF WriteFails
<1>14. CASE Load
  BY <1>14 DEF Load
<1>15. CASE ProbeHits
  BY <1>15 DEF ProbeHits
<1>16. CASE ProbeMisses
  BY <1>16 DEF ProbeMisses
<1>17. CASE ProbeDead
  BY <1>17 DEF ProbeDead
<1>18. CASE Crash
  BY <1>18 DEF Crash
<1>19. CASE UNCHANGED vars
  BY <1>19 DEF vars
<1>20. QED
  BY <1>1, <1>2, <1>3, <1>4, <1>5, <1>6, <1>7, <1>8, <1>9, <1>10, <1>11, <1>12,
     <1>13, <1>14, <1>15, <1>16, <1>17, <1>18, <1>19 DEF Next

\* Every step keeps that valid envelopes were measured.
LEMMA MadeStep ==
  ASSUME IInv, [Next]_vars
  PROVE  MadeInv'
<1> USE DEF IInv, TypeOK, Envelopes, NoEnvelope, FileInv, MadeInv, CacheIsMeasured, Loaded, Emptied
<1>1. CASE AutoCalibrateCached
  BY <1>1 DEF AutoCalibrateCached, Call
<1>2. CASE AutoCalibrate
  BY <1>2 DEF AutoCalibrate, Call
<1>3. CASE SaveEnvelope
  BY <1>3 DEF SaveEnvelope, Call
<1>4. CASE NoSample
  BY <1>4 DEF NoSample
<1>5. ASSUME NEW p99 \in Latencies, Sampled(p99) PROVE MadeInv'
  BY <1>5 DEF Sampled
<1>6. CASE TierPasses
  BY <1>6 DEF TierPasses
<1>7. CASE TierFails
  BY <1>7 DEF TierFails
<1>8. CASE NoTierLeft
  BY <1>8 DEF NoTierLeft
<1>9. ASSUME NEW successes \in 0..SoakN, Soaked(successes) PROVE MadeInv'
  BY <1>9 DEF Soaked
<1>10. CASE Open
  BY <1>10 DEF Open
<1>11. CASE OpenFails
  BY <1>11 DEF OpenFails
<1>12. CASE Reaches
  <2>1. at = "writing" /\ file.size = part - 1 /\ part \in 1..3
    BY <1>12 DEF Reaches
  <2>2. CASE part # 3
    BY <2>1, <2>2, <1>12 DEF Reaches
  <2>3. CASE part = 3
    <3>1. file'.env = env /\ env' = env /\ made' = made /\ at' = "idle"
      BY <2>1, <2>3, <1>12 DEF Reaches
    <3>2. QED
      BY <3>1
  <2>4. QED
    BY <2>2, <2>3
<1>13. CASE WriteFails
  BY <1>13 DEF WriteFails
<1>14. CASE Load
  BY <1>14 DEF Load
<1>15. CASE ProbeHits
  BY <1>15 DEF ProbeHits
<1>16. CASE ProbeMisses
  BY <1>16 DEF ProbeMisses
<1>17. CASE ProbeDead
  BY <1>17 DEF ProbeDead
<1>18. CASE Crash
  BY <1>18 DEF Crash
<1>19. CASE UNCHANGED vars
  BY <1>19 DEF vars
<1>20. QED
  BY <1>1, <1>2, <1>3, <1>4, <1>5, <1>6, <1>7, <1>8, <1>9, <1>10, <1>11, <1>12,
     <1>13, <1>14, <1>15, <1>16, <1>17, <1>18, <1>19 DEF Next

\* Every step keeps what is known of the tiers.
LEMMA TierStep ==
  ASSUME IInv, [Next]_vars
  PROVE  TierInv'
<1> USE TiersAssumption, SoakAssumption, LatenciesAssumption, CallsAssumption DEF IInv, TypeOK, Envelopes, NoEnvelope, MadeInv, TierInv, Loaded
<1>1. CASE AutoCalibrateCached
  BY <1>1 DEF AutoCalibrateCached, Call
<1>2. CASE AutoCalibrate
  BY <1>2 DEF AutoCalibrate, Call
<1>3. CASE SaveEnvelope
  BY <1>3 DEF SaveEnvelope, Call
<1>4. CASE NoSample
  BY <1>4 DEF NoSample
<1>5. ASSUME NEW p99 \in Latencies, Sampled(p99) PROVE TierInv'
  BY <1>5 DEF Sampled
<1>6. CASE TierPasses
  BY <1>6 DEF TierPasses
<1>7. CASE TierFails
  BY <1>7 DEF TierFails
<1>8. CASE NoTierLeft
  BY <1>8 DEF NoTierLeft
<1>9. ASSUME NEW successes \in 0..SoakN, Soaked(successes) PROVE TierInv'
  BY <1>9 DEF Soaked
<1>10. CASE Open
  BY <1>10 DEF Open
<1>11. CASE OpenFails
  BY <1>11 DEF OpenFails
<1>12. CASE Reaches
  BY <1>12 DEF Reaches
<1>13. CASE WriteFails
  BY <1>13 DEF WriteFails
<1>14. CASE Load
  BY <1>14 DEF Load
<1>15. CASE ProbeHits
  BY <1>15 DEF ProbeHits
<1>16. CASE ProbeMisses
  BY <1>16 DEF ProbeMisses
<1>17. CASE ProbeDead
  BY <1>17 DEF ProbeDead
<1>18. CASE Crash
  BY <1>18 DEF Crash
<1>19. CASE UNCHANGED vars
  BY <1>19 DEF vars
<1>20. QED
  BY <1>1, <1>2, <1>3, <1>4, <1>5, <1>6, <1>7, <1>8, <1>9, <1>10, <1>11, <1>12,
     <1>13, <1>14, <1>15, <1>16, <1>17, <1>18, <1>19 DEF Next

\* Every step keeps that the recommendation is the best that held.
LEMMA BestStep ==
  ASSUME IInv, [Next]_vars
  PROVE  BestThatHeld'
<1> USE TiersAssumption, SoakAssumption, LatenciesAssumption, CallsAssumption DEF IInv, TypeOK, Envelopes, NoEnvelope, MadeInv, TierInv, BestThatHeld
<1>1. CASE AutoCalibrateCached
  BY <1>1 DEF AutoCalibrateCached, Call
<1>2. CASE AutoCalibrate
  BY <1>2 DEF AutoCalibrate, Call
<1>3. CASE SaveEnvelope
  BY <1>3 DEF SaveEnvelope, Call
<1>4. CASE NoSample
  BY <1>4 DEF NoSample
<1>5. ASSUME NEW p99 \in Latencies, Sampled(p99) PROVE BestThatHeld'
  BY <1>5 DEF Sampled
<1>6. CASE TierPasses
  BY <1>6 DEF TierPasses
<1>7. CASE TierFails
  BY <1>7 DEF TierFails
<1>8. CASE NoTierLeft
  BY <1>8 DEF NoTierLeft
<1>9. ASSUME NEW successes \in 0..SoakN, Soaked(successes) PROVE BestThatHeld'
  <2>1. /\ at = "soaking" /\ tier \in 1..Tiers /\ failed = 1..(tier - 1)
        /\ env'.tier = Recommended(tier, successes)
    BY <1>9 DEF Soaked
  <2>2. CASE successes * 10 < SoakN * 8
    <3>1. failed' = 1..tier
      BY <2>1, <2>2, <1>9 DEF Soaked
    <3>2. env'.tier = IF tier < Tiers THEN tier + 1 ELSE tier
      BY <2>1, <2>2 DEF Recommended
    <3>3. QED
      BY <2>1, <3>1, <3>2
  <2>3. CASE ~ (successes * 10 < SoakN * 8)
    <3>1. failed' = 1..(tier - 1) /\ env'.tier = tier
      BY <2>1, <2>3, <1>9 DEF Soaked, Recommended
    <3>2. QED
      BY <2>1, <3>1
  <2>4. QED
    BY <2>2, <2>3
<1>10. CASE Open
  BY <1>10 DEF Open
<1>11. CASE OpenFails
  BY <1>11 DEF OpenFails
<1>12. CASE Reaches
  BY <1>12 DEF Reaches
<1>13. CASE WriteFails
  BY <1>13 DEF WriteFails
<1>14. CASE Load
  BY <1>14 DEF Load
<1>15. CASE ProbeHits
  BY <1>15 DEF ProbeHits
<1>16. CASE ProbeMisses
  BY <1>16 DEF ProbeMisses
<1>17. CASE ProbeDead
  BY <1>17 DEF ProbeDead
<1>18. CASE Crash
  BY <1>18 DEF Crash
<1>19. CASE UNCHANGED vars
  BY <1>19 DEF vars
<1>20. QED
  BY <1>1, <1>2, <1>3, <1>4, <1>5, <1>6, <1>7, <1>8, <1>9, <1>10, <1>11, <1>12,
     <1>13, <1>14, <1>15, <1>16, <1>17, <1>18, <1>19 DEF Next

\* Every step keeps that an invalid result has its reason.
LEMMA UnwellStep ==
  ASSUME IInv, [Next]_vars
  PROVE  InvalidMeansUnwell'
<1> USE TiersAssumption, SoakAssumption, LatenciesAssumption, CallsAssumption DEF IInv, TypeOK, Envelopes, NoEnvelope, MadeInv, TierInv, InvalidMeansUnwell, Loaded
<1>1. CASE AutoCalibrateCached
  BY <1>1 DEF AutoCalibrateCached, Call
<1>2. CASE AutoCalibrate
  BY <1>2 DEF AutoCalibrate, Call
<1>3. CASE SaveEnvelope
  BY <1>3 DEF SaveEnvelope, Call
<1>4. CASE NoSample
  BY <1>4 DEF NoSample
<1>5. ASSUME NEW p99 \in Latencies, Sampled(p99) PROVE InvalidMeansUnwell'
  BY <1>5 DEF Sampled
<1>6. CASE TierPasses
  BY <1>6 DEF TierPasses
<1>7. CASE TierFails
  BY <1>7 DEF TierFails
<1>8. CASE NoTierLeft
  <2>1. tier = Tiers + 1 /\ failed = 1..Tiers
    BY <1>8 DEF NoTierLeft
  <2>2. QED
    BY <2>1, <1>8 DEF NoTierLeft
<1>9. ASSUME NEW successes \in 0..SoakN, Soaked(successes) PROVE InvalidMeansUnwell'
  BY <1>9 DEF Soaked
<1>10. CASE Open
  BY <1>10 DEF Open
<1>11. CASE OpenFails
  BY <1>11 DEF OpenFails
<1>12. CASE Reaches
  BY <1>12 DEF Reaches
<1>13. CASE WriteFails
  BY <1>13 DEF WriteFails
<1>14. CASE Load
  BY <1>14 DEF Load
<1>15. CASE ProbeHits
  BY <1>15 DEF ProbeHits
<1>16. CASE ProbeMisses
  BY <1>16 DEF ProbeMisses
<1>17. CASE ProbeDead
  BY <1>17 DEF ProbeDead
<1>18. CASE Crash
  BY <1>18 DEF Crash
<1>19. CASE UNCHANGED vars
  BY <1>19 DEF vars
<1>20. QED
  BY <1>1, <1>2, <1>3, <1>4, <1>5, <1>6, <1>7, <1>8, <1>9, <1>10, <1>11, <1>12,
     <1>13, <1>14, <1>15, <1>16, <1>17, <1>18, <1>19 DEF Next

\* The invariant holds in every behaviour.
LEMMA Invariance == Spec => []IInv
<1>1. Init => IInv
  <2>1. SUFFICES ASSUME Init PROVE IInv
    OBVIOUS
  <2>2. NoEnvelope \in Envelopes
    BY TiersAssumption DEF NoEnvelope, Envelopes
  <2>3. file \in [size : 0..3, ours : BOOLEAN, env : Envelopes]
    <3>1. PICK n \in {0, 3} : file = [size |-> n, ours |-> FALSE, env |-> NoEnvelope]
      BY <2>1 DEF Init
    <3>2. QED
      BY <2>2, <3>1
  <2>4. TypeOK
    BY <2>1, <2>2, <2>3, TiersAssumption, CallsAssumption DEF Init, TypeOK
  <2>5. ~ env.valid /\ ~ file.ours
    BY <2>1 DEF Init, NoEnvelope
  <2>6. FileInv /\ MadeInv
    <3>1. ~ Loaded.valid
      BY <2>5 DEF Loaded, NoEnvelope
    <3>2. QED
      BY <2>1, <2>5, <3>1 DEF Init, FileInv, MadeInv, CacheIsMeasured
  <2>7. TierInv /\ BestThatHeld /\ InvalidMeansUnwell
    BY <2>1, <2>5 DEF Init, TierInv, BestThatHeld, InvalidMeansUnwell
  <2>8. QED
    BY <2>4, <2>6, <2>7 DEF IInv
<1>2. IInv /\ [Next]_vars => IInv'
  BY TypeStep, FileStep, MadeStep, TierStep, BestStep, UnwellStep DEF IInv
<1>3. QED
  BY <1>1, <1>2, PTL DEF Spec

\* Every variable of auto_calibrate() and its cache has its type.
THEOREM EnvelopeTyped == Spec => []TypeOK
<1>1. IInv => TypeOK
  BY DEF IInv
<1>2. QED
  BY <1>1, Invariance, PTL

\* load_envelope() never returns a valid envelope that was not measured as it is,
\* whatever interrupted save_envelope().
THEOREM CacheNeverLies == Spec => []CacheIsMeasured
<1>1. IInv => CacheIsMeasured
  BY DEF IInv, MadeInv
<1>2. QED
  BY <1>1, Invariance, PTL

\* auto_calibrate() recommends the most aggressive tier that was not seen to fail.
THEOREM BestTierRecommended == Spec => []BestThatHeld
<1>1. IInv => BestThatHeld
  BY DEF IInv
<1>2. QED
  BY <1>1, Invariance, PTL

\* auto_calibrate_cached() gives no envelope only if the motor is to blame.
THEOREM CacheNeverInTheWay == Spec => []InvalidMeansUnwell
<1>1. IInv => InvalidMeansUnwell
  BY DEF IInv
<1>2. QED
  BY <1>1, Invariance, PTL
=============================================================================
