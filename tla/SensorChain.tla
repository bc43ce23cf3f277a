---------------------------- MODULE SensorChain ----------------------------
(***************************************************************************)
(* From the 1-Wire buses to a usable temperature: Ds18b20SamplingEngine in *)
(* its sampler task, the SensorQualityPipeline of a channel, and the       *)
(* TargetQualificationEvaluator that counts the time in the target band.   *)
(*                                                                         *)
(* Bus 0 carries the two fixed sensors, bound to their ROMs before the     *)
(* task starts; bus 1 carries whatever product probe is plugged in.  The   *)
(* task (step()), the reader of a channel and the evaluation of the target *)
(* run on their own, and probes come and go between any two of them.       *)
(*                                                                         *)
(* Time counts ticks.  A timestamp is kept as its age, so the model has no *)
(* clock to bound; ages saturate one past the largest value a comparison   *)
(* can tell apart.  The numeric filters are left out: `filter` holds the   *)
(* ROMs whose samples they contain, and a filtered value is in the target  *)
(* band or out of it.                                                      *)
(***************************************************************************)
EXTENDS Integers, FiniteSets

CONSTANTS
  Nothing,         \* std::nullopt
  Air, Heatsink,   \* the ROMs of the commissioning record, channels 0 and 1
  FixedBus,        \* the sets of ROMs the fixed bus may be found to carry
  Probes,          \* the ROMs of the product probes
  Watched,         \* the channels that have a pipeline
  Target,          \* the channel the target is qualified on
  CyclePeriod,     \* kCyclePeriodMs
  ConversionWait,  \* kConversionWaitMs
  LateMax,         \* bound on how late the sampler task runs
  Temps,           \* the temperatures a sensor reports
  Plausible,       \* those within both range checks
  MaxRate,         \* maxRateOfChangeCelsiusPerSecond(), per tick
  MaxStaleAge, MaxInvalid, MinValid, MinStable,   \* SensorQualityConfig
  QualifyTime, Grace, MaxGap,  \* TargetQualificationInput
  MishapMax        \* bound on faults, exchanged probes, delays, jumps and
                   \* discarded evaluations

ASSUME SensorChainConstants ==
  /\ ConversionWait \in Nat \ {0} /\ LateMax \in Nat
  /\ CyclePeriod \in Nat /\ CyclePeriod >= ConversionWait
  /\ Air # Heatsink
  /\ Plausible # {} /\ Plausible \subseteq Temps /\ Temps \subseteq Int
  /\ MaxRate \in Nat
  /\ MaxStaleAge \in Nat /\ MaxInvalid \in Nat
  /\ MinValid \in Nat \ {0} /\ MinStable \in Nat
  /\ QualifyTime \in Nat \ {0} /\ Grace \in Nat /\ MaxGap \in Nat \ {0}
  /\ MishapMax \in Nat

VARIABLES
  bound,       \* bindingValid_
  plugged,     \* the probes on the product bus
  temp,        \* the temperature there is to measure
  mishaps,     \* troubles still to come
  phase,       \* "Idle" or "Waiting" (WaitingForConversion)
  cycleIn,     \* nextCycleStartMs_ - now
  readIn,      \* conversionStartedMs_ + kConversionWaitMs - now
  plan,        \* channel -> the ROM to read, or Nothing
  resolution,  \* per bus, the ROMs known to convert with 12 bits
  lastSeen,    \* singleDeviceLastSeen_
  readings,    \* channel -> the published TemperatureReading
  pipe,        \* channel -> SensorQualityPipeline
  qual         \* TargetQualificationEvaluator's state_

engine == <<phase, cycleIn, readIn, plan, resolution, lastSeen, readings>>
world == <<bound, plugged, temp>>
chainVars == <<world, mishaps, engine, pipe, qual>>

Channels == {"air", "heatsink", "product"}
Fixed == {"air", "heatsink"}

Roms == Probes \cup {Air, Heatsink}

\* TemperatureReading
ReadingValues ==
  [rom : Roms \cup {Nothing}, ok : BOOLEAN, temp : Temps \cup {Nothing},
   age : Nat]

ASSUME SensorChainWatched == Watched \subseteq Channels

\* What stands for nothing is no number, no ROM and no reading.
ASSUME SensorChainNothing == Nothing \notin Int \cup Roms \cup ReadingValues

MinOf(a, b) == IF a <= b THEN a ELSE b
MaxOf(a, b) == IF a >= b THEN a ELSE b

\* The oldest a reading gets before its channel is published again: a conversion
\* that is read late may end after the next cycle was due.
ReadingAgeMax ==
  MaxOf(CyclePeriod, ConversionWait + LateMax) + ConversionWait + 2 * LateMax

AgeCap == ReadingAgeMax + 1

Older(age, cap) == MinOf(age + 1, cap)
OlderReading(r) == [r EXCEPT !.age = Older(@, AgeCap)]

-----------------------------------------------------------------------------
(* The sampling engine *)

ExpectedRom(ch) ==
  IF ~bound THEN Nothing ELSE IF ch = "air" THEN Air ELSE Heatsink

\* makeReading(); every status but Ok is one fault to the pipeline.
Reading(rom, ok, t) == [rom |-> rom, ok |-> ok, temp |-> t, age |-> 0]
Failed(rom) == Reading(rom, FALSE, Nothing)

\* The driver call of a bus that fails in a cycle, if one does.  A zero ROM or
\* an overflow is a failed enumeration to everything below.
Faults == {"none", "presence", "enumerate", "resolution", "start"}
Dead(f) == f \in {"presence", "enumerate"}

NothingPlanned == [ch \in Channels |-> Nothing]

BusPlan(rom, reading, known) == [plan |-> rom, readings |-> reading, known |-> known]

\* Mutant: a missing sensor leaves the channel's last reading in place.
PlanExpectedRomBusSilent(f, found) ==
  LET none == [ch \in Fixed |-> Nothing]
      kept == [ch \in Fixed |-> readings[ch]]
      p == [ch \in Fixed |-> IF ExpectedRom(ch) \in found THEN ExpectedRom(ch) ELSE Nothing]
  IN IF ~bound \/ Dead(f) \/ p = none
     THEN BusPlan(none, kept, {}) ELSE BusPlan(p, kept, {Air, Heatsink})

\* planExpectedRomBus(): no verified binding, no identity and never Ok; a bus
\* fault or an unknown ROM closes both channels; otherwise each channel is
\* configured and planned on its own, and one conversion serves both.
PlanExpectedRomBus(f, found) ==
  LET none == [ch \in Fixed |-> Nothing]
      closed == [ch \in Fixed |-> Failed(ExpectedRom(ch))]
      known == resolution["expected"] \cap found
      ready(ch) == /\ ExpectedRom(ch) \in found
                   /\ ExpectedRom(ch) \in known \/ f # "resolution"
      planned == [ch \in Fixed |-> IF ready(ch) THEN ExpectedRom(ch) ELSE Nothing]
      marked == known \cup ({planned[ch] : ch \in Fixed} \ {Nothing})
      missed == [ch \in Fixed |-> IF planned[ch] = Nothing THEN Failed(ExpectedRom(ch))
                                                        ELSE readings[ch]]
  IN IF ~bound \/ Dead(f) THEN BusPlan(none, closed, {})
     ELSE IF found \ {Air, Heatsink} # {} THEN BusPlan(none, closed, known)
     ELSE IF planned = none THEN BusPlan(none, missed, marked)
     ELSE IF f = "start" THEN BusPlan(none, closed, {})
     ELSE BusPlan(planned, missed, marked)

\* planSingleDeviceBus(): exactly one probe, whichever it is; a reading that
\* is not Ok carries the probe last seen.
PlanSingleDeviceBus(f) ==
  LET rom == CHOOSE r \in plugged : TRUE
      fault == BusPlan(Nothing, Failed(lastSeen), {})
      known == resolution["single"] \cap plugged
  IN IF Dead(f) \/ Cardinality(plugged) # 1 THEN fault
     ELSE IF rom \notin known /\ f = "resolution"
     THEN BusPlan(Nothing, Failed(rom), known)
     ELSE IF f = "start" THEN BusPlan(Nothing, Failed(rom), {})
     ELSE BusPlan(rom, readings["product"], known \cup {rom})

SeenProbe(f) ==
  IF ~Dead(f) /\ Cardinality(plugged) = 1
  THEN CHOOSE r \in plugged : TRUE ELSE lastSeen

\* What goes wrong in a step is paid from the bound on troubles.
Costs(a, b, c, d) ==
  LET n == Cardinality(a) + Cardinality(b) + Cardinality(c) + Cardinality(d)
  IN n <= mishaps /\ mishaps' = mishaps - n

\* beginCycle()
BeginCycle ==
  /\ phase = "Idle" /\ cycleIn <= 0
  /\ \E f, g \in Faults, found \in FixedBus :
       LET e == PlanExpectedRomBus(f, found)
           s == PlanSingleDeviceBus(g)
           planned == [ch \in Channels |-> IF ch \in Fixed THEN e.plan[ch] ELSE s.plan]
       IN /\ Costs({f} \ {"none"}, {g} \ {"none"}, {Air, Heatsink} \ found,
                   found \ {Air, Heatsink})
          /\ plan' = planned
          /\ readings' = [ch \in Channels |->
                            IF ch \in Fixed THEN e.readings[ch] ELSE s.readings]
          /\ resolution' = [expected |-> e.known, single |-> s.known]
          /\ lastSeen' = SeenProbe(g)
          /\ phase' = IF planned = NothingPlanned THEN "Idle" ELSE "Waiting"
  /\ cycleIn' = CyclePeriod
  /\ readIn' = ConversionWait
  /\ UNCHANGED <<world, pipe, qual>>

\* finishCycle(): what was planned is read.  A probe that is gone by now does
\* not answer; any read may fail.
FinishCycle ==
  /\ phase = "Waiting" /\ readIn <= 0
  /\ \E good \in SUBSET {ch \in Channels : plan[ch] # Nothing} :
       /\ "product" \in good => plan["product"] \in plugged
       /\ Costs({ch \in Channels \ good :
                   plan[ch] \notin {Nothing} \cup (Probes \ plugged)}, {}, {}, {})
       /\ readings' = [ch \in Channels |->
                         CASE plan[ch] = Nothing -> readings[ch]
                           [] ch \in good -> Reading(plan[ch], TRUE, temp)
                           [] OTHER -> Failed(plan[ch])]
       /\ resolution' =
            [expected |-> IF \E ch \in Fixed \ good : plan[ch] # Nothing THEN {}
                          ELSE resolution["expected"],
             single |-> IF plan["product"] # Nothing /\ "product" \notin good THEN {}
                        ELSE resolution["single"]]
  /\ cycleIn' = MaxOf(cycleIn, 0)
  /\ phase' = "Idle"
  /\ readIn' = 0
  /\ plan' = NothingPlanned
  /\ UNCHANGED <<world, lastSeen, pipe, qual>>

\* step(), called again and again by Ds18b20Sampler::run().
Step == BeginCycle \/ FinishCycle

\* A probe is plugged in, pulled out or exchanged.
Plug ==
  /\ mishaps > 0 /\ mishaps' = mishaps - 1
  /\ \E p \in SUBSET Probes : p # plugged /\ plugged' = p
  /\ UNCHANGED <<bound, temp, engine, pipe, qual>>

\* The temperature jumps.
Jump ==
  /\ mishaps > 0 /\ mishaps' = mishaps - 1
  /\ \E t \in Temps : t # temp /\ temp' = t
  /\ UNCHANGED <<bound, plugged, engine, pipe, qual>>

-----------------------------------------------------------------------------
(* The quality pipeline *)

\* acc is lastAccepted_; validAge dates the last valid sample, which is also
\* the end of the recovery streak and the reference of the change rate.
EmptyPipe ==
  [acc |-> Nothing, validAge |-> Nothing, bad |-> 0, good |-> 0, span |-> 0,
   latched |-> FALSE, rate |-> Nothing, filter |-> {}]

\* determineDisposition(): a sample of the tick already accepted is a
\* duplicate or a conflict, and neither counts.
Accepted(p, s) == p.acc = Nothing \/ s.age < p.acc.age

\* computeRawFailureConditions()
RawFailure(p) ==
  \/ p.validAge # Nothing /\ p.validAge > MaxStaleAge
  \/ p.bad > MaxInvalid

\* isRecoveryComplete()
RecoveryComplete(p) == p.good >= MinValid /\ p.span >= MinStable

\* deriveQuality()
Quality(p) ==
  IF RawFailure(p) THEN "Failed"
  ELSE IF RecoveryComplete(p) THEN "Valid"
  ELSE IF p.latched THEN "Failed"
  ELSE "Stale"

\* recordInvalidSample()
RecordInvalid(p, mismatch) ==
  LET bad == MinOf(p.bad + 1, MaxInvalid + 1)
      failed == bad > MaxInvalid
  IN [p EXCEPT !.bad = bad, !.good = 0, !.span = 0, !.rate = Nothing,
               !.filter = IF failed \/ p.latched \/ mismatch THEN {} ELSE @,
               !.latched = @ \/ failed]

\* recordValidSample(), the release of the latch and the filters
RecordValid(p, s) ==
  LET span == IF p.good = 0 THEN 0
              ELSE MinOf(p.span + p.validAge - s.age, MinStable)
      q == [p EXCEPT !.validAge = s.age, !.bad = 0, !.good = MinOf(@ + 1, MinValid),
                     !.span = span, !.rate = s.temp, !.filter = @ \cup {s.rom}]
  IN [q EXCEPT !.latched = @ /\ ~RecoveryComplete(q)]

\* Mutant: the streak from before a silence goes on after it.
EnteredKept(p) == p

\* The state a sample meets: a streak left over from before the channel
\* failed does not go on.
Entered(p) ==
  IF RawFailure(p)
  THEN [p EXCEPT !.good = 0, !.span = 0, !.latched = TRUE, !.filter = {}, !.rate = Nothing]
  ELSE p

Mismatch(p, s) ==
  p.acc # Nothing /\ p.acc.rom # Nothing /\ s.rom # Nothing /\ p.acc.rom # s.rom

TooFast(p, s) ==
  /\ p.rate # Nothing
  /\ MaxOf(s.temp - p.rate, p.rate - s.temp) > MaxRate * (p.validAge - s.age)

\* ingest()
Ingest(p, s) ==
  LET e == [Entered(p) EXCEPT !.acc = s]
  IN IF ~Accepted(p, s) THEN p
     ELSE IF Mismatch(p, s) THEN RecordInvalid(e, TRUE)
     ELSE IF ~s.ok \/ s.temp \notin Plausible \/ TooFast(e, s)
     THEN RecordInvalid(e, FALSE)
     ELSE RecordValid(e, s)

\* The ROM a snapshot() names: that of the last sample that had one.
SnapshotRom(p) == p.acc.rom

-----------------------------------------------------------------------------
(* The target qualification *)

\* clearEpisode()
NoEpisode == [active |-> FALSE, credit |-> 0, since |-> Nothing, grace |-> Nothing]

Usable(p) == Quality(p) = "Valid"

\* Mutant: the way back into the band is credited too.
InBandGraceCredited(q) ==
  IF ~q.active THEN [NoEpisode EXCEPT !.active = TRUE, !.since = 0]
  ELSE [q EXCEPT !.grace = Nothing, !.credit = MinOf(@ + q.since, QualifyTime), !.since = 0]

\* The qualifying samples past the grace and gap checks, inside and outside
\* the band
InBand(q) ==
  IF ~q.active THEN [NoEpisode EXCEPT !.active = TRUE, !.since = 0]
  ELSE IF q.grace # Nothing /\ q.grace >= Grace
  THEN [NoEpisode EXCEPT !.active = TRUE, !.since = 0]
  ELSE IF q.grace # Nothing THEN [q EXCEPT !.grace = Nothing, !.since = 0]
  ELSE [q EXCEPT !.credit = MinOf(@ + q.since, QualifyTime), !.since = 0]

OutsideBand(q) ==
  IF q.grace # Nothing /\ q.grace < Grace THEN [q EXCEPT !.since = 0]
  ELSE IF q.grace = Nothing /\ q.active /\ Grace > 0
  THEN [q EXCEPT !.grace = 0, !.since = 0]
  ELSE NoEpisode

\* evaluate(): the candidate
EvaluatedTarget(q, p, inBand) ==
  IF ~Usable(p) THEN NoEpisode
  ELSE IF q.since # Nothing /\ q.since > MaxGap THEN NoEpisode
  ELSE IF inBand THEN InBand(q)
  ELSE OutsideBand(q)

\* What becomes of a candidate.  A process transition it brings about is
\* stored first, and the candidate is applied only after that; qualifying
\* leaves the phase and ends the episode.  A candidate whose write failed, or
\* that met a newer run, process state or time, is discarded, and so is one
\* that a fault which could not be stored kept from being computed: the state
\* of the last applied evaluation stays in force.
Outcomes == {"applied", "left", "discarded"}

\* PreheatQualified and TargetQualified ask for QualificationProgress::Complete.
Completes(q, p, inBand) ==
  /\ inBand /\ q.grace = Nothing
  /\ EvaluatedTarget(q, p, inBand).credit = QualifyTime

QualifiedBy(q, p, inBand, outcome) ==
  CASE outcome = "applied" -> EvaluatedTarget(q, p, inBand)
    [] outcome = "left" -> NoEpisode
    [] outcome = "discarded" -> q

\* The owner of a channel reads it, when it gets to it, and runs
\* evaluateAndApplyTargetQualification() with what it then knows.
Poll(ch, inBand, outcome) ==
  /\ pipe' = [pipe EXCEPT ![ch] = Ingest(@, readings[ch])]
  /\ ch # Target => outcome = "applied"
  /\ outcome = "left" => Completes(qual, pipe'[ch], inBand)
  /\ Costs({outcome} \cap {"discarded"}, {}, {}, {})
  /\ qual' = IF ch = Target THEN QualifiedBy(qual, pipe'[ch], inBand, outcome)
             ELSE qual
  /\ UNCHANGED <<world, engine>>

\* The process left the qualifying phase in another way, a boundary of the
\* run was passed, or the next evaluation found another context: reset() or
\* clearEpisode().
ResetQualification ==
  /\ qual # NoEpisode
  /\ qual' = NoEpisode
  /\ UNCHANGED <<world, mishaps, engine, pipe>>

-----------------------------------------------------------------------------
(* Time and the specification *)

Due == IF phase = "Idle" THEN cycleIn ELSE readIn

AgedPipe(p) ==
  [p EXCEPT !.acc = IF @ = Nothing THEN Nothing ELSE OlderReading(@),
            !.validAge = IF @ = Nothing THEN Nothing ELSE Older(@, MaxStaleAge + 1)]

AgedQual(q) ==
  [q EXCEPT !.since = IF @ = Nothing THEN Nothing ELSE Older(@, MaxGap + 1),
            !.grace = IF @ = Nothing THEN Nothing ELSE Older(@, Grace)]

\* A tick passes; the sampler task is at most LateMax behind.
ChainTick ==
  /\ Due > -LateMax
  /\ Costs(IF Due <= 0 THEN {"late"} ELSE {}, {}, {}, {})
  /\ cycleIn' = MaxOf(cycleIn - 1, -LateMax)
  /\ readIn' = IF phase = "Waiting" THEN readIn - 1 ELSE 0
  /\ readings' = [ch \in Channels |-> OlderReading(readings[ch])]
  /\ pipe' = [ch \in Watched |-> AgedPipe(pipe[ch])]
  /\ qual' = AgedQual(qual)
  /\ UNCHANGED <<world, phase, plan, resolution, lastSeen>>

ChainInit ==
  /\ bound \in BOOLEAN
  /\ \E p \in Probes : plugged = {p}
  /\ temp = CHOOSE t \in Plausible : TRUE
  /\ mishaps = MishapMax
  /\ phase = "Idle" /\ cycleIn = 0 /\ readIn = 0
  /\ plan = NothingPlanned
  /\ resolution = [expected |-> {}, single |-> {}]
  /\ lastSeen = Nothing
  /\ readings = [ch \in Channels |-> Failed(Nothing)]
  /\ pipe = [ch \in Watched |-> EmptyPipe]
  /\ qual = NoEpisode

ChainNext ==
  \/ Step
  \/ Plug
  \/ Jump
  \/ \E ch \in Watched, inBand \in BOOLEAN, outcome \in Outcomes :
       Poll(ch, inBand, outcome)
  \/ ResetQualification
  \/ ChainTick

ChainSpec == ChainInit /\ [][ChainNext]_chainVars

=============================================================================
