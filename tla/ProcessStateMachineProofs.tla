---------------------- MODULE ProcessStateMachineProofs ----------------------
(***************************************************************************)
(* Proofs about the process state machine, for every set of run            *)
(* snapshots, every last transition sequence, any spacing of operations,   *)
(* any outage and any number of waiting decisions.                         *)
(*                                                                         *)
(* What is decided can be applied because the state the machine is in      *)
(* always fits its run snapshot and this boot's clock; what is commanded   *)
(* can be stored because the recovery fields never outlive the phase they  *)
(* belong to (Coherent).  That a fermentation does not end early rests on  *)
(* the decisions that wait: one for the state as it is now was made with   *)
(* the duration and the time base of now (Founded).                        *)
(***************************************************************************)
EXTENDS ProcessStateMachine, TLAPS

RunlessStates ==
  {"Boot", "SafeBoot", "Standby", "ServiceMode", "Completed",
   "RecoveryEvaluation"}

StoredStates == RunStates \cup {"Completed", "RecoveryEvaluation", "Fault"}

\* The wait for a full qualification is entered with its beginning known.
Tracking(r) == r.state = "QualifyingTarget" => r.qualifyingSince # None

\* State, run snapshot and recovery fields fit each other.
Fits(r, s, pr, an) ==
  IF s = None
  THEN r.state \in RunlessStates /\ pr = None /\ an = None
  ELSE /\ r.state \in StoredStates
       /\ StateMatchesSnapshot(r.state, s)
       /\ ValidAnchor(r, s, pr, an)
       /\ ValidPrior(r, pr, an)

\* The state fits its run and, once it is active, the clock of this boot; only
\* a restored fault keeps the times of an earlier boot.
Coherent ==
  /\ ShapeValid(runtime) /\ Tracking(runtime)
  /\ ~loaded /\ runtime.state # "Fault" => TimeValid(runtime, now)
  /\ Fits(runtime, snapshot, prior, anchor)
  /\ prior # None => prior.state \in TimedStates
  /\ loaded => snapshot # None /\ pending = {}

\* Reasons that only the recovery at boot gives
RecoveryReasons ==
  {"RecoveryResumed", "RecoveryEndedByExpiredWait", "RecoveryReentryRequired"}

\* What a decision that may wait is like.
Sensible(d, r, t) ==
  /\ d.status = "Proposed"
  /\ d.before = r /\ d.after \in Runtimes /\ d.time = t
  /\ Tracking(d.after)
  /\ d.reason \notin RecoveryReasons
  /\ d.reason = "FermentationCompleted" => r.state = "Fermenting"

\* A waiting decision was made in this boot for an earlier state or this one.
Waiting ==
  \A p \in pending :
    /\ p.decision.time \in 0 .. now
    /\ p.decision.before \in Runtimes
    /\ Sensible(p.decision, p.decision.before, p.decision.time)
    /\ p.snapshot \in Snapshots \cup {None}
    /\ p.decision.before.sequence <= runtime.sequence

\* The end of a fermentation that waits for the state of now was due by the
\* duration of now, unless time of earlier boots counts as well.
Founded ==
  \A p \in pending :
    /\ p.decision.before = runtime
    /\ p.decision.reason = "FermentationCompleted"
    /\ prior = None
    => p.decision.time - runtime.enteredAt >= snapshot.fermentation

ProcessInv == TypeOK /\ Coherent /\ Waiting /\ Founded

-----------------------------------------------------------------------------
(* Proposals *)

\* A decision has the fields of ProcessTransitionDecision.
IsDecision(d) ==
  d = [status |-> d.status, before |-> d.before, after |-> d.after,
       reason |-> d.reason, time |-> d.time, messages |-> d.messages]

\* A proposal for state r at time t with run s: it may wait, and
\* applyProcessTransition() takes it for the state it was made for.
Sound(d, r, s, t) ==
  IsDecision(d) /\ Sensible(d, r, t) /\ Applicable(r, d, s)

\* A reason may lead from one state of the run to the other.
Fitting(reason, from, to, s) ==
  /\ <<reason, from, to>> \in Topology
  /\ reason \notin RecoveryReasons
  /\ reason = "FermentationCompleted" => from = "Fermenting"
  /\ reason # "CriticalFault" /\ {from, to} \cap RunStates # {} =>
       /\ s \in Snapshots
       /\ from \in RunStates => StateMatchesSnapshot(from, s)
       /\ to \in RunStates => StateMatchesSnapshot(to, s)
       /\ to = TargetFor(reason, s, to)
       /\ reason = "HoldDurationCompleted" =>
            s.mode = "CoolAndHoldForDuration"

\* The state a proposal starts from can be decided on.
Decidable(r, t) ==
  /\ r \in Runtimes /\ t \in Nat
  /\ ShapeValid(r) /\ TimeValid(r, t) /\ Tracking(r)
  /\ r.sequence # SequenceMax

\* What propose() promises: the state is entered now, and what belongs to
\* other states is cleared.
Enters(d, r, next, reason, t) ==
  /\ IsDecision(d)
  /\ d.status = "Proposed" /\ d.before = r /\ d.after \in Runtimes
  /\ d.reason = reason /\ d.time = t
  /\ d.after.sequence = r.sequence + 1
  /\ d.after.state = next /\ d.after.enteredAt = t
  /\ d.after.qualifyingSince = None
  /\ next \notin TargetReachStates =>
       d.after.reachStartedAt = 0 /\ d.after.warned = FALSE
  /\ next \in TargetReachStates =>
       /\ d.after.reachStartedAt = r.reachStartedAt
       /\ d.after.warned = r.warned

LEMMA ProposeEffect ==
  ASSUME NEW r \in Runtimes, NEW t \in Nat, NEW next \in States, NEW reason,
         r.sequence # SequenceMax
  PROVE  Enters(Propose(r, next, reason, t), r, next, reason, t)
<1> DEFINE after == [r EXCEPT
                   !.state = next, !.enteredAt = t, !.qualifyingSince = None,
                   !.reachStartedAt = IF next \in TargetReachStates THEN @
                                      ELSE 0,
                   !.warned = IF next \in TargetReachStates THEN @ ELSE FALSE,
                   !.sequence = @ + 1]
<1>1. Propose(r, next, reason, t) =
        [status |-> "Proposed", before |-> r, after |-> after,
         reason |-> reason, time |-> t, messages |-> {}]
  BY DEF Propose, Result
<1>2. r.sequence + 1 \in 0 .. SequenceMax
  BY SequenceAssumption DEF Runtimes
<1>3. after \in Runtimes
  BY <1>2 DEF Runtimes
<1>4. /\ after.sequence = r.sequence + 1
      /\ after.state = next /\ after.enteredAt = t
      /\ after.qualifyingSince = None
      /\ after.reachStartedAt =
           IF next \in TargetReachStates THEN r.reachStartedAt ELSE 0
      /\ after.warned = IF next \in TargetReachStates THEN r.warned ELSE FALSE
  BY DEF Runtimes
<1> DEFINE d == Propose(r, next, reason, t)
<1>5. /\ d.status = "Proposed" /\ d.before = r /\ d.after = after
      /\ d.reason = reason /\ d.time = t
  BY <1>1
<1> HIDE DEF after, d
<1>9. IsDecision(d)
  BY <1>1 DEF IsDecision, d
<1>6. /\ d.status = "Proposed" /\ d.before = r /\ d.after \in Runtimes
      /\ d.reason = reason /\ d.time = t
      /\ d.after.sequence = r.sequence + 1
      /\ d.after.state = next /\ d.after.enteredAt = t
      /\ d.after.qualifyingSince = None
  BY <1>3, <1>4, <1>5
<1>7. next \notin TargetReachStates =>
        d.after.reachStartedAt = 0 /\ d.after.warned = FALSE
  BY <1>4, <1>5
<1>8. next \in TargetReachStates =>
        /\ d.after.reachStartedAt = r.reachStartedAt
        /\ d.after.warned = r.warned
  BY <1>4, <1>5
<1> QED
  BY <1>6, <1>7, <1>8, <1>9, Zenon DEF d, Enters

\* A state that was entered by propose() is valid.
LEMMA EntersValid ==
  ASSUME NEW d, NEW r, NEW t, Decidable(r, t), NEW next \in States, NEW reason,
         next \in TargetReachStates => r.state \in TargetReachStates,
         Enters(d, r, next, reason, t)
  PROVE  ShapeValid(d.after) /\ TimeValid(d.after, t)
<1>1. r \in Runtimes /\ t \in Nat
  BY DEF Decidable
<1>2. r.state \in TargetReachStates => r.reachStartedAt <= t
  BY DEF Decidable, TimeValid
<1>3. /\ d.after.state = next /\ d.after.enteredAt = t
      /\ d.after.qualifyingSince = None
      /\ next \notin TargetReachStates =>
           d.after.reachStartedAt = 0 /\ d.after.warned = FALSE
      /\ next \in TargetReachStates =>
           d.after.reachStartedAt = r.reachStartedAt
  BY Zenon DEF Enters
<1>4. ShapeValid(d.after)
  BY <1>3, Zenon DEF ShapeValid
<1>5. TimeValid(d.after, t)
  BY <1>1, <1>2, <1>3 DEF TimeValid
<1> QED
  BY <1>4, <1>5

\* New data within a state
LEMMA UpdateEffect ==
  ASSUME NEW r \in Runtimes, NEW t \in Nat, NEW reason,
         r.sequence # SequenceMax
  PROVE  /\ UpdatePhaseData(r, reason, t) =
              [status |-> "Proposed", before |-> r,
               after |-> [r EXCEPT !.sequence = @ + 1],
               reason |-> reason, time |-> t, messages |-> {}]
         /\ [r EXCEPT !.sequence = @ + 1] \in Runtimes
<1> DEFINE d == UpdatePhaseData(r, reason, t)
           after == [r EXCEPT !.sequence = @ + 1]
<1>1. /\ d.status = "Proposed" /\ d.before = r /\ d.after = after
      /\ d.reason = reason /\ d.time = t /\ d.messages = {}
  BY DEF UpdatePhaseData, Result
<1>2. after \in Runtimes
  BY SequenceAssumption DEF Runtimes
<1>3. d = [status |-> d.status, before |-> d.before, after |-> d.after,
           reason |-> d.reason, time |-> d.time, messages |-> d.messages]
  <2> DEFINE base == Result("Proposed", r, t)
  <2>1. base = [status |-> base.status, before |-> base.before,
                after |-> base.after, reason |-> base.reason,
                time |-> base.time, messages |-> base.messages]
    BY DEF Result
  <2>2. d = [base EXCEPT !.reason = reason, !.after = after]
    BY Zenon DEF UpdatePhaseData
  <2> HIDE DEF base, after, d
  <2> QED
    BY <2>1, <2>2
<1> HIDE DEF d, after
<1>4. d = [status |-> "Proposed", before |-> r, after |-> after,
           reason |-> reason, time |-> t, messages |-> {}]
  BY <1>1, <1>3
<1> QED
  BY <1>2, <1>4, Zenon DEF d, after

\* A proposal with a valid new state for which the reason fits is sound.
LEMMA SoundProposal ==
  ASSUME NEW d, NEW r, NEW t, NEW s \in Snapshots \cup {None},
         Decidable(r, t), IsDecision(d),
         d.status = "Proposed", d.before = r, d.time = t,
         d.after \in Runtimes, d.after.sequence = r.sequence + 1,
         ShapeValid(d.after), TimeValid(d.after, t), Tracking(d.after),
         Fitting(d.reason, r.state, d.after.state, s)
  PROVE  Sound(d, r, s, t)
<1>1. MatchesSnapshot(d, s)
  <2>1. CASE d.reason = "CriticalFault"
    BY <2>1 DEF MatchesSnapshot
  <2>2. CASE d.reason # "CriticalFault"
    <3>1. s # None => ValidSnapshot(s)
      BY SnapshotsAssumption
    <3> QED
      BY <2>2, <3>1, SnapshotsAssumption DEF MatchesSnapshot, Fitting
  <2> QED
    BY <2>1, <2>2
<1>2. Applicable(r, d, s)
  BY <1>1 DEF Applicable, Fitting, Decidable
<1>3. Sensible(d, r, t)
  BY DEF Sensible, Fitting
<1> QED
  BY <1>2, <1>3 DEF Sound

LEMMA SoundEntry ==
  ASSUME NEW d, NEW r, NEW t, NEW s \in Snapshots \cup {None},
         Decidable(r, t), NEW next \in States, NEW reason,
         Enters(d, r, next, reason, t),
         next \in TargetReachStates => r.state \in TargetReachStates,
         next # "QualifyingTarget", Fitting(reason, r.state, next, s)
  PROVE  Sound(d, r, s, t)
<1>1. ShapeValid(d.after) /\ TimeValid(d.after, t)
  BY EntersValid
<1>2. /\ IsDecision(d)
      /\ d.status = "Proposed" /\ d.before = r /\ d.time = t
      /\ d.after \in Runtimes /\ d.after.sequence = r.sequence + 1
      /\ d.reason = reason /\ d.after.state = next /\ Tracking(d.after)
  BY DEF Enters, Tracking
<1> QED
  BY <1>1, <1>2, SoundProposal

LEMMA SoundPropose ==
  ASSUME NEW r, NEW t, NEW s \in Snapshots \cup {None},
         Decidable(r, t), NEW next \in States, NEW reason,
         next \in TargetReachStates => r.state \in TargetReachStates,
         next # "QualifyingTarget", Fitting(reason, r.state, next, s)
  PROVE  Sound(Propose(r, next, reason, t), r, s, t)
<1>1. Enters(Propose(r, next, reason, t), r, next, reason, t)
  BY ProposeEffect DEF Decidable
<1> QED
  BY <1>1, SoundEntry

\* A message changes nothing about a decision.
LEMMA SayingEffect ==
  ASSUME NEW d, NEW message, IsDecision(d)
  PROVE  LET e == Saying(d, message)
         IN  /\ IsDecision(e)
             /\ e.status = d.status /\ e.before = d.before
             /\ e.after = d.after /\ e.reason = d.reason
             /\ e.time = d.time
BY DEF Saying, IsDecision

LEMMA SoundSaying ==
  ASSUME NEW d, NEW message, NEW r, NEW s, NEW t, Sound(d, r, s, t)
  PROVE  Sound(Saying(d, message), r, s, t)
<1> DEFINE e == Saying(d, message)
<1>1. IsDecision(d)
  BY DEF Sound
<1>2. /\ IsDecision(e)
      /\ e.status = d.status /\ e.before = d.before
      /\ e.after = d.after /\ e.reason = d.reason
      /\ e.time = d.time
  BY <1>1, SayingEffect
<1> HIDE DEF e
<1>3. Sound(e, r, s, t)
  BY <1>2 DEF Sound, Sensible, Applicable, MatchesSnapshot
<1> QED
  BY <1>3 DEF e

\* The state a decision leads to may get other data, as long as it is valid.
LEMMA SoundChange ==
  ASSUME NEW base, NEW after \in Runtimes, NEW r, NEW s, NEW t,
         Sound(base, r, s, t),
         after.state = base.after.state,
         after.sequence = base.after.sequence,
         ShapeValid(after), TimeValid(after, t), Tracking(after)
  PROVE  Sound([base EXCEPT !.after = after], r, s, t)
<1> DEFINE e == [base EXCEPT !.after = after]
<1>1. IsDecision(base)
  BY DEF Sound
<1>2. e = [status |-> base.status, before |-> base.before, after |-> after,
           reason |-> base.reason, time |-> base.time,
           messages |-> base.messages]
  BY <1>1 DEF IsDecision
<1> HIDE DEF e
<1>3. /\ IsDecision(e)
      /\ e.status = base.status /\ e.before = base.before
      /\ e.after = after /\ e.reason = base.reason /\ e.time = base.time
  BY <1>2 DEF IsDecision
<1>4. Sound(e, r, s, t)
  BY <1>3 DEF Sound, Sensible, Applicable, MatchesSnapshot
<1> QED
  BY <1>4 DEF e

\* Preheating begins to qualify or starts anew.
LEMMA SoundTracking ==
  ASSUME NEW r, NEW t, NEW s \in Snapshots \cup {None}, NEW reason,
         Decidable(r, t), NEW since \in {None, t}, r.state = "Preheating",
         Fitting(reason, "Preheating", "Preheating", s)
  PROVE  Sound([UpdatePhaseData(r, reason, t)
                  EXCEPT !.after.qualifyingSince = since], r, s, t)
<1> DEFINE counted == [r EXCEPT !.sequence = @ + 1]
           after == [counted EXCEPT !.qualifyingSince = since]
           d == [status |-> "Proposed", before |-> r, after |-> after,
                 reason |-> reason, time |-> t, messages |-> {}]
<1>1. r \in Runtimes /\ t \in Nat /\ r.sequence # SequenceMax
  BY DEF Decidable
<1>2. /\ UpdatePhaseData(r, reason, t) =
           [status |-> "Proposed", before |-> r, after |-> counted,
            reason |-> reason, time |-> t, messages |-> {}]
      /\ counted \in Runtimes
  BY <1>1, UpdateEffect, Zenon
<1>3. /\ counted.state = r.state /\ counted.sequence = r.sequence + 1
      /\ counted.enteredAt = r.enteredAt
      /\ counted.reachStartedAt = r.reachStartedAt
      /\ counted.warned = r.warned
  BY <1>1 DEF Runtimes
<1> HIDE DEF counted
<1>4. [UpdatePhaseData(r, reason, t) EXCEPT !.after.qualifyingSince = since]
        = d
  BY <1>2
<1>5. after \in Runtimes
  BY <1>1, <1>2 DEF Runtimes
<1>6. /\ after.state = "Preheating" /\ after.sequence = r.sequence + 1
      /\ after.qualifyingSince = since
      /\ after.enteredAt = r.enteredAt
      /\ after.reachStartedAt = r.reachStartedAt /\ after.warned = r.warned
  BY <1>2, <1>3 DEF Runtimes
<1> HIDE DEF after
<1>7. /\ d.status = "Proposed" /\ d.before = r /\ d.time = t
      /\ d.after = after /\ d.reason = reason /\ IsDecision(d)
  BY DEF IsDecision
<1> HIDE DEF d
<1>8. ShapeValid(after)
  BY <1>6 DEF ShapeValid, Decidable, QualificationStates
<1>9. TimeValid(after, t)
  BY <1>1, <1>6 DEF TimeValid, Decidable
<1>10. Tracking(after)
  BY <1>6 DEF Tracking
<1>11. Sound(d, r, s, t)
  BY <1>5, <1>6, <1>7, <1>8, <1>9, <1>10, SoundProposal
<1> QED
  BY <1>4, <1>11

\* decideQualification() decides nothing that would be refused.
LEMMA SoundQualification ==
  ASSUME NEW r, NEW t, NEW s \in Snapshots, NEW signals,
         Decidable(r, t), r.state \in QualificationStates,
         StateMatchesSnapshot(r.state, s),
         DecideQualification(r, s, signals, t).status = "Proposed"
  PROVE  Sound(DecideQualification(r, s, signals, t), r, s, t)
<1> DEFINE d == DecideQualification(r, s, signals, t)
           interrupted == signals.progress \notin PositiveEvidence
           complete == signals.progress = "Complete"
           held == IF s.kind = "ManualHolding" THEN "ManualHolding"
                   ELSE "Fermenting"
<1>1. Result("NoTransition", r, t).status # "Proposed"
  BY DEF Result
<1>2. CASE r.state = "Preheating"
  <2>1. /\ Fitting("QualificationReset", "Preheating", "Preheating", s)
        /\ Fitting("QualificationTrackingStarted", "Preheating", "Preheating",
                   s)
        /\ Fitting("PreheatQualified", "Preheating", "WaitingForProduct", s)
    BY <1>2 DEF Fitting, Topology, RecoveryReasons, TargetFor, RunStates,
                StateMatchesSnapshot
  <2>2. Sound([UpdatePhaseData(r, "QualificationReset", t)
                 EXCEPT !.after.qualifyingSince = None], r, s, t)
    BY <1>2, <2>1, SoundTracking
  <2>3. Sound([UpdatePhaseData(r, "QualificationTrackingStarted", t)
                 EXCEPT !.after.qualifyingSince = t], r, s, t)
    BY <1>2, <2>1, SoundTracking
  <2>4. Sound(Saying(Propose(r, "WaitingForProduct", "PreheatQualified", t),
                     "ProductInsertionRequested"), r, s, t)
    BY <1>2, <2>1, SoundPropose, SoundSaying
       DEF States, RunStates, TargetReachStates
  <2> QED
    BY <1>1, <1>2, <2>2, <2>3, <2>4 DEF DecideQualification
<1>3. CASE r.state = "QualifyingTarget"
  <2>1. Fitting("QualificationReset", "QualifyingTarget", "ReachingTarget", s)
    BY <1>3 DEF Fitting, Topology, RecoveryReasons, TargetFor, RunStates,
                StateMatchesSnapshot
  <2>2. Fitting("TargetQualified", "QualifyingTarget", held, s)
    BY <1>3, SnapshotsAssumption
       DEF Fitting, Topology, RecoveryReasons, TargetFor, RunStates,
           StateMatchesSnapshot, RunSnapshots
  <2>3. Sound(Propose(r, "ReachingTarget", "QualificationReset", t), r, s, t)
    BY <1>3, <2>1, SoundPropose DEF States, RunStates, TargetReachStates
  <2>4. Sound(Propose(r, held, "TargetQualified", t), r, s, t)
    BY <1>3, <2>2, SoundPropose DEF States, RunStates, TargetReachStates
  <2>5. r.qualifyingSince # None
    BY <1>3 DEF Decidable, Tracking
  <2> QED
    BY <1>1, <1>3, <2>3, <2>4, <2>5 DEF DecideQualification
<1> QED
  BY <1>2, <1>3 DEF QualificationStates

\* decideReachingTarget()
LEMMA SoundReachingTarget ==
  ASSUME NEW r, NEW t, NEW s \in Snapshots, NEW signals,
         Decidable(r, t), r.state = "ReachingTarget",
         DecideReachingTarget(r, signals, t).status = "Proposed"
  PROVE  Sound(DecideReachingTarget(r, signals, t), r, s, t)
<1> DEFINE base == Propose(r, "QualifyingTarget",
                           "QualificationTrackingStarted", t)
           after == [base.after EXCEPT !.qualifyingSince = t]
           d == [status |-> base.status, before |-> base.before,
                 after |-> after, reason |-> base.reason, time |-> base.time,
                 messages |-> base.messages]
<1>1. r \in Runtimes /\ t \in Nat /\ r.sequence # SequenceMax
  BY DEF Decidable
<1>2. Enters(base, r, "QualifyingTarget", "QualificationTrackingStarted", t)
  BY <1>1, ProposeEffect DEF States, RunStates
<1>3. Result("NoTransition", r, t).status # "Proposed"
  BY DEF Result
<1>4. DecideReachingTarget(r, signals, t) =
        [base EXCEPT !.after.qualifyingSince = t]
  BY <1>3, Zenon DEF DecideReachingTarget
<1> HIDE DEF base
<1>5. IsDecision(base) /\ base.after \in Runtimes
  BY <1>2 DEF Enters
<1>6. DecideReachingTarget(r, signals, t) = d
  BY <1>4, <1>5 DEF IsDecision
<1>7. after \in Runtimes
  BY <1>1, <1>5 DEF Runtimes
<1>8. /\ after.state = "QualifyingTarget" /\ after.sequence = r.sequence + 1
      /\ after.enteredAt = t /\ after.qualifyingSince = t
      /\ after.reachStartedAt = r.reachStartedAt
  BY <1>2, <1>5 DEF Runtimes, Enters, TargetReachStates
<1> HIDE DEF after
<1>9. /\ d.status = "Proposed" /\ d.before = r /\ d.time = t
      /\ d.after = after /\ d.reason = "QualificationTrackingStarted"
      /\ IsDecision(d)
  BY <1>2 DEF IsDecision, Enters
<1> HIDE DEF d
<1>10. ShapeValid(after) /\ Tracking(after)
  BY <1>1, <1>8, SnapshotsAssumption
     DEF ShapeValid, Tracking, QualificationStates, TargetReachStates
<1>11. TimeValid(after, t)
  BY <1>1, <1>8 DEF TimeValid, Decidable, TargetReachStates
<1>12. Fitting("QualificationTrackingStarted", "ReachingTarget",
               "QualifyingTarget", s)
  BY DEF Fitting, Topology, RecoveryReasons, TargetFor, StateMatchesSnapshot
<1>13. Sound(d, r, s, t)
  BY <1>7, <1>8, <1>9, <1>10, <1>11, <1>12, SoundProposal
<1> QED
  BY <1>6, <1>13

\* includeTargetReachWarning() spoils no decision, and its own one is sound.
LEMMA SoundWarning ==
  ASSUME NEW r, NEW t, NEW s \in Snapshots, NEW d,
         Decidable(r, t), r.state \in TargetReachStates,
         d.status = "Proposed" => Sound(d, r, s, t),
         WithWarning(d, r, s, t).status = "Proposed"
  PROVE  Sound(WithWarning(d, r, s, t), r, s, t)
<1> DEFINE base == IF d.status = "Proposed" THEN d
                   ELSE UpdatePhaseData(r, "TargetReachTimeExceeded", t)
           warned == base.after.state \in TargetReachStates
           after == [base.after EXCEPT !.warned = warned]
           e == [base EXCEPT !.after = after]
<1>1. r \in Runtimes /\ t \in Nat /\ r.sequence # SequenceMax
  BY DEF Decidable
<1>2. Sound(base, r, s, t)
  <2>1. CASE d.status = "Proposed"
    BY <2>1
  <2>2. CASE d.status # "Proposed"
    <3> DEFINE u == UpdatePhaseData(r, "TargetReachTimeExceeded", t)
               counted == [r EXCEPT !.sequence = @ + 1]
    <3>1. /\ u = [status |-> "Proposed", before |-> r, after |-> counted,
                  reason |-> "TargetReachTimeExceeded", time |-> t,
                  messages |-> {}]
          /\ counted \in Runtimes
      BY <1>1, UpdateEffect, Zenon
    <3>2. /\ counted.state = r.state /\ counted.sequence = r.sequence + 1
          /\ counted.enteredAt = r.enteredAt
          /\ counted.reachStartedAt = r.reachStartedAt
          /\ counted.warned = r.warned
          /\ counted.qualifyingSince = r.qualifyingSince
      BY <1>1 DEF Runtimes
    <3> HIDE DEF counted, u
    <3>3. /\ u.status = "Proposed" /\ u.before = r /\ u.time = t
          /\ u.after = counted /\ u.reason = "TargetReachTimeExceeded"
          /\ IsDecision(u)
      BY <3>1 DEF IsDecision
    <3>4. /\ ShapeValid(counted) /\ TimeValid(counted, t)
          /\ Tracking(counted)
      BY <3>2, Zenon DEF ShapeValid, TimeValid, Tracking, Decidable
    <3>5. Fitting("TargetReachTimeExceeded", r.state, r.state, s)
      BY DEF Fitting, Topology, RecoveryReasons, TargetFor,
             StateMatchesSnapshot, TargetReachStates
    <3>6. Sound(u, r, s, t)
      BY <3>1, <3>2, <3>3, <3>4, <3>5, SoundProposal
    <3> QED
      BY <2>2, <3>6 DEF u
  <2> QED
    BY <2>1, <2>2
<1> HIDE DEF base
<1>3. IsDecision(base) /\ base.after \in Runtimes
  BY <1>2 DEF Sound, Sensible
<1>4. warned \in BOOLEAN /\ (warned <=> base.after.state \in TargetReachStates)
  OBVIOUS
<1>5. e = [base EXCEPT !.after.warned = warned]
  BY <1>3 DEF IsDecision
<1> HIDE DEF warned
<1>6. after \in Runtimes
  BY <1>3, <1>4 DEF Runtimes
<1>7. /\ after.state = base.after.state
      /\ after.sequence = base.after.sequence
      /\ after.enteredAt = base.after.enteredAt
      /\ after.reachStartedAt = base.after.reachStartedAt
      /\ after.qualifyingSince = base.after.qualifyingSince
  BY <1>3 DEF Runtimes
<1>8. after.warned = warned
  BY <1>3 DEF Runtimes
<1> HIDE DEF after
<1>9. /\ ShapeValid(base.after) /\ TimeValid(base.after, t)
      /\ Tracking(base.after)
  BY <1>2 DEF Sound, Sensible, Applicable
<1>10. TimeValid(after, t) /\ Tracking(after)
  BY <1>7, <1>9, Zenon DEF TimeValid, Tracking
<1>11. ShapeValid(after)
  BY <1>4, <1>7, <1>8, <1>9, Zenon DEF ShapeValid
<1>12. Sound(e, r, s, t)
  BY <1>2, <1>6, <1>7, <1>10, <1>11, SoundChange
<1>13. Sound(Saying(e, "TargetReachTimeExceeded"), r, s, t)
  BY <1>12, SoundSaying
<1>14. CASE WarningDue(r, s, t)
  BY <1>5, <1>13, <1>14, Zenon DEF WithWarning, base, warned
<1>15. CASE ~WarningDue(r, s, t)
  BY <1>15, Zenon DEF WithWarning
<1> QED
  BY <1>14, <1>15

\* A fermentation that completes was due.
Due(d, r, s, t, priorTime) ==
  d.reason = "FermentationCompleted" =>
    Elapsed(t, r.enteredAt, s.fermentation, priorTime)

LEMMA ReasonOfSaying ==
  ASSUME NEW r \in Runtimes, NEW t \in Nat, NEW next \in States, NEW reason,
         NEW message, r.sequence # SequenceMax
  PROVE  /\ Propose(r, next, reason, t).reason = reason
         /\ Saying(Propose(r, next, reason, t), message).reason = reason
<1>1. Enters(Propose(r, next, reason, t), r, next, reason, t)
  BY ProposeEffect
<1> QED
  BY <1>1, SayingEffect DEF Enters

\* completeTimedRun()
LEMMA SoundCompletion ==
  ASSUME NEW r, NEW t, NEW s \in Snapshots, Decidable(r, t),
         r.state = "Fermenting", StateMatchesSnapshot(r.state, s)
  PROVE  /\ Sound(CompleteTimedRun(r, s, t), r, s, t)
         /\ CompleteTimedRun(r, s, t).reason = "FermentationCompleted"
<1>1. r \in Runtimes /\ t \in Nat /\ r.sequence # SequenceMax
  BY DEF Decidable
<1>2. s.kind = "Timed"
  BY DEF StateMatchesSnapshot
<1>3. CASE s.mode = "FinishWithoutCooling"
  <2>1. Fitting("FermentationCompleted", "Fermenting", "Completed", s)
    BY <1>2, <1>3 DEF Fitting, Topology, RecoveryReasons, TargetFor,
                      StateMatchesSnapshot, RunStates
  <2>2. Sound(Saying(Propose(r, "Completed", "FermentationCompleted", t),
                     "RunCompleted"), r, s, t)
    BY <2>1, SoundPropose, SoundSaying
       DEF States, IdleStates, TargetReachStates
  <2>3. Saying(Propose(r, "Completed", "FermentationCompleted", t),
               "RunCompleted").reason = "FermentationCompleted"
    BY <1>1, ReasonOfSaying DEF States, IdleStates
  <2> QED
    BY <1>3, <2>2, <2>3, Zenon DEF CompleteTimedRun
<1>4. CASE s.mode # "FinishWithoutCooling"
  <2>1. Fitting("FermentationCompleted", "Fermenting", "Cooling", s)
    BY <1>2, <1>4 DEF Fitting, Topology, RecoveryReasons, TargetFor,
                      StateMatchesSnapshot, RunStates
  <2>2. Sound(Propose(r, "Cooling", "FermentationCompleted", t), r, s, t)
    BY <2>1, SoundPropose DEF States, RunStates, TargetReachStates
  <2>3. Propose(r, "Cooling", "FermentationCompleted", t).reason =
          "FermentationCompleted"
    <3>1. Enters(Propose(r, "Cooling", "FermentationCompleted", t), r,
                 "Cooling", "FermentationCompleted", t)
      BY <1>1, ProposeEffect DEF States, RunStates
    <3> QED
      BY <3>1, Zenon DEF Enters
  <2> QED
    BY <1>4, <2>2, <2>3, Zenon DEF CompleteTimedRun
<1> QED
  BY <1>3, <1>4

SoundAs(d, r, s, t, reason, next) ==
  Sound(d, r, s, t) /\ d.reason = reason /\ d.after.state = next

\* The end of a phase, proposed without and with a message
LEMMA SoundExit ==
  ASSUME NEW r, NEW t, NEW s \in Snapshots \cup {None}, Decidable(r, t),
         NEW next \in States, NEW reason,
         next \notin TargetReachStates, Fitting(reason, r.state, next, s)
  PROVE  SoundAs(Propose(r, next, reason, t), r, s, t, reason, next)
<1>1. Sound(Propose(r, next, reason, t), r, s, t)
  BY SoundPropose DEF TargetReachStates
<1>2. Enters(Propose(r, next, reason, t), r, next, reason, t)
  BY ProposeEffect DEF Decidable
<1> QED
  BY <1>1, <1>2 DEF SoundAs, Enters

LEMMA SoundEnd ==
  ASSUME NEW r, NEW t, NEW s \in Snapshots \cup {None}, Decidable(r, t),
         NEW next \in States, NEW reason, NEW message,
         next \notin TargetReachStates, Fitting(reason, r.state, next, s)
  PROVE  SoundAs(Saying(Propose(r, next, reason, t), message),
                 r, s, t, reason, next)
<1> DEFINE base == Propose(r, next, reason, t)
<1>4. Sound(base, r, s, t)
  BY SoundPropose DEF TargetReachStates
<1>5. Enters(base, r, next, reason, t)
  BY ProposeEffect DEF Decidable
<1> HIDE DEF base
<1>1. /\ Sound(base, r, s, t) /\ base.reason = reason
      /\ base.after.state = next
  BY <1>4, <1>5 DEF Enters
<1>2. Sound(Saying(base, message), r, s, t)
  BY <1>1, SoundSaying
<1>3. /\ Saying(base, message).reason = reason
      /\ Saying(base, message).after.state = next
  BY <1>1, SayingEffect DEF Sound
<1> QED
  BY <1>2, <1>3 DEF SoundAs, base

\* decideAutomatic()
LEMMA SoundAutomatic ==
  ASSUME NEW r, NEW t, NEW s \in Snapshots, NEW signals, NEW priorTime,
         Decidable(r, t),
         r.state \in RunStates => StateMatchesSnapshot(r.state, s),
         DecideAutomatic(r, s, signals, t, priorTime).status = "Proposed"
  PROVE  LET d == DecideAutomatic(r, s, signals, t, priorTime)
         IN  Sound(d, r, s, t) /\ Due(d, r, s, t, priorTime)
<1> DEFINE d == DecideAutomatic(r, s, signals, t, priorTime)
<1>1. Result("NoTransition", r, t).status # "Proposed"
  BY DEF Result
<1>2. CASE r.state = "Preheating"
  <2>1. d = DecideQualification(r, s, signals, t)
    BY <1>2 DEF DecideAutomatic, WaitExpired
  <2>2. Sound(d, r, s, t)
    BY <1>2, <2>1, SoundQualification DEF QualificationStates, RunStates
  <2> QED
    BY <1>2, <2>2 DEF Due, Sound, Sensible
<1>3. CASE r.state = "ReachingTarget"
  <2>1. d = WithWarning(DecideReachingTarget(r, signals, t), r, s, t)
    BY <1>3 DEF DecideAutomatic, WaitExpired
  <2>2. Sound(d, r, s, t)
    BY <1>3, <2>1, SoundReachingTarget, SoundWarning DEF TargetReachStates
  <2> QED
    BY <1>3, <2>2 DEF Due, Sound, Sensible
<1>4. CASE r.state = "QualifyingTarget"
  <2>1. d = WithWarning(DecideQualification(r, s, signals, t), r, s, t)
    BY <1>4 DEF DecideAutomatic, WaitExpired
  <2>2. Sound(d, r, s, t)
    BY <1>4, <2>1, SoundQualification, SoundWarning
       DEF TargetReachStates, QualificationStates, RunStates
  <2> QED
    BY <1>4, <2>2 DEF Due, Sound, Sensible
<1>5. CASE WaitExpired(r, s, t, priorTime)
  <2>1. r.state = "WaitingForProduct"
    BY <1>5, Zenon DEF WaitExpired
  <2>2. d = Saying(Propose(r, "Standby", "ProductWaitExpired", t),
                   "RunAborted")
    BY <1>5, <2>1 DEF DecideAutomatic
  <2>3. Fitting("ProductWaitExpired", "WaitingForProduct", "Standby", s)
    BY <2>1 DEF Fitting, Topology, RecoveryReasons, TargetFor, RunStates,
                StateMatchesSnapshot
  <2>4. Sound(d, r, s, t) /\ d.reason = "ProductWaitExpired"
    BY <2>1, <2>2, <2>3, SoundEnd
       DEF SoundAs, States, IdleStates, TargetReachStates
  <2> QED
    BY <2>4 DEF Due
<1>6. CASE r.state = "Fermenting"
  <2>1. Elapsed(t, r.enteredAt, s.fermentation, priorTime)
    BY <1>1, <1>6 DEF DecideAutomatic, WaitExpired
  <2>2. d = CompleteTimedRun(r, s, t)
    BY <1>6, <2>1 DEF DecideAutomatic, WaitExpired
  <2> QED
    BY <1>6, <2>1, <2>2, SoundCompletion DEF Due, RunStates
<1>7. CASE r.state = "Cooling"
  <2>1. s.kind = "Timed" /\ s.mode # "FinishWithoutCooling"
    BY <1>7 DEF StateMatchesSnapshot, RunStates
  <2>2. CASE s.mode = "CoolThenFinish"
    <3>1. d = Saying(Propose(r, "Completed", "CoolingTargetReached", t),
                     "RunCompleted")
      BY <1>1, <1>7, <2>2 DEF DecideAutomatic, WaitExpired
    <3>2. Fitting("CoolingTargetReached", "Cooling", "Completed", s)
      BY <2>1, <2>2 DEF Fitting, Topology, RecoveryReasons, TargetFor,
                        RunStates, StateMatchesSnapshot
    <3>3. Sound(d, r, s, t) /\ d.reason = "CoolingTargetReached"
      BY <1>7, <3>1, <3>2, SoundEnd
       DEF SoundAs, States, IdleStates, TargetReachStates
    <3> QED
      BY <3>3 DEF Due
  <2>3. CASE s.mode # "CoolThenFinish"
    <3>1. d = Propose(r, "CoolHolding", "CoolingTargetReached", t)
      BY <1>1, <1>7, <2>3 DEF DecideAutomatic, WaitExpired
    <3>2. Fitting("CoolingTargetReached", "Cooling", "CoolHolding", s)
      BY <2>1, <2>3, SnapshotsAssumption
         DEF Fitting, Topology, RecoveryReasons, TargetFor, RunStates,
             StateMatchesSnapshot, RunSnapshots, Modes
    <3>3. Sound(d, r, s, t) /\ d.reason = "CoolingTargetReached"
      BY <1>7, <3>1, <3>2, SoundExit
         DEF SoundAs, States, RunStates, TargetReachStates
    <3> QED
      BY <3>3 DEF Due
  <2> QED
    BY <2>2, <2>3
<1>8. CASE r.state = "CoolHolding"
  <2>1. /\ s.mode = "CoolAndHoldForDuration"
        /\ d = Saying(Propose(r, "Completed", "HoldDurationCompleted", t),
                      "RunCompleted")
    BY <1>1, <1>8 DEF DecideAutomatic, WaitExpired
  <2>2. s.kind = "Timed"
    BY <1>8 DEF StateMatchesSnapshot, RunStates
  <2>3. Fitting("HoldDurationCompleted", "CoolHolding", "Completed", s)
    BY <2>1, <2>2 DEF Fitting, Topology, RecoveryReasons, TargetFor,
                      RunStates, StateMatchesSnapshot
  <2>4. Sound(d, r, s, t) /\ d.reason = "HoldDurationCompleted"
    BY <1>8, <2>1, <2>3, SoundEnd
       DEF SoundAs, States, IdleStates, TargetReachStates
  <2> QED
    BY <2>4 DEF Due
<1>9. CASE r.state \notin {"Preheating", "ReachingTarget", "QualifyingTarget",
                           "Fermenting", "Cooling", "CoolHolding"}
           /\ ~WaitExpired(r, s, t, priorTime)
  BY <1>1, <1>9 DEF DecideAutomatic
<1> QED
  BY <1>2, <1>3, <1>4, <1>5, <1>6, <1>7, <1>8, <1>9, Zenon

\* initializeTargetReach() after propose()
LEMMA SoundStart ==
  ASSUME NEW r, NEW t, NEW s \in Snapshots \cup {None}, Decidable(r, t),
         NEW next \in States, NEW reason,
         next # "QualifyingTarget", Fitting(reason, r.state, next, s)
  PROVE  SoundAs(InitializeTargetReach(Propose(r, next, reason, t)),
                 r, s, t, reason, next)
<1> DEFINE base == Propose(r, next, reason, t)
           e == InitializeTargetReach(base)
<1>1. r \in Runtimes /\ t \in Nat /\ r.sequence # SequenceMax
  BY DEF Decidable
<1>2. Enters(base, r, next, reason, t)
  BY <1>1, ProposeEffect
<1>3. CASE next \in TargetReachStates
  <2> DEFINE after == [base.after EXCEPT !.reachStartedAt = t,
                                         !.warned = FALSE]
             d == [status |-> base.status, before |-> base.before,
                   after |-> after, reason |-> base.reason,
                   time |-> base.time, messages |-> base.messages]
  <2> HIDE DEF base
  <2>1. /\ IsDecision(base) /\ base.after \in Runtimes /\ base.time = t
        /\ base.status = "Proposed" /\ base.after.state = next
    BY <1>2 DEF Enters
  <2>2. e = [base EXCEPT !.after.reachStartedAt = t, !.after.warned = FALSE]
    BY <1>3, <2>1 DEF InitializeTargetReach
  <2>3. e = d
    BY <2>1, <2>2 DEF IsDecision
  <2>4. after \in Runtimes
    BY <1>1, <2>1 DEF Runtimes
  <2>5. /\ after.state = next /\ after.sequence = r.sequence + 1
        /\ after.enteredAt = t /\ after.qualifyingSince = None
        /\ after.reachStartedAt = t
    BY <1>2, <2>1 DEF Runtimes, Enters
  <2> HIDE DEF after, e
  <2>6. /\ d.status = "Proposed" /\ d.before = r /\ d.time = t
        /\ d.after = after /\ d.reason = reason /\ IsDecision(d)
    BY <1>2 DEF IsDecision, Enters
  <2> HIDE DEF d
  <2>7. ShapeValid(after) /\ Tracking(after)
    BY <1>3, <2>5 DEF ShapeValid, Tracking
  <2>8. TimeValid(after, t)
    BY <1>1, <2>5 DEF TimeValid
  <2>9. Sound(d, r, s, t)
    BY <2>4, <2>5, <2>6, <2>7, <2>8, SoundProposal
  <2> QED
    BY <2>3, <2>5, <2>6, <2>9 DEF SoundAs, e, base
<1>4. CASE next \notin TargetReachStates
  <2>1. Sound(base, r, s, t)
    BY <1>4, SoundPropose DEF TargetReachStates
  <2> HIDE DEF base
  <2>2. base.after.state = next /\ base.reason = reason
    BY <1>2 DEF Enters
  <2>3. e = base
    BY <1>4, <2>2, Zenon DEF InitializeTargetReach
  <2> QED
    BY <2>1, <2>2, <2>3 DEF SoundAs, base
<1> QED
  BY <1>3, <1>4

\* The table of explicit events and the topology agree.
EventReasons ==
  {"BootCompleted", "SafeBootRequired", "CompletedRunRestored",
   "RecoveryRequired", "ServiceModeEntered", "ServiceModeExited",
   "TargetChangedReevaluation", "ProductInserted", "HoldFinishedByUser",
   "CompletionAcknowledged", "RecoveryRejected", "RunAborted", "RunStarted"}

LEMMA EventRows ==
  ASSUME NEW row \in EventTable
  PROVE  /\ row[3] \in States /\ row[3] # "QualifyingTarget"
         /\ row[4] \in EventReasons
         /\ <<row[4], row[1], row[3]>> \in Topology
         /\ row[3] \in RunStates =>
              /\ row[1] \in RunStates
              /\ row[3] = "ReachingTarget" \/ row[3] = row[1]
         /\ row[4] \in {"TargetChangedReevaluation", "ProductInserted",
                        "HoldFinishedByUser"}
            <=> row[1] \in RunStates /\ row[4] # "RunAborted"
<1>1. CASE row \in {<<state, "Abort", "Standby", "RunAborted",
                      "RunAborted">> : state \in RunStates}
  BY <1>1 DEF Topology, EventReasons, States, IdleStates, RunStates
<1>2. CASE row \notin {<<state, "Abort", "Standby", "RunAborted",
                         "RunAborted">> : state \in RunStates}
  <2>1. row[3] \in States /\ row[3] # "QualifyingTarget"
    BY <1>2 DEF EventTable, States, IdleStates, RunStates
  <2>2. row[4] \in EventReasons
    BY <1>2 DEF EventTable, EventReasons
  <2>3. <<row[4], row[1], row[3]>> \in Topology
    BY <1>2 DEF EventTable, Topology
  <2>4. row[3] \in RunStates =>
          /\ row[1] \in RunStates
          /\ row[3] = "ReachingTarget" \/ row[3] = row[1]
    BY <1>2 DEF EventTable, RunStates
  <2>5. row[4] \in {"TargetChangedReevaluation", "ProductInserted",
                    "HoldFinishedByUser"}
            <=> row[1] \in RunStates /\ row[4] # "RunAborted"
    BY <1>2 DEF EventTable, RunStates
  <2> QED
    BY <2>1, <2>2, <2>3, <2>4, <2>5
<1> QED
  BY <1>1, <1>2

\* decideExplicitEvent(), for every event but the resumption of a run
LEMMA SoundExplicit ==
  ASSUME NEW r, NEW t, NEW s \in Snapshots \cup {None}, NEW event,
         NEW recovered, NEW priorTime, Decidable(r, t),
         r.state \in RunStates =>
           s \in Snapshots /\ StateMatchesSnapshot(r.state, s),
         event # "RecoveryResume",
         DecideExplicitEvent(r, s, event, recovered, t, priorTime).status
           = "Proposed"
  PROVE  LET d == DecideExplicitEvent(r, s, event, recovered, t, priorTime)
         IN  Sound(d, r, s, t) /\ d.reason \in EventReasons
<1> DEFINE d == DecideExplicitEvent(r, s, event, recovered, t, priorTime)
           rows == {row \in EventTable : row[1] = r.state /\ row[2] = event}
<1>1. CASE rows # {}
  <2> DEFINE row == CHOOSE x \in rows : TRUE
             base == InitializeTargetReach(Propose(r, row[3], row[4], t))
  <2>1. row \in rows
    BY <1>1, Zenon
  <2>2. row \in EventTable /\ row[1] = r.state
    BY <2>1
  <2>3. d = IF row[5] = None THEN base ELSE Saying(base, row[5])
    BY <1>1, Zenon DEF DecideExplicitEvent
  <2> HIDE DEF row, d
  <2>4. /\ row[3] \in States /\ row[3] # "QualifyingTarget"
        /\ row[4] \in EventReasons
        /\ <<row[4], row[1], row[3]>> \in Topology
        /\ row[3] \in RunStates =>
             /\ row[1] \in RunStates
             /\ row[3] = "ReachingTarget" \/ row[3] = row[1]
        /\ row[4] \in {"TargetChangedReevaluation", "ProductInserted",
                       "HoldFinishedByUser"}
            <=> row[1] \in RunStates /\ row[4] # "RunAborted"
    BY <2>2, EventRows
  <2>5. row[4] \notin RecoveryReasons
        /\ row[4] \notin {"FermentationCompleted", "CriticalFault",
                          "HoldDurationCompleted", "TargetQualified",
                          "CoolingTargetReached"}
    BY <2>4 DEF EventReasons, RecoveryReasons
  <2>6. Fitting(row[4], r.state, row[3], s)
    <3>1. <<row[4], r.state, row[3]>> \in Topology
      BY <2>2, <2>4
    <3>2. row[3] \in RunStates => r.state \in RunStates
      BY <2>2, <2>4
    <3> QED
      BY <2>2, <2>4, <2>5, <3>1, <3>2
         DEF Fitting, TargetFor, StateMatchesSnapshot
  <2>10. SoundAs(base, r, s, t, row[4], row[3])
    BY <2>4, <2>6, SoundStart
  <2> HIDE DEF base
  <2>7. Sound(base, r, s, t) /\ base.reason = row[4]
    BY <2>10 DEF SoundAs
  <2>8. /\ Sound(Saying(base, row[5]), r, s, t)
        /\ Saying(base, row[5]).reason = row[4]
    BY <2>7, SoundSaying, SayingEffect DEF Sound
  <2>9. Sound(d, r, s, t) /\ d.reason \in EventReasons
    BY <2>3, <2>4, <2>7, <2>8
  <2> QED
    BY <2>9 DEF d
<1>2. CASE rows = {} /\ r.state = "Standby" /\ event = "StartRun" /\ s # None
  <2> DEFINE next == IF s.preheat THEN "Preheating" ELSE "ReachingTarget"
  <2>1. d = InitializeTargetReach(Propose(r, next, "RunStarted", t))
    BY <1>2, Zenon DEF DecideExplicitEvent
  <2>2. next \in States /\ next # "QualifyingTarget"
    BY DEF States, RunStates
  <2>3. Fitting("RunStarted", r.state, next, s)
    BY <1>2 DEF Fitting, Topology, RecoveryReasons, TargetFor, RunStates,
                StateMatchesSnapshot
  <2> HIDE DEF next, d
  <2>4. SoundAs(d, r, s, t, "RunStarted", next)
    BY <2>1, <2>2, <2>3, SoundStart
  <2> QED
    BY <2>4 DEF d, EventReasons, SoundAs
<1>3. CASE rows = {} /\ ~(r.state = "Standby" /\ event = "StartRun"
                            /\ s # None)
  <2>1. d = Result("Rejected", r, t)
    BY <1>3, Zenon DEF DecideExplicitEvent
  <2>2. d.status # "Proposed"
    BY <2>1 DEF Result
  <2> QED
    BY <2>2
<1> QED
  BY <1>1, <1>2, <1>3, Zenon

\* decideProcessTransition(): whatever is proposed, for any run and any
\* signals, can be applied to the state it is proposed for, and a
\* fermentation that it completes was due.
LEMMA SoundDecision ==
  ASSUME NEW r \in Runtimes, NEW t \in Nat, NEW s \in Snapshots \cup {None},
         NEW signals, NEW event, NEW recovered, NEW priorTime,
         Tracking(r), event = None \/ event # "RecoveryResume",
         Decide(r, s, signals, event, recovered, t, priorTime).status
           = "Proposed"
  PROVE  LET d == Decide(r, s, signals, event, recovered, t, priorTime)
         IN  /\ Sound(d, r, s, t) /\ Due(d, r, s, t, priorTime)
             /\ event # None /\ r.state # "WaitingForProduct" =>
                  d.reason \in EventReasons \cup {"CriticalFault"}
<1> DEFINE d == Decide(r, s, signals, event, recovered, t, priorTime)
           faulted == signals.criticalFault
                        /\ r.state \notin {"SafeBoot", "Fault"}
           unfit == \/ s # None /\ ~ValidSnapshot(s)
                    \/ r.state \in RunStates /\ s = None
                    \/ r.state \in RunStates
                         /\ ~StateMatchesSnapshot(r.state, s)
           automatic == event = None \/ WaitExpired(r, s, t, priorTime)
<1>1. /\ Result("InvalidInput", r, t).status # "Proposed"
      /\ Result("TimeWentBackwards", r, t).status # "Proposed"
      /\ Result("NoTransition", r, t).status # "Proposed"
  BY DEF Result
<1>2. Decidable(r, t)
  BY <1>1, Zenon DEF Decide, Decidable
<1>3. ShapeValid(r) /\ TimeValid(r, t) /\ r.sequence # SequenceMax
  BY <1>2, Zenon DEF Decidable
<1>4. CASE faulted
  <2>1. d = Saying(Propose(r, "Fault", "CriticalFault", t), "FaultEntered")
    BY <1>3, <1>4, Zenon DEF Decide
  <2>2. r.state \in States
    BY DEF Runtimes
  <2>3. Fitting("CriticalFault", r.state, "Fault", s)
    BY <1>4, <2>2 DEF Fitting, Topology, RecoveryReasons
  <2> HIDE DEF d
  <2>4. SoundAs(d, r, s, t, "CriticalFault", "Fault")
    BY <1>2, <2>1, <2>3, SoundEnd DEF States, IdleStates, TargetReachStates
  <2> QED
    BY <2>4 DEF SoundAs, Due, d
<1>5. CASE ~faulted /\ ~unfit /\ automatic
  <2>1. d = DecideAutomatic(r, s, signals, t, priorTime)
    BY <1>3, <1>5, Zenon DEF Decide
  <2>4. event # None /\ r.state # "WaitingForProduct" => FALSE
    BY <1>5, Zenon DEF WaitExpired
  <2>2. CASE s = None
    <3>1. r.state \notin RunStates
      BY <1>5, <2>2
    <3>2. d = Result("NoTransition", r, t)
      BY <2>1, <3>1 DEF DecideAutomatic, WaitExpired, RunStates
    <3> QED
      BY <1>1, <3>2
  <2>3. CASE s # None
    <3>1. s \in Snapshots
      BY <2>3
    <3>2. r.state \in RunStates => StateMatchesSnapshot(r.state, s)
      BY <1>5
    <3>3. Sound(d, r, s, t) /\ Due(d, r, s, t, priorTime)
      BY <1>2, <2>1, <3>1, <3>2, SoundAutomatic
    <3> QED
      BY <2>4, <3>3, Zenon
  <2> QED
    BY <2>2, <2>3
<1>6. CASE ~faulted /\ ~unfit /\ ~automatic
  <2>1. d = DecideExplicitEvent(r, s, event, recovered, t, priorTime)
    BY <1>3, <1>6, Zenon DEF Decide
  <2>2. r.state \in RunStates =>
          s \in Snapshots /\ StateMatchesSnapshot(r.state, s)
    BY <1>6
  <2>4. event # "RecoveryResume"
    BY <1>6
  <2>3. Sound(d, r, s, t) /\ d.reason \in EventReasons
    BY <1>2, <2>1, <2>2, <2>4, SoundExplicit
  <2> QED
    BY <2>3 DEF Due, EventReasons
<1>7. CASE ~faulted /\ unfit
  BY <1>1, <1>3, <1>7, Zenon DEF Decide
<1> QED
  BY <1>4, <1>5, <1>6, <1>7

\* What is not proposed has no reason.
Refuses(d) == d.status # "Proposed" => d.reason = "None"

LEMMA RefusesResult ==
  ASSUME NEW status, NEW r, NEW t
  PROVE  Refuses(Result(status, r, t))
BY DEF Refuses, Result

LEMMA RefusesPropose ==
  ASSUME NEW r \in Runtimes, NEW t \in Nat, NEW next \in States, NEW reason,
         NEW message, r.sequence # SequenceMax
  PROVE  /\ Refuses(Propose(r, next, reason, t))
         /\ Refuses(Saying(Propose(r, next, reason, t), message))
         /\ Refuses(InitializeTargetReach(Propose(r, next, reason, t)))
         /\ Refuses(Saying(InitializeTargetReach(Propose(r, next, reason, t)),
                           message))
<1> DEFINE base == Propose(r, next, reason, t)
           e == InitializeTargetReach(base)
<1>1. Enters(base, r, next, reason, t)
  BY ProposeEffect
<1> HIDE DEF base
<1>2. IsDecision(base) /\ base.status = "Proposed"
  BY <1>1 DEF Enters
<1>3. /\ e.status = "Proposed"
      /\ Saying(base, message).status = "Proposed"
  BY <1>2 DEF InitializeTargetReach, IsDecision, Saying
<1>4. IsDecision(e)
  BY <1>2 DEF InitializeTargetReach, IsDecision
<1> HIDE DEF e
<1>5. Saying(e, message).status = "Proposed"
  BY <1>3, <1>4 DEF IsDecision, Saying
<1>6. /\ Refuses(base) /\ Refuses(Saying(base, message))
      /\ Refuses(e) /\ Refuses(Saying(e, message))
  BY <1>2, <1>3, <1>5 DEF Refuses
<1> QED
  BY <1>6 DEF base, e

\* An explicit event is answered with a proposal or with no reason at all.
LEMMA RefusesCommand ==
  ASSUME NEW r \in Runtimes, NEW t \in Nat, NEW s, NEW event, NEW priorTime,
         event # None, event # "RecoveryResume"
  PROVE  Refuses(Decide(r, s, NoSignals, event, None, t, priorTime))
<1> DEFINE d == Decide(r, s, NoSignals, event, None, t, priorTime)
           unfit == \/ s # None /\ ~ValidSnapshot(s)
                    \/ r.state \in RunStates /\ s = None
                    \/ r.state \in RunStates
                         /\ ~StateMatchesSnapshot(r.state, s)
           valid == ShapeValid(r) /\ TimeValid(r, t)
                      /\ r.sequence # SequenceMax
<1>1. NoSignals.criticalFault = FALSE
  BY DEF NoSignals
<1>2. CASE ~valid \/ unfit
  <2>1. \/ d = Result("InvalidInput", r, t)
        \/ d = Result("TimeWentBackwards", r, t)
    BY <1>1, <1>2, Zenon DEF Decide
  <2> QED
    BY <2>1, RefusesResult
<1>3. CASE valid /\ ~unfit /\ WaitExpired(r, s, t, priorTime)
  <2>1. d = DecideAutomatic(r, s, NoSignals, t, priorTime)
    BY <1>1, <1>3, Zenon DEF Decide
  <2>2. d = Saying(Propose(r, "Standby", "ProductWaitExpired", t),
                   "RunAborted")
    BY <1>3, <2>1 DEF DecideAutomatic, WaitExpired
  <2> HIDE DEF d
  <2>3. Refuses(d)
    BY <1>3, <2>2, RefusesPropose DEF States, IdleStates
  <2> QED
    BY <2>3 DEF d
<1>4. CASE valid /\ ~unfit /\ ~WaitExpired(r, s, t, priorTime)
  <2>1. d = DecideExplicitEvent(r, s, event, None, t, priorTime)
    BY <1>1, <1>4, Zenon DEF Decide
  <2> DEFINE rows == {row \in EventTable : row[1] = r.state /\ row[2] = event}
  <2>2. CASE rows # {}
    <3> DEFINE row == CHOOSE x \in rows : TRUE
               base == InitializeTargetReach(Propose(r, row[3], row[4], t))
    <3>1. row \in rows
      BY <2>2, Zenon
    <3>2. row[3] \in States
      BY <3>1, EventRows
    <3>3. d = IF row[5] = None THEN base ELSE Saying(base, row[5])
      BY <2>1, <2>2, Zenon DEF DecideExplicitEvent
    <3> HIDE DEF row, d
    <3>4. Refuses(base) /\ Refuses(Saying(base, row[5]))
      BY <1>4, <3>2, RefusesPropose
    <3>5. Refuses(d)
      BY <3>3, <3>4
    <3> QED
      BY <3>5 DEF d
  <2>3. CASE rows = {} /\ r.state = "Standby" /\ event = "StartRun"
             /\ s # None
    <3> DEFINE next == IF s.preheat THEN "Preheating" ELSE "ReachingTarget"
    <3>1. d = InitializeTargetReach(Propose(r, next, "RunStarted", t))
      BY <2>1, <2>3, Zenon DEF DecideExplicitEvent
    <3>2. next \in States
      BY DEF States, RunStates
    <3> HIDE DEF next, d
    <3>3. Refuses(d)
      BY <1>4, <3>1, <3>2, RefusesPropose
    <3> QED
      BY <3>3 DEF d
  <2>4. CASE rows = {} /\ ~(r.state = "Standby" /\ event = "StartRun"
                              /\ s # None)
    <3>1. d = Result("Rejected", r, t)
      BY <2>1, <2>4, Zenon DEF DecideExplicitEvent
    <3> QED
      BY <3>1, RefusesResult
  <2> QED
    BY <2>2, <2>3, <2>4, Zenon
<1> QED
  BY <1>2, <1>3, <1>4, Zenon

-----------------------------------------------------------------------------
(* What holds of the state the machine is in *)

\* Facts about the state that every decision is made in
LEMMA DecisionFacts ==
  ASSUME ProcessInv
  PROVE  /\ now \in Nat /\ runtime \in Runtimes /\ Tracking(runtime)
         /\ snapshot \in Snapshots \cup {None}
BY SequenceAssumption DEF ProcessInv, TypeOK, Coherent

\* A sound decision for the state of now applies to it.
LEMMA DecisionsApplyNow ==
  ASSUME ProcessInv
  PROVE  DecisionsApply
<1>1. /\ now \in Nat /\ runtime \in Runtimes /\ Tracking(runtime)
      /\ snapshot \in Snapshots \cup {None}
  BY DecisionFacts
<1>2. ASSUME NEW s \in Snapshots \cup {None}, NEW signals, NEW event,
             NEW priorTime, event = None \/ event # "RecoveryResume",
             Decide(runtime, s, signals, event, None, now, priorTime).status
               = "Proposed"
      PROVE  Applicable(runtime,
                        Decide(runtime, s, signals, event, None, now,
                               priorTime), s)
  BY <1>1, <1>2, SoundDecision DEF Sound
<1>3. ASSUME NEW signals \in Signals,
             Decide(runtime, snapshot, signals, None, None, now,
                    PriorTime(runtime, prior)).status = "Proposed"
      PROVE  Applicable(runtime,
                        Decide(runtime, snapshot, signals, None, None, now,
                               PriorTime(runtime, prior)), snapshot)
  BY <1>1, <1>2, <1>3, Zenon
<1>4. ASSUME NEW event \in Events \ {"StartRun", "RecoveryResume"},
             Decide(runtime, snapshot, NoSignals, event, None, now, 0).status
               = "Proposed"
      PROVE  Applicable(runtime,
                        Decide(runtime, snapshot, NoSignals, event, None, now,
                               0), snapshot)
  BY <1>1, <1>2, <1>4
<1>5. ASSUME NEW s \in Snapshots,
             Decide(runtime, s, NoSignals, "StartRun", None, now, 0).status
               = "Proposed"
      PROVE  Applicable(runtime,
                        Decide(runtime, s, NoSignals, "StartRun", None, now,
                               0), s)
  BY <1>1, <1>2, <1>5
<1> QED
  BY <1>3, <1>4, <1>5, Zenon DEF DecisionsApply

\* A critical fault is decided before anything is asked of the run.
LEMMA FaultDecided ==
  ASSUME ProcessInv, CanFault, NEW s \in Snapshots \cup {None}
  PROVE  /\ FaultDecision(runtime, s, now).after.state = "Fault"
         /\ Applicable(runtime, FaultDecision(runtime, s, now), s)
<1> DEFINE signals == [NoSignals EXCEPT !.criticalFault = TRUE]
           d == FaultDecision(runtime, s, now)
<1>1. /\ now \in Nat /\ runtime \in Runtimes /\ Tracking(runtime)
      /\ snapshot \in Snapshots \cup {None}
  BY DecisionFacts
<1>2. signals.criticalFault = TRUE
  BY DEF NoSignals
<1>3. ShapeValid(runtime) /\ TimeValid(runtime, now)
  BY Zenon DEF ProcessInv, Coherent, CanFault
<1>4. /\ runtime.sequence # SequenceMax
      /\ runtime.state \notin {"SafeBoot", "Fault"}
  BY <1>1, SequenceAssumption DEF CanFault, Runtimes
<1>5. d = Saying(Propose(runtime, "Fault", "CriticalFault", now),
                 "FaultEntered")
  BY <1>2, <1>3, <1>4, Zenon DEF FaultDecision, Decide
<1>6. Decidable(runtime, now)
  BY <1>1, <1>3, <1>4 DEF Decidable
<1>7. Fitting("CriticalFault", runtime.state, "Fault", s)
  BY <1>1, <1>4 DEF Fitting, Topology, RecoveryReasons, Runtimes
<1> HIDE DEF d
<1>8. SoundAs(d, runtime, s, now, "CriticalFault", "Fault")
  BY <1>5, <1>6, <1>7, SoundEnd DEF States, IdleStates, TargetReachStates
<1> QED
  BY <1>8 DEF SoundAs, Sound, d

LEMMA FaultNeverBlockedNow ==
  ASSUME ProcessInv
  PROVE  FaultNeverBlocked
BY FaultDecided, Zenon DEF FaultNeverBlocked

\* Where the topology leads from and to, for the reasons of commands
LEMMA TopologyOfCommands ==
  ASSUME NEW from, NEW to, NEW reason, <<reason, from, to>> \in Topology
  PROVE  /\ reason \in ClearingReasons => to = "Standby"
         /\ reason = "RunStarted" =>
              from = "Standby" /\ to \in {"Preheating", "ReachingTarget"}
         /\ reason = "TargetChangedReevaluation" =>
              /\ from \in {"Preheating", "ReachingTarget", "QualifyingTarget"}
              /\ to \in {"Preheating", "ReachingTarget"}
BY DEF Topology, ClearingReasons

\* A sound command of now leaves a run that the checkpoint accepts: a phase
\* without a time base of its own has no recovery fields.
LEMMA SoundCommandCommits ==
  ASSUME ProcessInv, ~loaded, NEW s \in Snapshots \cup {None}, NEW d,
         Sound(d, runtime, s, now), d.reason \in PersistedReasons
  PROVE  CommandCommits(d, runtime, s, prior, anchor)
<1> DEFINE o == CommandOutcome(d, s, prior, anchor)
<1>1. /\ Applicable(runtime, d, s) /\ d.before = runtime
      /\ d.time = now
      /\ ShapeValid(d.after) /\ TimeValid(d.after, now)
      /\ <<d.reason, runtime.state, d.after.state>> \in Topology
      /\ MatchesSnapshot(d, s)
  BY DEF Sound, Sensible, Applicable
<1>2. Fits(runtime, snapshot, prior, anchor)
      /\ (prior # None => prior.state \in TimedStates)
  BY DEF ProcessInv, Coherent
<1>3. CASE d.reason \in ClearingReasons
  <2>1. o = <<None, None, None>>
    BY <1>3 DEF CommandOutcome
  <2>2. d.after.state = "Standby"
    BY <1>1, <1>3, TopologyOfCommands
  <2>3. Persistable(d.after, None, None, None, now)
    BY <1>1, <2>2 DEF Persistable
  <2> QED
    BY <1>1, <2>1, <2>3 DEF CommandCommits
<1>4. CASE d.reason \in {"RunStarted", "TargetChangedReevaluation"}
  <2>1. /\ runtime.state \in {"Standby", "Preheating", "ReachingTarget",
                              "QualifyingTarget"}
        /\ d.after.state \in {"Preheating", "ReachingTarget"}
    BY <1>1, <1>4, TopologyOfCommands
  <2>2. prior = None /\ anchor = None
    <3>1. CASE snapshot = None
      BY <1>2, <3>1 DEF Fits
    <3>2. CASE snapshot # None
      BY <1>2, <2>1, <3>2 DEF Fits, ValidAnchor, ValidPrior, TimedStates
    <3> QED
      BY <3>1, <3>2
  <2>3. s # None /\ StateMatchesSnapshot(d.after.state, s)
    <3>1. d.after.state \in {d.before.state, d.after.state} \cap RunStates
      BY <2>1 DEF RunStates
    <3>2. d.reason # "CriticalFault"
      BY <1>4
    <3> QED
      BY <1>1, <3>1, <3>2, Zenon DEF MatchesSnapshot
  <2>4. o = <<s, None, None>>
    BY <1>4, <2>2 DEF CommandOutcome, ClearingReasons
  <2>5. Persistable(d.after, s, None, None, now)
    BY <1>1, <2>1, <2>3
       DEF Persistable, ValidAnchor, ValidPrior, RunStates
  <2> QED
    BY <1>1, <2>4, <2>5 DEF CommandCommits
<1> QED
  BY <1>3, <1>4 DEF PersistedReasons, ClearingReasons

LEMMA CommandsCommitNow ==
  ASSUME ProcessInv
  PROVE  CommandsCommit
<1>1. /\ now \in Nat /\ runtime \in Runtimes /\ Tracking(runtime)
      /\ snapshot \in Snapshots \cup {None}
  BY DecisionFacts
<1>2. ASSUME ~loaded, NEW s \in Snapshots \cup {None}, NEW event \in Events,
             event # "RecoveryResume"
      PROVE  LET d == Decide(runtime, s, NoSignals, event, None, now, 0)
             IN  d.reason \in PersistedReasons =>
                   CommandCommits(d, runtime, s, prior, anchor)
  <2> DEFINE d == Decide(runtime, s, NoSignals, event, None, now, 0)
  <2> SUFFICES ASSUME d.reason \in PersistedReasons
               PROVE  CommandCommits(d, runtime, s, prior, anchor)
    OBVIOUS
  <2>1. event # None
    BY NoneAssumption
  <2>2. Refuses(d)
    BY <1>1, <1>2, <2>1, RefusesCommand
  <2>3. d.status = "Proposed"
    BY <2>2, Zenon DEF Refuses, PersistedReasons
  <2>4. Sound(d, runtime, s, now)
    BY <1>1, <1>2, <2>3, SoundDecision
  <2> HIDE DEF d
  <2> QED
    BY <1>2, <2>4, SoundCommandCommits
<1>3. ASSUME ~loaded, NEW event \in {"Abort", "AcknowledgeCompletion",
                                     "TargetChanged"}
      PROVE  LET d == Decide(runtime, snapshot, NoSignals, event, None, now, 0)
             IN  d.reason \in PersistedReasons =>
                   CommandCommits(d, runtime, snapshot, prior, anchor)
  <2>1. event \in Events /\ event # "RecoveryResume"
    BY <1>3 DEF Events
  <2> QED
    BY <1>1, <1>2, <1>3, <2>1, Zenon
<1>4. ASSUME ~loaded, NEW s \in Snapshots
      PROVE  LET d == Decide(runtime, s, NoSignals, "StartRun", None, now, 0)
             IN  d.reason \in PersistedReasons =>
                   CommandCommits(d, runtime, s, prior, anchor)
  <2>1. "StartRun" \in Events /\ "StartRun" # "RecoveryResume"
    BY DEF Events
  <2>2. s \in Snapshots \cup {None}
    BY <1>4
  <2> QED
    BY <1>2, <1>4, <2>1, <2>2, Zenon
<1> QED
  BY <1>3, <1>4, Zenon DEF CommandsCommit

-----------------------------------------------------------------------------
(* The invariant holds at the start and is kept by every action *)

LEMMA InitProcessInv ==
  ASSUME Init
  PROVE  ProcessInv
<1>5. PICK state \in {"Boot", "Standby"}, n \in 0 .. SequenceMax :
        runtime = [state |-> state, enteredAt |-> 0, reachStartedAt |-> 0,
                   qualifyingSince |-> None, warned |-> FALSE,
                   sequence |-> n]
  <2>1. CASE runtime = Idling("Boot", 0, 0)
    <3>1. 0 \in 0 .. SequenceMax
      BY SequenceAssumption
    <3> QED
      BY <2>1, <3>1, Zenon DEF Idling
  <2>2. CASE \E n \in InitialSequences : runtime = Idling("Standby", 0, n)
    BY <2>2, SequenceAssumption DEF Idling
  <2> QED
    BY <2>1, <2>2 DEF Init
<1>6. runtime \in Runtimes
  BY <1>5 DEF Runtimes, States, IdleStates
<1>1. runtime.state \in {"Boot", "Standby"} /\ runtime \in Runtimes
      /\ runtime.qualifyingSince = None /\ runtime.reachStartedAt = 0
      /\ runtime.warned = FALSE /\ runtime.enteredAt = 0
  BY <1>5, <1>6
<1>2. TypeOK
  <2>1. now \in 0 .. TimestampMax
    BY SequenceAssumption DEF Init
  <2>2. loaded \in BOOLEAN
    BY Zenon DEF Init
  <2> QED
    BY <1>6, <2>1, <2>2, Zenon DEF Init, TypeOK
<1>3. Coherent
  BY <1>1 DEF Init, Coherent, ShapeValid, TimeValid, Tracking, Fits,
              RunlessStates, TargetReachStates
<1>4. Waiting /\ Founded
  BY DEF Init, Waiting, Founded
<1> QED
  BY <1>2, <1>3, <1>4 DEF ProcessInv

\* A state that was valid at a time is valid later.
LEMMA TimePasses ==
  ASSUME NEW r \in Runtimes, NEW t \in Nat, NEW u \in Nat, t <= u,
         TimeValid(r, t)
  PROVE  TimeValid(r, u)
BY SnapshotsAssumption DEF TimeValid, Runtimes

\* What waits was made for the state of now or an earlier one, so with the
\* next transition sequence nothing waits for the new state.
LEMMA MovesOn ==
  ASSUME ProcessInv, UNCHANGED <<now, pending>>, runtime' \in Runtimes,
         pending = {} \/ runtime.sequence < runtime'.sequence
  PROVE  Waiting' /\ Founded'
<1>1. Waiting /\ runtime \in Runtimes
  BY DEF ProcessInv, TypeOK
<1>2. Waiting'
  <2> SUFFICES ASSUME NEW p \in pending
               PROVE  /\ p.decision.time \in 0 .. now
                      /\ p.decision.before \in Runtimes
                      /\ Sensible(p.decision, p.decision.before,
                                  p.decision.time)
                      /\ p.snapshot \in Snapshots \cup {None}
                      /\ p.decision.before.sequence <= runtime'.sequence
    BY DEF Waiting
  <2>1. /\ p.decision.time \in 0 .. now
        /\ p.decision.before \in Runtimes
        /\ Sensible(p.decision, p.decision.before, p.decision.time)
        /\ p.snapshot \in Snapshots \cup {None}
        /\ p.decision.before.sequence <= runtime.sequence
    BY <1>1 DEF Waiting
  <2> QED
    BY <1>1, <2>1, SequenceAssumption DEF Runtimes
<1>3. Founded'
  <2> SUFFICES ASSUME NEW p \in pending
               PROVE  p.decision.before # runtime'
    BY DEF Founded
  <2>1. /\ p.decision.before \in Runtimes
        /\ p.decision.before.sequence <= runtime.sequence
    BY <1>1 DEF Waiting
  <2> QED
    BY <1>1, <2>1, SequenceAssumption DEF Runtimes
<1> QED
  BY <1>2, <1>3

\* What the checkpoint accepts is coherent.
LEMMA StoreKeeps ==
  ASSUME ProcessInv, UNCHANGED <<now, pending>>, loaded' = FALSE,
         NEW r \in Runtimes, NEW s \in Snapshots \cup {None},
         NEW pr \in Priors \cup {None}, NEW an \in Runtimes \cup {None},
         NEW t \in Nat, t <= now, Store(r, s, pr, an, t), Tracking(r),
         pr # None => pr.state \in TimedStates
  PROVE  TypeOK' /\ Coherent'
<1>1. /\ runtime' = r /\ snapshot' = s /\ prior' = pr /\ anchor' = an
      /\ Persistable(r, s, pr, an, t)
  BY DEF Store
<1>2. TypeOK /\ now \in Nat
  BY SequenceAssumption DEF ProcessInv, TypeOK
<1>3. TypeOK'
  BY <1>1, <1>2 DEF TypeOK
<1>4. ShapeValid(r) /\ TimeValid(r, now)
  BY <1>1, <1>2, TimePasses DEF Persistable
<1>5. Fits(r, s, pr, an)
  BY <1>1 DEF Persistable, Fits, RunlessStates, StoredStates
<1>6. Coherent'
  BY <1>1, <1>4, <1>5 DEF Coherent
<1> QED
  BY <1>3, <1>6

LEMMA StoreProcessInv ==
  ASSUME ProcessInv, UNCHANGED <<now, pending>>, loaded' = FALSE,
         NEW r \in Runtimes, NEW s \in Snapshots \cup {None},
         NEW pr \in Priors \cup {None}, NEW an \in Runtimes \cup {None},
         NEW t \in Nat, t <= now, Store(r, s, pr, an, t), Tracking(r),
         pr # None => pr.state \in TimedStates,
         pending = {} \/ runtime.sequence < r.sequence
  PROVE  ProcessInv'
<1>1. TypeOK' /\ Coherent'
  BY StoreKeeps
<1>2. runtime' = r
  BY DEF Store
<1>3. Waiting' /\ Founded'
  BY <1>2, MovesOn
<1> QED
  BY <1>1, <1>3 DEF ProcessInv

LEMMA AdvanceInv ==
  ASSUME ProcessInv, Advance
  PROVE  ProcessInv'
<1>1. /\ now \in Nat /\ now' \in 0 .. TimestampMax /\ now <= now'
      /\ UNCHANGED <<runtime, snapshot, prior, anchor, pending, loaded>>
  BY SequenceAssumption DEF Advance, ProcessInv, TypeOK, runVars
<1>2. now' \in Nat /\ runtime \in Runtimes
  BY <1>1, SequenceAssumption DEF ProcessInv, TypeOK
<1>3. TypeOK'
  BY <1>1 DEF ProcessInv, TypeOK
<1>4. TimeValid(runtime, now) => TimeValid(runtime, now')
  BY <1>1, <1>2, TimePasses
<1>5. Coherent'
  BY <1>1, <1>4 DEF ProcessInv, Coherent
<1>6. Waiting'
  BY <1>1, <1>2 DEF ProcessInv, Waiting
<1>7. Founded'
  BY <1>1 DEF ProcessInv, Founded
<1> QED
  BY <1>3, <1>5, <1>6, <1>7 DEF ProcessInv

LEMMA EstablishInv ==
  ASSUME ProcessInv, EstablishBootCompletedStandby
  PROVE  ProcessInv'
<1> DEFINE d == Propose(runtime, "Standby", "BootCompleted", now)
<1>1. /\ ~loaded /\ Applicable(runtime, d, None) /\ runtime' = d.after
      /\ UNCHANGED <<now, snapshot, prior, anchor, pending, loaded>>
  BY Zenon DEF EstablishBootCompletedStandby
<1>2. /\ now \in Nat /\ runtime \in Runtimes /\ Tracking(runtime)
      /\ snapshot \in Snapshots \cup {None}
  BY DecisionFacts
<1>3. runtime.sequence # SequenceMax
  BY <1>1 DEF Applicable
<1>4. Enters(d, runtime, "Standby", "BootCompleted", now)
  BY <1>2, <1>3, ProposeEffect DEF States, IdleStates
<1> HIDE DEF d
<1>5. /\ d.before = runtime /\ d.reason = "BootCompleted" /\ d.time = now
      /\ d.after \in Runtimes /\ d.after.state = "Standby"
      /\ d.after.sequence = runtime.sequence + 1
      /\ ShapeValid(d.after) /\ TimeValid(d.after, now)
      /\ <<"BootCompleted", runtime.state, "Standby">> \in Topology
  BY <1>1, <1>4 DEF Enters, Applicable
<1>6. runtime.state = "Boot"
  BY <1>5 DEF Topology
<1>7. snapshot = None /\ prior = None /\ anchor = None
  BY <1>6 DEF ProcessInv, Coherent, Fits, StoredStates, RunStates
<1>8. TypeOK'
  BY <1>1, <1>5 DEF ProcessInv, TypeOK
<1>9. Coherent'
  BY <1>1, <1>5, <1>7
     DEF ProcessInv, Coherent, Fits, RunlessStates, Tracking
<1>10. Waiting' /\ Founded'
  BY <1>1, <1>2, <1>5, SequenceAssumption, MovesOn DEF Runtimes
<1> QED
  BY <1>8, <1>9, <1>10 DEF ProcessInv

\* A sound decision may wait.  One that ends a fermentation for the state of
\* now has to be founded.
LEMMA AwaitInv ==
  ASSUME ProcessInv, NEW d, NEW s \in Snapshots \cup {None}, Await(d, s),
         Sound(d, runtime, s, now),
         d.reason = "FermentationCompleted" /\ prior = None =>
           now - runtime.enteredAt >= snapshot.fermentation
  PROVE  ProcessInv'
<1> DEFINE new == [decision |-> d, snapshot |-> s]
<1>1. /\ pending' = pending \cup {new}
      /\ UNCHANGED <<now, runtime, snapshot, prior, anchor, loaded>>
      /\ ~loaded
  BY DEF Await, runVars
<1>2. /\ now \in Nat /\ runtime \in Runtimes /\ Tracking(runtime)
      /\ snapshot \in Snapshots \cup {None}
  BY DecisionFacts
<1>3. /\ Sensible(d, runtime, now) /\ d.status = "Proposed"
      /\ d.before = runtime /\ d.after \in Runtimes /\ d.time = now
  BY DEF Sound, Sensible
<1>4. new.decision = d /\ new.snapshot = s
  OBVIOUS
<1> HIDE DEF new
<1>5. TypeOK'
  BY <1>1, <1>2, <1>3, <1>4 DEF ProcessInv, TypeOK
<1>6. Coherent'
  BY <1>1 DEF ProcessInv, Coherent
<1>7. Waiting'
  <2> SUFFICES ASSUME NEW p \in pending'
               PROVE  /\ p.decision.time \in 0 .. now
                      /\ p.decision.before \in Runtimes
                      /\ Sensible(p.decision, p.decision.before,
                                  p.decision.time)
                      /\ p.snapshot \in Snapshots \cup {None}
                      /\ p.decision.before.sequence <= runtime.sequence
    BY <1>1 DEF Waiting
  <2>1. CASE p \in pending
    BY <2>1 DEF ProcessInv, Waiting
  <2>2. CASE p = new
    BY <1>2, <1>3, <1>4, <2>2, SequenceAssumption DEF Runtimes
  <2> QED
    BY <1>1, <2>1, <2>2
<1>8. Founded'
  <2> SUFFICES ASSUME NEW p \in pending', p.decision.before = runtime,
                      p.decision.reason = "FermentationCompleted",
                      prior = None
               PROVE  p.decision.time - runtime.enteredAt
                        >= snapshot.fermentation
    BY <1>1 DEF Founded
  <2>1. CASE p \in pending
    BY <2>1 DEF ProcessInv, Founded
  <2>2. CASE p = new
    BY <1>3, <1>4, <2>2
  <2> QED
    BY <1>1, <2>1, <2>2
<1> QED
  BY <1>5, <1>6, <1>7, <1>8 DEF ProcessInv

LEMMA DecideCycleInv ==
  ASSUME ProcessInv, DecideCycle
  PROVE  ProcessInv'
<1> PICK signals \in Signals :
      Await(Decide(runtime, snapshot, signals, None, None, now,
                   PriorTime(runtime, prior)), snapshot)
  BY DEF DecideCycle
<1> DEFINE d == Decide(runtime, snapshot, signals, None, None, now,
                       PriorTime(runtime, prior))
<1>1. /\ now \in Nat /\ runtime \in Runtimes /\ Tracking(runtime)
      /\ snapshot \in Snapshots \cup {None}
  BY DecisionFacts
<1>2. d.status = "Proposed"
  BY DEF Await
<1>3. /\ Sound(d, runtime, snapshot, now)
      /\ Due(d, runtime, snapshot, now, PriorTime(runtime, prior))
  BY <1>1, <1>2, SoundDecision
<1>4. prior = None => PriorTime(runtime, prior) = 0
  BY DEF PriorTime
<1> HIDE DEF d
<1>5. d.reason = "FermentationCompleted" /\ prior = None =>
        now - runtime.enteredAt >= snapshot.fermentation
  BY <1>1, <1>3, <1>4 DEF Due, Elapsed, Runtimes
<1> QED
  BY <1>1, <1>3, <1>5, AwaitInv DEF d

\* Explicit events complete no fermentation.
LEMMA EventCompletesNothing ==
  ASSUME ProcessInv, NEW s \in Snapshots \cup {None}, NEW event \in Events,
         event # "RecoveryResume",
         Decide(runtime, s, NoSignals, event, None, now, 0).status
           = "Proposed"
  PROVE  LET d == Decide(runtime, s, NoSignals, event, None, now, 0)
         IN  /\ Sound(d, runtime, s, now)
             /\ d.reason # "FermentationCompleted"
             /\ runtime.state # "WaitingForProduct" =>
                  d.reason \in EventReasons \cup {"CriticalFault"}
<1> DEFINE d == Decide(runtime, s, NoSignals, event, None, now, 0)
<1>1. /\ now \in Nat /\ runtime \in Runtimes /\ Tracking(runtime)
  BY DecisionFacts
<1>2. event # None
  BY NoneAssumption
<1>3. /\ Sound(d, runtime, s, now)
      /\ runtime.state # "WaitingForProduct" =>
           d.reason \in EventReasons \cup {"CriticalFault"}
  BY <1>1, <1>2, SoundDecision
<1> HIDE DEF d
<1>4. d.reason = "FermentationCompleted" => runtime.state = "Fermenting"
  BY <1>3 DEF Sound, Sensible
<1>5. "FermentationCompleted" \notin EventReasons \cup {"CriticalFault"}
  BY DEF EventReasons
<1>6. d.reason # "FermentationCompleted"
  BY <1>3, <1>4, <1>5
<1> QED
  BY <1>3, <1>6, Zenon DEF d

LEMMA DecideCommandInv ==
  ASSUME ProcessInv, DecideCommand
  PROVE  ProcessInv'
<1> PICK event \in Events \ {"StartRun", "RecoveryResume"} :
      Await(Decide(runtime, snapshot, NoSignals, event, None, now, 0),
            snapshot)
  BY Zenon DEF DecideCommand
<1> DEFINE d == Decide(runtime, snapshot, NoSignals, event, None, now, 0)
<1>1. snapshot \in Snapshots \cup {None}
  BY DecisionFacts
<1>2. d.status = "Proposed"
  BY DEF Await
<1>3. Sound(d, runtime, snapshot, now) /\ d.reason # "FermentationCompleted"
  BY <1>1, <1>2, EventCompletesNothing
<1> HIDE DEF d
<1> QED
  BY <1>1, <1>3, AwaitInv DEF d

LEMMA DecideStartInv ==
  ASSUME ProcessInv, DecideStart
  PROVE  ProcessInv'
<1> PICK s \in Snapshots :
      Await(Decide(runtime, s, NoSignals, "StartRun", None, now, 0), s)
  BY Zenon DEF DecideStart
<1> DEFINE d == Decide(runtime, s, NoSignals, "StartRun", None, now, 0)
<1>1. "StartRun" \in Events /\ s \in Snapshots \cup {None}
  BY DEF Events
<1>2. d.status = "Proposed"
  BY DEF Await
<1>3. Sound(d, runtime, s, now) /\ d.reason # "FermentationCompleted"
  BY <1>1, <1>2, EventCompletesNothing
<1> HIDE DEF d
<1> QED
  BY <1>1, <1>3, AwaitInv DEF d

\* A decision that waits and applies to the state of now
LEMMA WaitingApplies ==
  ASSUME ProcessInv, NEW p \in pending, NEW s,
         Applicable(runtime, p.decision, s)
  PROVE  LET d == p.decision
         IN  /\ d.before = runtime /\ d.after \in Runtimes
             /\ Tracking(d.after) /\ d.time \in Nat /\ d.time <= now
             /\ d.after.sequence = runtime.sequence + 1
             /\ runtime.sequence < d.after.sequence
             /\ ShapeValid(d.after) /\ TimeValid(d.after, d.time)
             /\ <<d.reason, runtime.state, d.after.state>> \in Topology
             /\ d.reason \notin RecoveryReasons
             /\ p.snapshot \in Snapshots \cup {None}
<1> DEFINE d == p.decision
<1>1. /\ d.time \in 0 .. now /\ d.before \in Runtimes
      /\ Sensible(d, d.before, d.time)
      /\ p.snapshot \in Snapshots \cup {None}
  BY DEF ProcessInv, Waiting
<1>2. /\ d.before = runtime
      /\ d.after.sequence = runtime.sequence + 1
      /\ ShapeValid(d.after) /\ TimeValid(d.after, d.time)
      /\ <<d.reason, runtime.state, d.after.state>> \in Topology
  BY DEF Applicable
<1>3. /\ d.after \in Runtimes /\ Tracking(d.after)
      /\ d.reason \notin RecoveryReasons
  BY <1>1 DEF Sensible
<1>4. now \in Nat /\ runtime \in Runtimes
  BY DecisionFacts
<1>5. d.time \in Nat /\ d.time <= now
  BY <1>1, <1>4
<1>6. runtime.sequence < d.after.sequence
  BY <1>2, <1>4, SequenceAssumption DEF Runtimes
<1> QED
  BY <1>1, <1>2, <1>3, <1>5, <1>6

LEMMA CommitTransitionInv ==
  ASSUME ProcessInv, CommitTransition
  PROVE  ProcessInv'
<1> PICK p \in pending :
      /\ ~loaded
      /\ Committable(p.decision, runtime, snapshot, prior, anchor)
      /\ runtime' = p.decision.after
      /\ IF p.decision.reason = "ProductWaitExpired"
         THEN snapshot' = None /\ prior' = None /\ anchor' = None
         ELSE UNCHANGED <<snapshot, prior, anchor>>
      /\ UNCHANGED <<now, pending, loaded>>
  BY Zenon DEF CommitTransition
<1> DEFINE d == p.decision
<1>1. Applicable(runtime, d, snapshot)
  BY DEF Committable
<1>2. /\ d.after \in Runtimes /\ Tracking(d.after)
      /\ d.time \in Nat /\ d.time <= now
      /\ runtime.sequence < d.after.sequence
  BY <1>1, WaitingApplies
<1>3. /\ snapshot \in Snapshots \cup {None} /\ prior \in Priors \cup {None}
      /\ anchor \in Runtimes \cup {None} /\ loaded' = FALSE
      /\ prior # None => prior.state \in TimedStates
  BY DEF ProcessInv, TypeOK, Coherent
<1>4. CASE d.reason = "ProductWaitExpired"
  <2>1. Store(d.after, None, None, None, d.time)
    BY <1>4 DEF Committable, Store
  <2> QED
    BY <1>2, <1>3, <2>1, StoreProcessInv
<1>5. CASE d.reason # "ProductWaitExpired"
  <2>1. Store(d.after, snapshot, prior, anchor, d.time)
    BY <1>5 DEF Committable, Store
  <2> QED
    BY <1>2, <1>3, <2>1, StoreProcessInv
<1> QED
  BY <1>4, <1>5

\* What may be committed without being written: the steps between the states
\* of a device that has no run.
LEMMA UnwrittenSteps ==
  ASSUME NEW from, NEW to, NEW reason, <<reason, from, to>> \in Topology,
         reason \notin EligibleReasons, reason \notin PersistedReasons,
         reason \notin RecoveryReasons
  PROVE  /\ from \in {"Boot", "Standby", "ServiceMode"}
         /\ to \in RunlessStates
BY DEF Topology, EligibleReasons, PersistedReasons, RecoveryReasons,
       RunlessStates

LEMMA CommitCommandInv ==
  ASSUME ProcessInv, CommitCommand
  PROVE  ProcessInv'
<1> PICK p \in pending :
      LET d == p.decision
          o == CommandOutcome(d, p.snapshot, prior, anchor)
      IN  /\ ~loaded
          /\ d.reason \notin EligibleReasons
          /\ snapshot = IF d.reason = "RunStarted" THEN None ELSE p.snapshot
          /\ CommandCommits(d, runtime, p.snapshot, prior, anchor)
          /\ runtime' = d.after
          /\ snapshot' = o[1] /\ prior' = o[2] /\ anchor' = o[3]
          /\ UNCHANGED <<now, pending, loaded>>
  BY Zenon DEF CommitCommand
<1> DEFINE d == p.decision
           o == CommandOutcome(d, p.snapshot, prior, anchor)
<1>1. Applicable(runtime, d, p.snapshot)
  BY DEF CommandCommits
<1>2. /\ d.after \in Runtimes /\ Tracking(d.after)
      /\ d.time \in Nat /\ d.time <= now
      /\ runtime.sequence < d.after.sequence
      /\ d.reason \notin RecoveryReasons
      /\ ShapeValid(d.after) /\ TimeValid(d.after, d.time)
      /\ <<d.reason, runtime.state, d.after.state>> \in Topology
      /\ p.snapshot \in Snapshots \cup {None}
  BY <1>1, WaitingApplies
<1>3. /\ snapshot \in Snapshots \cup {None} /\ prior \in Priors \cup {None}
      /\ anchor \in Runtimes \cup {None} /\ loaded' = FALSE
      /\ prior # None => prior.state \in TimedStates
      /\ now \in Nat
  BY DecisionFacts DEF ProcessInv, TypeOK, Coherent
<1>4. CASE d.reason \in ClearingReasons
  <2>1. o = <<None, None, None>>
    BY <1>4 DEF CommandOutcome
  <2>2. Persistable(d.after, None, None, None, d.time)
    BY <1>4, <2>1 DEF CommandCommits, ClearingReasons, PersistedReasons
  <2>3. Store(d.after, None, None, None, d.time)
    BY <2>1, <2>2 DEF Store
  <2> QED
    BY <1>2, <1>3, <2>3, StoreProcessInv
<1>5. CASE d.reason \in {"RunStarted", "TargetChangedReevaluation"}
  <2>1. o = <<p.snapshot, prior, anchor>>
    BY <1>5 DEF CommandOutcome, ClearingReasons
  <2>2. Persistable(d.after, p.snapshot, prior, anchor, d.time)
    BY <1>5, <2>1 DEF CommandCommits, PersistedReasons
  <2>3. Store(d.after, p.snapshot, prior, anchor, d.time)
    BY <2>1, <2>2 DEF Store
  <2> QED
    BY <1>2, <1>3, <2>3, StoreProcessInv
<1>6. CASE d.reason \notin PersistedReasons
  <2>1. o = <<p.snapshot, prior, anchor>>
    BY <1>6 DEF CommandOutcome, ClearingReasons, PersistedReasons
  <2>2. snapshot = p.snapshot
    BY <1>6 DEF PersistedReasons
  <2>3. /\ runtime.state \in {"Boot", "Standby", "ServiceMode"}
        /\ d.after.state \in RunlessStates
    BY <1>2, <1>6, UnwrittenSteps
  <2>4. snapshot = None /\ prior = None /\ anchor = None
    BY <2>3 DEF ProcessInv, Coherent, Fits, StoredStates, RunStates
  <2>5. /\ runtime' = d.after
        /\ UNCHANGED <<now, snapshot, prior, anchor, pending, loaded>>
    BY <2>1, <2>2
  <2>6. TypeOK'
    BY <1>2, <2>5 DEF ProcessInv, TypeOK
  <2>7. TimeValid(d.after, now)
    BY <1>2, <1>3, TimePasses
  <2>8. Coherent'
    BY <1>2, <1>3, <2>3, <2>4, <2>5, <2>7 DEF ProcessInv, Coherent, Fits
  <2>9. Waiting' /\ Founded'
    BY <1>2, <2>5, MovesOn
  <2> QED
    BY <2>6, <2>8, <2>9 DEF ProcessInv
<1> QED
  BY <1>4, <1>5, <1>6 DEF PersistedReasons, ClearingReasons

\* The run that is stopped and the manual run that takes its place
LEMMA StopAndCoolFacts ==
  ASSUME ProcessInv, StopAndCool
  PROVE  \E s \in Snapshots, r \in Runtimes :
           /\ Store(r, s, None, None, now)
           /\ Tracking(r) /\ runtime.sequence < r.sequence
           /\ runtime.state = "Fermenting" =>
                r.state \notin {"Cooling", "Completed"}
<1> DEFINE event == IF runtime.state = "Completed"
                    THEN "AcknowledgeCompletion" ELSE "Abort"
           stop == Decide(runtime, snapshot, NoSignals, event, None, now, 0)
<1>1. Applicable(runtime, stop, snapshot)
  BY Zenon DEF StopAndCool
<1>2. PICK s \in Snapshots :
        LET start == Decide(stop.after, s, NoSignals, "StartRun", None,
                            now, 0)
        IN  /\ Applicable(stop.after, start, s)
            /\ Store(start.after, s, None, None, now)
  BY Zenon DEF StopAndCool
<1> DEFINE start == Decide(stop.after, s, NoSignals, "StartRun", None, now, 0)
<1>3. /\ now \in Nat /\ runtime \in Runtimes
      /\ snapshot \in Snapshots \cup {None}
  BY DecisionFacts
<1>4. event \in Events /\ event # "RecoveryResume"
  BY DEF Events
<1>5. stop.status = "Proposed"
  BY <1>1 DEF Applicable
<1> HIDE DEF event
<1>6. /\ Sound(stop, runtime, snapshot, now)
      /\ runtime.state # "WaitingForProduct" =>
           stop.reason \in EventReasons \cup {"CriticalFault"}
  BY <1>3, <1>4, <1>5, EventCompletesNothing
<1> HIDE DEF stop
<1>7. /\ stop.after \in Runtimes /\ Tracking(stop.after)
      /\ stop.after.sequence = runtime.sequence + 1
      /\ <<stop.reason, runtime.state, stop.after.state>> \in Topology
  BY <1>6 DEF Sound, Sensible, Applicable
<1>8. Applicable(stop.after, start, s) /\ Store(start.after, s, None, None, now)
  BY <1>2
<1>9. start.status = "Proposed"
  BY <1>8 DEF Applicable
<1>10. Sound(start, stop.after, s, now)
  <2>1. "StartRun" # "RecoveryResume" /\ s \in Snapshots \cup {None}
    OBVIOUS
  <2> QED
    BY <1>3, <1>7, <1>9, <2>1, SoundDecision
<1> HIDE DEF start
<1>11. /\ start.after \in Runtimes /\ Tracking(start.after)
       /\ start.after.sequence = stop.after.sequence + 1
       /\ <<start.reason, stop.after.state, start.after.state>> \in Topology
  BY <1>10 DEF Sound, Sensible, Applicable
<1>12. runtime.sequence < start.after.sequence
  BY <1>3, <1>7, <1>11, SequenceAssumption DEF Runtimes
<1>13. runtime.state = "Fermenting" => stop.after.state \in {"Standby", "Fault"}
  <2> SUFFICES ASSUME runtime.state = "Fermenting"
               PROVE  stop.after.state \in {"Standby", "Fault"}
    OBVIOUS
  <2>1. stop.reason \in EventReasons \cup {"CriticalFault"}
    BY <1>6
  <2> QED
    BY <1>7, <2>1 DEF Topology, EventReasons
<1>14. stop.after.state \in {"Standby", "Fault"} =>
         start.after.state \notin {"Cooling", "Completed"}
  BY <1>11 DEF Topology
<1> QED
  BY <1>8, <1>11, <1>12, <1>13, <1>14

LEMMA StopAndCoolInv ==
  ASSUME ProcessInv, StopAndCool
  PROVE  ProcessInv'
<1>1. PICK s \in Snapshots, r \in Runtimes :
        /\ Store(r, s, None, None, now)
        /\ Tracking(r) /\ runtime.sequence < r.sequence
  BY StopAndCoolFacts
<1>2. UNCHANGED <<now, pending>> /\ loaded' = FALSE /\ now \in Nat
  BY DecisionFacts DEF StopAndCool, ProcessInv, TypeOK
<1>3. now <= now /\ s \in Snapshots \cup {None}
  BY <1>2
<1> QED
  BY <1>1, <1>2, <1>3, StoreProcessInv

LEMMA DropInv ==
  ASSUME ProcessInv, Drop
  PROVE  ProcessInv'
<1>1. /\ \A p \in pending' : p \in pending
      /\ UNCHANGED <<now, runtime, snapshot, prior, anchor, loaded>>
  BY DEF Drop, runVars
<1>2. TypeOK'
  BY <1>1 DEF ProcessInv, TypeOK
<1>3. Coherent'
  BY <1>1 DEF ProcessInv, Coherent
<1>4. Waiting'
  BY <1>1 DEF ProcessInv, Waiting
<1>5. Founded'
  BY <1>1 DEF ProcessInv, Founded
<1> QED
  BY <1>2, <1>3, <1>4, <1>5 DEF ProcessInv

\* A new duration is measured from now on, so a completion that waits for the
\* old one meets a tagged time base.
LEMMA AdjustDurationInv ==
  ASSUME ProcessInv, AdjustDuration
  PROVE  ProcessInv'
<1> DEFINE restarted == [runtime EXCEPT !.enteredAt = now]
           tag == [state |-> "Fermenting", lower |-> 0, upper |-> 0]
<1>1. PICK s \in Snapshots :
        IF runtime.state = "Fermenting"
        THEN Store(restarted, s, tag, None, now)
        ELSE Store(runtime, s, prior, anchor, now)
  BY Zenon DEF AdjustDuration
<1>2. /\ runtime \in Runtimes /\ Tracking(runtime)
      /\ prior \in Priors \cup {None} /\ anchor \in Runtimes \cup {None}
      /\ prior # None => prior.state \in TimedStates
      /\ now \in Nat /\ now <= now
  BY DecisionFacts DEF ProcessInv, TypeOK, Coherent
<1>3. /\ runtime.state \in {"Preheating", "ReachingTarget",
                            "QualifyingTarget", "Fermenting"}
      /\ UNCHANGED <<now, pending>> /\ loaded' = FALSE
  BY DEF AdjustDuration, ProcessInv, TypeOK
<1>4. CASE runtime.state = "Fermenting"
  <2>1. /\ restarted \in Runtimes /\ restarted.state = "Fermenting"
        /\ restarted.sequence = runtime.sequence
    BY <1>2, <1>4 DEF Runtimes
  <2> HIDE DEF restarted
  <2>2. Tracking(restarted)
    BY <2>1 DEF Tracking
  <2>3. tag \in Priors /\ tag # None /\ tag.state \in TimedStates
    BY NoneAssumption DEF Priors, RunStates, TimedStates
  <2> HIDE DEF tag
  <2>4. Store(restarted, s, tag, None, now)
    BY <1>1, <1>4
  <2>5. TypeOK' /\ Coherent'
    BY <1>2, <1>3, <2>1, <2>2, <2>3, <2>4, StoreKeeps
  <2>6. runtime'.sequence = runtime.sequence /\ prior' # None
    BY <2>1, <2>3, <2>4 DEF Store
  <2>7. Waiting'
    BY <1>3, <2>6 DEF ProcessInv, Waiting
  <2>8. Founded'
    BY <2>6 DEF Founded
  <2> QED
    BY <2>5, <2>7, <2>8 DEF ProcessInv
<1>5. CASE runtime.state # "Fermenting"
  <2>1. Store(runtime, s, prior, anchor, now)
    BY <1>1, <1>5
  <2>2. TypeOK' /\ Coherent'
    BY <1>2, <1>3, <2>1, StoreKeeps
  <2>3. runtime' = runtime
    BY <2>1 DEF Store
  <2>4. Waiting'
    BY <1>3, <2>3 DEF ProcessInv, Waiting
  <2>5. Founded'
    <3> SUFFICES ASSUME NEW p \in pending, p.decision.before = runtime,
                        p.decision.reason = "FermentationCompleted"
                 PROVE  FALSE
      BY <1>3, <2>3 DEF Founded
    <3>1. p.decision.before.state = "Fermenting"
      BY DEF ProcessInv, Waiting, Sensible
    <3> QED
      BY <1>5, <3>1
  <2> QED
    BY <2>2, <2>4, <2>5 DEF ProcessInv
<1> QED
  BY <1>4, <1>5

LEMMA ChangeSensorRoleInv ==
  ASSUME ProcessInv, ChangeSensorRole
  PROVE  ProcessInv'
<1> DEFINE d == Decide(runtime, snapshot, NoSignals, None, None, now, 0)
<1>1. /\ Applicable(runtime, d, snapshot)
      /\ Store(d.after, snapshot, prior, anchor, now)
      /\ UNCHANGED <<now, pending>> /\ loaded' = FALSE
  BY DEF ChangeSensorRole, SensorRoleReset, ProcessInv, TypeOK
<1>2. /\ runtime \in Runtimes /\ Tracking(runtime)
      /\ snapshot \in Snapshots \cup {None}
      /\ prior \in Priors \cup {None} /\ anchor \in Runtimes \cup {None}
      /\ prior # None => prior.state \in TimedStates
      /\ now \in Nat /\ now <= now
  BY DecisionFacts DEF ProcessInv, TypeOK, Coherent
<1>3. d.status = "Proposed"
  BY <1>1 DEF Applicable
<1>4. Sound(d, runtime, snapshot, now)
  BY <1>2, <1>3, SoundDecision
<1> HIDE DEF d
<1>5. /\ d.after \in Runtimes /\ Tracking(d.after)
      /\ d.after.sequence = runtime.sequence + 1
  BY <1>4 DEF Sound, Sensible, Applicable
<1>6. runtime.sequence < d.after.sequence
  BY <1>2, <1>5, SequenceAssumption DEF Runtimes
<1> QED
  BY <1>1, <1>2, <1>5, <1>6, StoreProcessInv

LEMMA RestartInv ==
  ASSUME ProcessInv, Restart
  PROVE  ProcessInv'
<1>1. /\ now' = 0 /\ pending' = {}
      /\ UNCHANGED <<snapshot, prior, anchor>>
  BY DEF Restart
<1>2. Waiting' /\ Founded'
  BY <1>1 DEF Waiting, Founded
<1>3. CASE snapshot # None
  <2>1. loaded' = TRUE /\ runtime' = runtime
    BY <1>3 DEF Restart
  <2>2. TypeOK'
    BY <1>1, <2>1, SequenceAssumption DEF ProcessInv, TypeOK
  <2>3. Coherent'
    BY <1>1, <1>3, <2>1 DEF ProcessInv, Coherent
  <2> QED
    BY <1>2, <2>2, <2>3 DEF ProcessInv
<1>4. CASE snapshot = None
  <2>1. loaded' = FALSE /\ runtime' = Idling("Boot", 0, 0)
    BY <1>4 DEF Restart
  <2>2. runtime' \in Runtimes
    BY <2>1, SequenceAssumption DEF Idling, Runtimes, States, IdleStates
  <2>3. TypeOK'
    <3>1. now' \in 0 .. TimestampMax
      BY <1>1, SequenceAssumption
    <3>2. loaded' \in BOOLEAN
      BY <2>1, Zenon
    <3> QED
      BY <1>1, <2>2, <3>1, <3>2, Zenon DEF ProcessInv, TypeOK
  <2>4. prior = None /\ anchor = None
    BY <1>4 DEF ProcessInv, Coherent, Fits
  <2>5. /\ runtime'.state = "Boot" /\ runtime'.enteredAt = 0
        /\ runtime'.qualifyingSince = None /\ runtime'.reachStartedAt = 0
        /\ runtime'.warned = FALSE
    BY <2>1 DEF Idling
  <2>6. Coherent'
    BY <1>1, <1>4, <2>1, <2>4, <2>5
       DEF Coherent, ShapeValid, TimeValid, Tracking, Fits, RunlessStates,
           TargetReachStates
  <2> QED
    BY <1>2, <2>3, <2>6 DEF ProcessInv
<1> QED
  BY <1>3, <1>4

\* Nothing waits while a run is loaded.
LEMMA LoadedFacts ==
  ASSUME ProcessInv, loaded
  PROVE  /\ pending = {} /\ snapshot # None
         /\ now \in Nat /\ runtime \in Runtimes /\ Tracking(runtime)
         /\ snapshot \in Snapshots
         /\ prior \in Priors \cup {None} /\ anchor \in Runtimes \cup {None}
         /\ prior # None => prior.state \in TimedStates
BY DecisionFacts DEF ProcessInv, TypeOK, Coherent

LEMMA RestoreFinishedInv ==
  ASSUME ProcessInv, RestoreFinished
  PROVE  ProcessInv'
<1>1. /\ loaded /\ runtime.state \in {"Completed", "Fault"}
      /\ loaded' = FALSE
      /\ UNCHANGED <<now, snapshot, prior, anchor, pending>>
  BY DEF RestoreFinished
<1>2. pending = {} /\ now \in Nat /\ runtime \in Runtimes
  BY <1>1, LoadedFacts
<1>3. CASE runtime.state = "Completed"
  <2>1. runtime' = [runtime EXCEPT !.enteredAt = now]
    BY <1>3 DEF RestoreFinished
  <2>2. /\ runtime' \in Runtimes
        /\ runtime'.state = "Completed" /\ runtime'.enteredAt = now
        /\ runtime'.qualifyingSince = runtime.qualifyingSince
        /\ runtime'.reachStartedAt = runtime.reachStartedAt
        /\ runtime'.warned = runtime.warned
    BY <1>2, <1>3, <2>1 DEF Runtimes
  <2>3. TypeOK'
    BY <1>1, <2>2 DEF ProcessInv, TypeOK
  <2>4. ShapeValid(runtime') /\ runtime'.qualifyingSince = None
    BY <1>3, <2>2
       DEF ProcessInv, Coherent, ShapeValid, QualificationStates
  <2>5. TimeValid(runtime', now)
    BY <1>2, <2>2, <2>4 DEF TimeValid, TargetReachStates
  <2>6. Fits(runtime', snapshot, prior, anchor)
    BY <1>3, <2>2 DEF ProcessInv, Coherent, Fits, ValidAnchor, ValidPrior
  <2>7. Coherent'
    BY <1>1, <2>2, <2>4, <2>5, <2>6 DEF ProcessInv, Coherent, Tracking
  <2>8. Waiting' /\ Founded'
    BY <1>1, <1>2 DEF Waiting, Founded
  <2> QED
    BY <2>3, <2>7, <2>8 DEF ProcessInv
<1>4. CASE runtime.state = "Fault"
  <2>1. runtime' = runtime
    BY <1>4 DEF RestoreFinished
  <2>2. TypeOK'
    BY <1>1, <2>1 DEF ProcessInv, TypeOK
  <2>3. Coherent'
    BY <1>1, <1>4, <2>1 DEF ProcessInv, Coherent
  <2>4. Waiting' /\ Founded'
    BY <1>1, <1>2 DEF Waiting, Founded
  <2> QED
    BY <2>2, <2>3, <2>4 DEF ProcessInv
<1> QED
  BY <1>1, <1>3, <1>4

LEMMA RefreshRecoveryInv ==
  ASSUME ProcessInv, RefreshRecovery
  PROVE  ProcessInv'
<1>1. /\ loaded /\ loaded' = FALSE
      /\ UNCHANGED <<now, runtime, snapshot, prior, anchor, pending>>
      /\ TimeValid(runtime, now)
  BY DEF RefreshRecovery, CanRefreshRecovery, Persistable, runVars
<1>2. pending = {}
  BY <1>1, LoadedFacts
<1>3. TypeOK'
  BY <1>1 DEF ProcessInv, TypeOK
<1>4. Coherent'
  BY <1>1 DEF ProcessInv, Coherent
<1>5. Waiting' /\ Founded'
  BY <1>1, <1>2 DEF Waiting, Founded
<1> QED
  BY <1>3, <1>4, <1>5 DEF ProcessInv

\* RecoveryResume asks for the recovered state and nothing else.
LEMMA ResumeEffect ==
  ASSUME NEW r \in Runtimes, NEW s \in Snapshots \cup {None},
         NEW original \in Runtimes, NEW t \in Nat, NEW priorTime,
         r.state = "RecoveryEvaluation",
         ResumeDecision(r, s, original, t, priorTime).status = "Proposed"
  PROVE  LET d == ResumeDecision(r, s, original, t, priorTime)
         IN  /\ d.after \in Runtimes /\ Tracking(d.after)
             /\ d.after.state \in RunStates
             /\ d.after.state = IF original.state = "QualifyingTarget"
                                THEN "ReachingTarget" ELSE original.state
             /\ r.sequence < d.after.sequence
<1> DEFINE d == ResumeDecision(r, s, original, t, priorTime)
           recovered == Rebased(original, t)
           after == [recovered EXCEPT
             !.state = IF @ = "QualifyingTarget" THEN "ReachingTarget" ELSE @,
             !.enteredAt = IF recovered.state = "QualifyingTarget" THEN t
                           ELSE @,
             !.qualifyingSince = None,
             !.sequence = r.sequence + 1]
<1>1. /\ NoSignals.criticalFault = FALSE
      /\ \A status \in {"InvalidInput", "TimeWentBackwards", "Rejected"} :
           Result(status, r, t).status # "Proposed"
  BY DEF NoSignals, Result
<1>2. "RecoveryResume" # None
  BY NoneAssumption DEF Events
<1>3. ~WaitExpired(r, s, t, priorTime)
  BY DEF WaitExpired
<1>4. /\ d = DecideExplicitEvent(r, s, "RecoveryResume", recovered, t,
                                 priorTime)
      /\ r.sequence # SequenceMax
  BY <1>1, <1>2, <1>3, Zenon DEF ResumeDecision, Decide
<1>5. {row \in EventTable : row[1] = r.state /\ row[2] = "RecoveryResume"} = {}
  BY DEF EventTable
<1>6. d = DecideResume(r, s, recovered, t, priorTime)
  BY <1>4, <1>5, Zenon DEF DecideExplicitEvent
<1>7. /\ d = [Result("Proposed", r, t) EXCEPT
                !.reason = "RecoveryResumed", !.after = after]
      /\ recovered.state \in RunStates
  BY <1>1, <1>6, Zenon DEF DecideResume
<1>8. r.sequence + 1 \in 0 .. SequenceMax /\ r.sequence < r.sequence + 1
  BY <1>4, SequenceAssumption DEF Runtimes
<1>9. /\ recovered \in Runtimes
      /\ recovered.state = IF original.state = "QualifyingTarget"
                           THEN "ReachingTarget" ELSE original.state
  BY DEF Rebased, Runtimes, States, RunStates
<1> HIDE DEF recovered
<1>10. after \in Runtimes
  BY <1>8, <1>9 DEF Runtimes, States, RunStates
<1>11. after.state = recovered.state /\ after.sequence = r.sequence + 1
  BY <1>9 DEF Runtimes
<1> HIDE DEF after
<1>12. d.after = after
  BY <1>7 DEF Result
<1> HIDE DEF d
<1>13. /\ d.after \in Runtimes /\ Tracking(d.after)
       /\ d.after.state \in RunStates
       /\ d.after.state = IF original.state = "QualifyingTarget"
                          THEN "ReachingTarget" ELSE original.state
       /\ r.sequence < d.after.sequence
  BY <1>7, <1>8, <1>9, <1>10, <1>11, <1>12 DEF Tracking
<1> QED
  BY <1>13 DEF d

\* A resumed run is stored with the time it has run.
LEMMA ResumeInv ==
  ASSUME ProcessInv, UNCHANGED <<now, pending>>, loaded' = FALSE,
         NEW r \in Runtimes, NEW original \in Runtimes,
         NEW b \in RecoveryBounds, NEW priorTime,
         r.state = "RecoveryEvaluation", runtime.sequence <= r.sequence,
         Resume(r, snapshot, original, b, priorTime)
  PROVE  /\ ProcessInv'
         /\ runtime'.state = IF original.state = "QualifyingTarget"
                             THEN "ReachingTarget" ELSE original.state
<1> DEFINE d == ResumeDecision(r, snapshot, original, now, priorTime)
           timed == d.after.state \in TimedStates
           pr == IF timed THEN [state |-> d.after.state, lower |-> b.lower,
                                upper |-> b.upper] ELSE None
           an == IF timed /\ b.upper = None THEN original ELSE None
<1>1. /\ now \in Nat /\ now <= now /\ runtime \in Runtimes
      /\ snapshot \in Snapshots \cup {None}
  BY DecisionFacts
<1>2. /\ Applicable(r, d, snapshot)
      /\ Store(d.after, snapshot, pr, an, now)
  BY Zenon DEF Resume
<1>3. d.status = "Proposed"
  BY <1>2 DEF Applicable
<1>4. /\ d.after \in Runtimes /\ Tracking(d.after)
      /\ d.after.state \in RunStates
      /\ d.after.state = IF original.state = "QualifyingTarget"
                         THEN "ReachingTarget" ELSE original.state
      /\ r.sequence < d.after.sequence
  BY <1>1, <1>3, ResumeEffect
<1> HIDE DEF d
<1>5. b.lower \in Nat /\ b.upper \in Nat \cup {None}
  BY SequenceAssumption DEF RecoveryBounds
<1>6. pr \in Priors \cup {None} /\ an \in Runtimes \cup {None}
  BY <1>4, <1>5 DEF Priors
<1>7. pr # None => pr.state \in TimedStates
  OBVIOUS
<1> HIDE DEF pr, an
<1>8. runtime.sequence < d.after.sequence
  BY <1>1, <1>4, SequenceAssumption DEF Runtimes
<1>9. ProcessInv'
  BY <1>1, <1>2, <1>4, <1>6, <1>7, <1>8, StoreProcessInv
<1>10. runtime' = d.after
  BY <1>2 DEF Store
<1> QED
  BY <1>4, <1>9, <1>10

\* A run that ends with its recovery leaves nothing behind.
LEMMA EndRecoveryInv ==
  ASSUME ProcessInv, UNCHANGED <<now, pending>>, loaded' = FALSE,
         NEW r \in Runtimes, NEW s, NEW reason,
         runtime.sequence <= r.sequence,
         EndRecovery(r, s, reason)
  PROVE  ProcessInv' /\ runtime'.state = "Standby"
<1> DEFINE d == Propose(r, "Standby", reason, now)
<1>1. /\ now \in Nat /\ now <= now /\ runtime \in Runtimes
  BY DecisionFacts
<1>2. /\ Applicable(r, d, s)
      /\ Store(d.after, None, None, None, now)
  BY Zenon DEF EndRecovery
<1>3. r.sequence # SequenceMax
  BY <1>2 DEF Applicable
<1>4. Enters(d, r, "Standby", reason, now)
  BY <1>1, <1>3, ProposeEffect DEF States, IdleStates
<1> HIDE DEF d
<1>5. /\ d.after \in Runtimes /\ Tracking(d.after)
      /\ d.after.state = "Standby"
      /\ d.after.sequence = r.sequence + 1
  BY <1>4 DEF Enters, Tracking
<1>6. runtime.sequence < d.after.sequence
  BY <1>1, <1>5, SequenceAssumption DEF Runtimes
<1>7. ProcessInv'
  BY <1>1, <1>2, <1>5, <1>6, StoreProcessInv
<1>8. runtime' = d.after
  BY <1>2 DEF Store
<1> QED
  BY <1>5, <1>7, <1>8

LEMMA ActivateLoadedRunInv ==
  ASSUME ProcessInv, ActivateLoadedRun
  PROVE  /\ ProcessInv'
         /\ runtime.state = "Fermenting" =>
              runtime'.state \notin {"Cooling", "Completed"}
<1> DEFINE hop1 == Propose(runtime, "RecoveryEvaluation",
                           "RecoveryReentryRequired", now)
           newAnchor == IF anchor # None THEN anchor ELSE runtime
           waiting == runtime.state = "WaitingForProduct"
<1>1. /\ loaded /\ Applicable(runtime, hop1, snapshot)
      /\ UNCHANGED <<now, pending>> /\ loaded' = FALSE
  BY Zenon DEF ActivateLoadedRun
<1>2. /\ pending = {} /\ snapshot # None
      /\ now \in Nat /\ now <= now /\ runtime \in Runtimes
      /\ Tracking(runtime)
      /\ snapshot \in Snapshots \cup {None}
      /\ prior \in Priors \cup {None} /\ anchor \in Runtimes \cup {None}
      /\ prior # None => prior.state \in TimedStates
  BY <1>1, LoadedFacts
<1>3. runtime.sequence # SequenceMax
  BY <1>1 DEF Applicable
<1>4. Enters(hop1, runtime, "RecoveryEvaluation", "RecoveryReentryRequired",
             now)
  BY <1>2, <1>3, ProposeEffect DEF States, IdleStates
<1>5. PICK b, priorTime :
        /\ b \in RecoveryBounds
        /\ \/ EndRecovery(hop1.after, snapshot, "RecoveryEndedByExpiredWait")
           \/ EndRecovery(hop1.after, snapshot, "RecoveryRejected")
           \/ Store(hop1.after, snapshot, prior, newAnchor, now)
           \/ Resume(hop1.after, snapshot, runtime, b, priorTime)
  <2>1. PICK b \in RecoveryBounds, sensorsAllow \in BOOLEAN :
          LET verdict == IF waiting THEN Verdict(b, snapshot.wait) ELSE None
              priorTime == IF waiting THEN b.upper ELSE b.lower
              hop2 == ResumeDecision(hop1.after, snapshot, runtime, now,
                                     priorTime)
          IN  CASE verdict = "DefinitelyExpired" ->
                     EndRecovery(hop1.after, snapshot,
                                 "RecoveryEndedByExpiredWait")
                [] verdict = "Uncertain" ->
                     Store(hop1.after, snapshot, prior, newAnchor, now)
                [] OTHER ->
                     IF sensorsAllow
                     THEN \/ Resume(hop1.after, snapshot, runtime, b,
                                    priorTime)
                          \/ /\ waiting
                             /\ ~Applicable(hop1.after, hop2, snapshot)
                             /\ Store(hop1.after, snapshot, prior, newAnchor,
                                      now)
                     ELSE EndRecovery(hop1.after, snapshot,
                                      "RecoveryRejected")
    BY Zenon DEF ActivateLoadedRun
  <2> HIDE DEF hop1, newAnchor, waiting
  <2> QED
    BY <2>1
<1> HIDE DEF hop1, newAnchor
<1>6. /\ hop1.after \in Runtimes /\ Tracking(hop1.after)
      /\ hop1.after.state = "RecoveryEvaluation"
      /\ hop1.after.sequence = runtime.sequence + 1
  BY <1>4 DEF Enters, Tracking
<1>7. runtime.sequence <= hop1.after.sequence
  BY <1>2, <1>6, SequenceAssumption DEF Runtimes
<1>8. newAnchor \in Runtimes
  BY <1>2 DEF newAnchor
<1>9. CASE \/ EndRecovery(hop1.after, snapshot, "RecoveryEndedByExpiredWait")
           \/ EndRecovery(hop1.after, snapshot, "RecoveryRejected")
  <2>1. ProcessInv' /\ runtime'.state = "Standby"
    BY <1>1, <1>6, <1>7, <1>9, EndRecoveryInv
  <2> QED
    BY <2>1
<1>10. CASE Store(hop1.after, snapshot, prior, newAnchor, now)
  <2>1. ProcessInv'
    BY <1>1, <1>2, <1>6, <1>8, <1>10, StoreProcessInv
  <2>2. runtime'.state = "RecoveryEvaluation"
    BY <1>6, <1>10 DEF Store
  <2> QED
    BY <2>1, <2>2
<1>11. CASE Resume(hop1.after, snapshot, runtime, b, priorTime)
  <2>1. /\ ProcessInv'
        /\ runtime'.state = IF runtime.state = "QualifyingTarget"
                            THEN "ReachingTarget" ELSE runtime.state
    BY <1>1, <1>2, <1>5, <1>6, <1>7, <1>11, ResumeInv
  <2> QED
    BY <2>1
<1> QED
  BY <1>5, <1>9, <1>10, <1>11

\* The recovery that is open, decided by the clocks or by the user
LEMMA OpenRecoveryInv ==
  ASSUME ProcessInv, ReevaluateRecovery \/ ResolveRecovery
  PROVE  ProcessInv'
<1>1. /\ OpenRecovery
      /\ \E b \in RecoveryBounds : \E priorTime :
           \/ EndRecovery(runtime, snapshot, "RecoveryEndedByExpiredWait")
           \/ EndRecovery(runtime, snapshot, "RecoveryRejected")
           \/ Resume(runtime, snapshot, anchor, b, priorTime)
  <2>1. CASE ReevaluateRecovery
    BY <2>1, Zenon DEF ReevaluateRecovery
  <2>2. CASE ResolveRecovery
    BY <2>2, Zenon DEF ResolveRecovery
  <2> QED
    BY <2>1, <2>2
<1>2. /\ UNCHANGED <<now, pending>> /\ loaded' = FALSE
      /\ runtime.state = "RecoveryEvaluation" /\ anchor \in Runtimes
      /\ runtime \in Runtimes
  BY <1>1 DEF OpenRecovery, ProcessInv, TypeOK
<1>3. runtime.sequence <= runtime.sequence
  BY <1>2, SequenceAssumption DEF Runtimes
<1>4. PICK b, priorTime :
        /\ b \in RecoveryBounds
        /\ \/ EndRecovery(runtime, snapshot, "RecoveryEndedByExpiredWait")
           \/ EndRecovery(runtime, snapshot, "RecoveryRejected")
           \/ Resume(runtime, snapshot, anchor, b, priorTime)
  BY <1>1
<1>5. CASE \/ EndRecovery(runtime, snapshot, "RecoveryEndedByExpiredWait")
           \/ EndRecovery(runtime, snapshot, "RecoveryRejected")
  BY <1>2, <1>3, <1>5, EndRecoveryInv
<1>6. CASE Resume(runtime, snapshot, anchor, b, priorTime)
  BY <1>2, <1>3, <1>4, <1>6, ResumeInv
<1> QED
  BY <1>4, <1>5, <1>6

LEMMA ResolveCompletionInv ==
  ASSUME ProcessInv, ResolveCompletion
  PROVE  ProcessInv'
<1> DEFINE d == IF runtime.state = "Fermenting"
                THEN CompleteTimedRun(runtime, snapshot, now)
                ELSE Propose(runtime, "Completed", "HoldDurationCompleted",
                             now)
<1>1. /\ Applicable(runtime, d, snapshot)
      /\ Store(d.after, snapshot, None, None, now)
      /\ UNCHANGED <<now, pending>> /\ loaded' = FALSE
      /\ runtime.state \in {"Fermenting", "CoolHolding"}
  BY DEF ResolveCompletion, ProcessInv, TypeOK
<1>2. /\ now \in Nat /\ now <= now /\ runtime \in Runtimes
      /\ snapshot \in Snapshots \cup {None} /\ Tracking(runtime)
  BY DecisionFacts
<1>3. runtime.sequence # SequenceMax
  BY <1>1 DEF Applicable
<1>4. d.after \in Runtimes /\ d.after.state \in {"Cooling", "Completed"}
      /\ d.after.sequence = runtime.sequence + 1
  <2>1. /\ Enters(Propose(runtime, "Cooling", "FermentationCompleted", now),
                  runtime, "Cooling", "FermentationCompleted", now)
        /\ Enters(Propose(runtime, "Completed", "FermentationCompleted", now),
                  runtime, "Completed", "FermentationCompleted", now)
        /\ Enters(Propose(runtime, "Completed", "HoldDurationCompleted", now),
                  runtime, "Completed", "HoldDurationCompleted", now)
    BY <1>2, <1>3, ProposeEffect DEF States, IdleStates, RunStates
  <2>2. \/ d = Propose(runtime, "Cooling", "FermentationCompleted", now)
        \/ d = Saying(Propose(runtime, "Completed", "FermentationCompleted",
                              now), "RunCompleted")
        \/ d = Propose(runtime, "Completed", "HoldDurationCompleted", now)
    BY Zenon DEF CompleteTimedRun
  <2> DEFINE p1 == Propose(runtime, "Cooling", "FermentationCompleted", now)
             p2 == Propose(runtime, "Completed", "FermentationCompleted", now)
             p3 == Propose(runtime, "Completed", "HoldDurationCompleted", now)
  <2> HIDE DEF d, p1, p2, p3
  <2>3. /\ Enters(p1, runtime, "Cooling", "FermentationCompleted", now)
        /\ Enters(p2, runtime, "Completed", "FermentationCompleted", now)
        /\ Enters(p3, runtime, "Completed", "HoldDurationCompleted", now)
        /\ d = p1 \/ d = Saying(p2, "RunCompleted") \/ d = p3
    BY <2>1, <2>2 DEF p1, p2, p3
  <2>4. Saying(p2, "RunCompleted").after = p2.after
    BY <2>3, SayingEffect DEF Enters
  <2> QED
    BY <2>3, <2>4 DEF Enters
<1> HIDE DEF d
<1>5. Tracking(d.after) /\ runtime.sequence < d.after.sequence
  BY <1>2, <1>4, SequenceAssumption DEF Tracking, Runtimes
<1> QED
  BY <1>1, <1>2, <1>4, <1>5, StoreProcessInv

LEMMA NextProcessInv ==
  ASSUME ProcessInv, [Next]_vars
  PROVE  ProcessInv'
<1>1. CASE UNCHANGED vars
  <2>1. UNCHANGED <<now, runtime, snapshot, prior, anchor, pending, loaded>>
    BY <1>1 DEF vars
  <2>2. TypeOK' /\ Coherent'
    BY <2>1 DEF ProcessInv, TypeOK, Coherent
  <2>3. Waiting' /\ Founded'
    BY <2>1 DEF ProcessInv, Waiting, Founded
  <2> QED
    BY <2>2, <2>3 DEF ProcessInv
<1>2. CASE Advance
  BY <1>2, AdvanceInv
<1>3. CASE EstablishBootCompletedStandby
  BY <1>3, EstablishInv
<1>4. CASE DecideCycle
  BY <1>4, DecideCycleInv
<1>5. CASE DecideCommand
  BY <1>5, DecideCommandInv
<1>6. CASE DecideStart
  BY <1>6, DecideStartInv
<1>7. CASE CommitTransition
  BY <1>7, CommitTransitionInv
<1>8. CASE CommitCommand
  BY <1>8, CommitCommandInv
<1>9. CASE StopAndCool
  BY <1>9, StopAndCoolInv
<1>10. CASE Drop
  BY <1>10, DropInv
<1>11. CASE AdjustDuration
  BY <1>11, AdjustDurationInv
<1>12. CASE ChangeSensorRole
  BY <1>12, ChangeSensorRoleInv
<1>13. CASE Restart
  BY <1>13, RestartInv
<1>14. CASE RestoreFinished
  BY <1>14, RestoreFinishedInv
<1>15. CASE RefreshRecovery
  BY <1>15, RefreshRecoveryInv
<1>16. CASE ActivateLoadedRun
  BY <1>16, ActivateLoadedRunInv
<1>17. CASE ReevaluateRecovery \/ ResolveRecovery
  BY <1>17, OpenRecoveryInv
<1>18. CASE ResolveCompletion
  BY <1>18, ResolveCompletionInv
<1> QED
  BY <1>1, <1>2, <1>3, <1>4, <1>5, <1>6, <1>7, <1>8, <1>9, <1>10, <1>11,
     <1>12, <1>13, <1>14, <1>15, <1>16, <1>17, <1>18, Zenon DEF Next

\* The state of the machine, its run, its recovery fields and the decisions
\* that wait fit each other in every behaviour of process_state_machine.cpp
\* with its callers.
THEOREM ProcessInvariant == Spec => []ProcessInv
<1>1. Init => ProcessInv
  BY InitProcessInv
<1>2. ProcessInv /\ [Next]_vars => ProcessInv'
  BY NextProcessInv
<1> QED
  BY <1>1, <1>2, PTL DEF Spec

\* The variables of the process state machine keep their types.
THEOREM ProcessTypeOK == Spec => []TypeOK
<1>1. ProcessInv => TypeOK
  BY DEF ProcessInv
<1> QED
  BY <1>1, ProcessInvariant, PTL

\* Whatever decideProcessTransition() proposes for the state the machine is
\* in is taken by applyProcessTransition(): nothing is persisted and refused
\* afterwards.
THEOREM ProcessDecisionsApply == Spec => []DecisionsApply
<1>1. ProcessInv => DecisionsApply
  BY DecisionsApplyNow
<1> QED
  BY <1>1, ProcessInvariant, PTL

\* The decision for a critical fault always exists and always applies, with
\* any run snapshot or none.
THEOREM ProcessFaultNeverBlocked == Spec => []FaultNeverBlocked
<1>1. ProcessInv => FaultNeverBlocked
  BY FaultNeverBlockedNow
<1> QED
  BY <1>1, ProcessInvariant, PTL

\* What persistCommandInternal() writes for a command of the user is never
\* refused by validateRunPersistenceSnapshot().
THEOREM ProcessCommandsCommit == Spec => []CommandsCommit
<1>1. ProcessInv => CommandsCommit
  BY CommandsCommitNow
<1> QED
  BY <1>1, ProcessInvariant, PTL

-----------------------------------------------------------------------------
(* A fermentation does not end early *)

\* The duration of a run that ferments is a number of minutes.
LEMMA FermentingFacts ==
  ASSUME ProcessInv, runtime.state = "Fermenting"
  PROVE  /\ snapshot \in Snapshots /\ snapshot.fermentation \in Nat
         /\ now \in Nat /\ runtime.enteredAt \in Nat
<1>1. /\ now \in Nat /\ runtime \in Runtimes
      /\ snapshot \in Snapshots \cup {None}
  BY DecisionFacts
<1>2. snapshot # None /\ StateMatchesSnapshot("Fermenting", snapshot)
  BY DEF ProcessInv, Coherent, Fits, RunlessStates
<1>3. snapshot \in Snapshots /\ snapshot.kind = "Timed"
  BY <1>1, <1>2 DEF StateMatchesSnapshot
<1>4. snapshot \in RunSnapshots /\ snapshot.fermentation # None
  BY <1>3, SnapshotsAssumption DEF ValidSnapshot
<1>5. snapshot.fermentation \in Nat
  BY <1>4 DEF RunSnapshots, Durations
<1> QED
  BY <1>1, <1>3, <1>5 DEF Runtimes

\* What the topology allows out of Fermenting
LEMMA TopologyOfFermenting ==
  ASSUME NEW to, NEW reason, <<reason, "Fermenting", to>> \in Topology,
         to \in {"Cooling", "Completed"}
  PROVE  reason = "FermentationCompleted"
BY DEF Topology

\* A completion that was decided is committed with no tagged time base, and
\* what waited for this state was due.
LEMMA CommittedCompletion ==
  ASSUME ProcessInv, CommitTransition, runtime.state = "Fermenting",
         runtime'.state \in {"Cooling", "Completed"}
  PROVE  prior = None /\ now - runtime.enteredAt >= snapshot.fermentation
<1> PICK p \in pending :
      /\ Committable(p.decision, runtime, snapshot, prior, anchor)
      /\ runtime' = p.decision.after
  BY Zenon DEF CommitTransition
<1> DEFINE d == p.decision
<1>1. Applicable(runtime, d, snapshot)
  BY DEF Committable
<1>2. /\ d.before = runtime /\ d.time \in Nat /\ d.time <= now
      /\ <<d.reason, runtime.state, d.after.state>> \in Topology
  BY <1>1, WaitingApplies
<1>3. d.reason = "FermentationCompleted"
  BY <1>2, TopologyOfFermenting
<1>4. Persistable(d.after, snapshot, prior, anchor, d.time)
  BY <1>3 DEF Committable
<1>5. snapshot # None
  BY DEF Committable
<1>6. prior # None => prior.state = d.after.state
  BY <1>4, <1>5 DEF Persistable, ValidPrior
<1>7. prior = None
  BY <1>6 DEF ProcessInv, Coherent, TimedStates
<1>8. d.time - runtime.enteredAt >= snapshot.fermentation
  BY <1>2, <1>3, <1>7 DEF ProcessInv, Founded
<1> QED
  BY <1>2, <1>7, <1>8, FermentingFacts

\* The user resolves a completion only when it may be due.
LEMMA ResolvedCompletion ==
  ASSUME ProcessInv, ResolveCompletion, runtime.state = "Fermenting"
  PROVE  /\ prior # None /\ prior.upper # None
         /\ now - runtime.enteredAt + prior.upper >= snapshot.fermentation
<1>1. /\ prior # None /\ prior.upper # None
      /\ Verdict(prior, snapshot.fermentation) = "Uncertain"
  BY DEF ResolveCompletion
<1>2. prior \in Priors
  BY <1>1 DEF ProcessInv, TypeOK
<1>3. prior.upper \in Nat
  BY <1>1, <1>2 DEF Priors
<1>4. ~(prior.upper < snapshot.fermentation)
  BY <1>1 DEF Verdict
<1>5. runtime.enteredAt <= now
  BY DEF ResolveCompletion, ProcessInv, Coherent, TimeValid
<1> QED
  BY <1>1, <1>3, <1>4, <1>5, FermentingFacts

\* The step that completes a fermentation
Completing ==
  runtime.state = "Fermenting" /\ runtime'.state \in {"Cooling", "Completed"}

LEMMA CompletingSteps ==
  ASSUME ProcessInv, [Next]_vars, Completing
  PROVE  CommitTransition \/ ResolveCompletion
<1>1. CASE UNCHANGED vars \/ Advance \/ DecideCycle \/ DecideCommand
           \/ DecideStart \/ Drop \/ RefreshRecovery
  <2>1. runtime' = runtime
    BY <1>1 DEF vars, Advance, DecideCycle, DecideCommand, DecideStart, Await,
                Drop, RefreshRecovery, runVars
  <2> QED
    BY <2>1 DEF Completing
<1>2. CASE EstablishBootCompletedStandby
  <2> DEFINE d == Propose(runtime, "Standby", "BootCompleted", now)
  <2>1. Applicable(runtime, d, None)
    BY <1>2, Zenon DEF EstablishBootCompletedStandby
  <2>2. now \in Nat /\ runtime \in Runtimes
    BY DecisionFacts
  <2>3. Enters(d, runtime, "Standby", "BootCompleted", now)
    BY <2>1, <2>2, ProposeEffect DEF Applicable, States, IdleStates
  <2> HIDE DEF d
  <2>4. <<"BootCompleted", runtime.state, d.after.state>> \in Topology
    BY <2>1, <2>3 DEF Applicable, Enters
  <2> QED
    BY <2>4 DEF Topology, Completing
<1>3. CASE CommitCommand
  <2> PICK p \in pending :
        /\ p.decision.reason \notin EligibleReasons
        /\ CommandCommits(p.decision, runtime, p.snapshot, prior, anchor)
        /\ runtime' = p.decision.after
    BY <1>3, Zenon DEF CommitCommand
  <2>1. Applicable(runtime, p.decision, p.snapshot)
    BY DEF CommandCommits
  <2>2. <<p.decision.reason, runtime.state, p.decision.after.state>>
          \in Topology
    BY <2>1, WaitingApplies
  <2>3. p.decision.reason = "FermentationCompleted"
    BY <2>2, TopologyOfFermenting DEF Completing
  <2> QED
    BY <2>3 DEF EligibleReasons
<1>4. CASE StopAndCool
  <2>1. PICK s \in Snapshots, r \in Runtimes :
          /\ Store(r, s, None, None, now)
          /\ runtime.state = "Fermenting" =>
               r.state \notin {"Cooling", "Completed"}
    BY <1>4, StopAndCoolFacts
  <2> QED
    BY <2>1 DEF Store, Completing
<1>5. CASE AdjustDuration
  <2>1. runtime \in Runtimes
    BY DecisionFacts
  <2>2. runtime' = [runtime EXCEPT !.enteredAt = now] \/ runtime' = runtime
    BY <1>5 DEF AdjustDuration, Store
  <2>3. runtime'.state = runtime.state
    BY <2>1, <2>2 DEF Runtimes
  <2> QED
    BY <2>3 DEF Completing
<1>6. CASE ChangeSensorRole \/ RestoreFinished
  BY <1>6 DEF ChangeSensorRole, RestoreFinished, Completing
<1>7. CASE Restart
  <2>1. runtime' = runtime \/ runtime' = Idling("Boot", 0, 0)
    BY <1>7 DEF Restart
  <2> QED
    BY <2>1 DEF Idling, Completing
<1>8. CASE ActivateLoadedRun
  BY <1>8, ActivateLoadedRunInv DEF Completing
<1>9. CASE ReevaluateRecovery \/ ResolveRecovery
  BY <1>9 DEF ReevaluateRecovery, ResolveRecovery, OpenRecovery, Completing
<1> QED
  BY <1>1, <1>2, <1>3, <1>4, <1>5, <1>6, <1>7, <1>8, <1>9, Zenon DEF Next

LEMMA CompletingInTime ==
  ASSUME ProcessInv, [Next]_vars, Completing
  PROVE  now - runtime.enteredAt
           + (IF prior = None THEN 0
              ELSE IF prior.upper = None THEN prior.lower ELSE prior.upper)
         >= snapshot.fermentation
<1>1. CASE CommitTransition
  <2>1. prior = None /\ now - runtime.enteredAt >= snapshot.fermentation
    BY <1>1, CommittedCompletion DEF Completing
  <2> QED
    BY <2>1, FermentingFacts DEF Completing
<1>2. CASE ResolveCompletion
  BY <1>2, ResolvedCompletion DEF Completing
<1> QED
  BY <1>1, <1>2, CompletingSteps

\* A fermentation is not completed before its time, whatever waits, restarts
\* or is adjusted in between.
THEOREM ProcessCompletionNotEarly == Spec => CompletionNotEarly
<1> DEFINE InTime ==
      now - runtime.enteredAt
        + (IF prior = None THEN 0
           ELSE IF prior.upper = None THEN prior.lower ELSE prior.upper)
      >= snapshot.fermentation
<1>1. ProcessInv /\ [Next]_vars =>
        [runtime.state = "Fermenting"
           /\ runtime'.state \in {"Cooling", "Completed"} => InTime]_vars
  BY CompletingInTime DEF Completing
<1>2. Spec => []ProcessInv
  BY ProcessInvariant
<1>3. Spec => [][Next]_vars
  BY PTL DEF Spec
<1> QED
  BY <1>1, <1>2, <1>3, PTL DEF CompletionNotEarly

=============================================================================
