------------------------- MODULE ProcessStateMachine -------------------------
(***************************************************************************)
(* The process state machine (process_state_machine.cpp) and the life of   *)
(* its decisions.  decideProcessTransition() is a pure function from the   *)
(* current runtime state to a decision that carries the state it was made  *)
(* for; the callers persist the decision and only then apply it, so other  *)
(* commits, retries, a changed run snapshot or a restart come in between,  *)
(* and applyProcessTransition() checks the decision once more.             *)
(*                                                                         *)
(* One unit of time is a minute: the code compares whole durations only.   *)
(* qualificationDurationMinutes is validated here and read elsewhere; it   *)
(* is left out of the run snapshot.                                        *)
(***************************************************************************)
EXTENDS Integers, FiniteSets

CONSTANTS
  None,              \* std::nullopt
  Snapshots,         \* run snapshots that runs are started with
  SequenceMax,       \* std::numeric_limits<std::uint32_t>::max()
  InitialSequences,  \* transition sequences a device is switched on with
  Outages,           \* bounds on the time a phase ran before a restart
  Gaps,              \* time between two operations
  TimestampMax,      \* bound on the time of one boot
  MaxPending         \* bound on decisions waiting to be applied

IdleStates ==
  {"Boot", "SafeBoot", "Standby", "Completed", "RecoveryEvaluation", "Fault",
   "ServiceMode"}

\* stateUsesRunSnapshot(), stateCanAbort(), validRecoveryTarget()
RunStates ==
  {"Preheating", "WaitingForProduct", "ReachingTarget", "QualifyingTarget",
   "Fermenting", "Cooling", "CoolHolding", "ManualHolding"}

States == IdleStates \cup RunStates
TargetReachStates == {"ReachingTarget", "QualifyingTarget"}
QualificationStates == {"Preheating", "QualifyingTarget"}

Modes == {"FinishWithoutCooling", "CoolThenFinish", "CoolAndHoldForDuration",
          "CoolAndHoldUntilManualStop"}

Durations == Nat \ {0}

RunSnapshots ==
  [kind: {"Timed", "ManualHolding"}, preheat: BOOLEAN, mode: Modes,
   reach: Durations, wait: Durations \cup {None},
   fermentation: Durations \cup {None}, hold: Durations \cup {None}]

\* validateProcessRunSnapshot(), apart from the ranges of the durations
ValidSnapshot(s) ==
  /\ s.preheat <=> s.wait # None
  /\ s.kind = "Timed" <=> s.fermentation # None
  /\ s.kind = "ManualHolding" => s.mode = "FinishWithoutCooling"
  /\ s.mode = "CoolAndHoldForDuration" <=> s.hold # None

ASSUME SnapshotsAssumption ==
  /\ None \notin Nat
  /\ Snapshots \subseteq {s \in RunSnapshots : ValidSnapshot(s)}
  /\ None \notin Snapshots

ASSUME SequenceAssumption ==
  /\ SequenceMax \in Nat
  /\ InitialSequences \subseteq 0 .. SequenceMax
  /\ TimestampMax \in Nat /\ MaxPending \in Nat
  /\ Gaps \subseteq Nat /\ Outages \subseteq Nat

Progress == {"Unavailable", "Invalid", "OutsideBand", "Grace", "InBand",
             "Complete"}
PositiveEvidence == {"Grace", "InBand", "Complete"}

Signals == [progress: Progress, coolingTargetReached: BOOLEAN,
            criticalFault: BOOLEAN]

NoSignals == [progress |-> "Unavailable", coolingTargetReached |-> FALSE,
              criticalFault |-> FALSE]

Events ==
  {"StartRun", "ProductInsertedConfirmed", "TargetChanged", "Abort",
   "FinishHoldConfirmed", "AcknowledgeCompletion", "EnterServiceMode",
   "ExitServiceMode", "BootReady", "BootSafe", "BootRestoreCompleted",
   "BootRecoverRun", "RecoveryResume", "RecoveryReject"}

VARIABLES
  now,       \* monotonic clock of this boot
  runtime,   \* ProcessRuntimeState
  snapshot,  \* processRunSnapshot of the active run, or None
  prior,     \* priorBootPhaseElapsed: time the phase ran in earlier boots
  anchor,    \* pendingRecoveryAnchor: runtime state a recovery began in
  pending,   \* decisions made and not yet dropped, with their run snapshot
  loaded     \* the run was loaded from the store and is not yet activated

vars == <<now, runtime, snapshot, prior, anchor, pending, loaded>>
runVars == <<runtime, snapshot, prior, anchor>>

Idling(state, t, sequence) ==
  [state |-> state, enteredAt |-> t, reachStartedAt |-> 0,
   qualifyingSince |-> None, warned |-> FALSE, sequence |-> sequence]

Init ==
  /\ now = 0
  /\ runtime \in {Idling("Boot", 0, 0)}
                 \cup {Idling("Standby", 0, n) : n \in InitialSequences}
  /\ snapshot = None
  /\ prior = None /\ anchor = None
  /\ pending = {}
  /\ loaded = FALSE

-----------------------------------------------------------------------------
(* Validity of a runtime state *)

\* runtimeTimeIsValid()
TimeValid(r, t) ==
  /\ r.enteredAt <= t
  /\ r.state \in TargetReachStates => r.reachStartedAt <= t
  /\ r.qualifyingSince # None => r.qualifyingSince <= t

\* runtimeShapeIsValid()
ShapeValid(r) ==
  /\ r.qualifyingSince # None => r.state \in QualificationStates
  /\ r.state \notin TargetReachStates => r.reachStartedAt = 0 /\ ~r.warned

\* stateMatchesRunSnapshot()
StateMatchesSnapshot(state, s) ==
  CASE state \in {"Preheating", "WaitingForProduct"} -> s.preheat
    [] state = "Fermenting" -> s.kind = "Timed"
    [] state = "Cooling" ->
         s.kind = "Timed" /\ s.mode # "FinishWithoutCooling"
    [] state = "CoolHolding" ->
         /\ s.kind = "Timed"
         /\ s.mode \in {"CoolAndHoldForDuration", "CoolAndHoldUntilManualStop"}
    [] state = "ManualHolding" -> s.kind = "ManualHolding"
    [] OTHER -> TRUE

-----------------------------------------------------------------------------
(* Decisions *)

Result(status, r, t) ==
  [status |-> status, before |-> r, after |-> r, reason |-> "None",
   time |-> t, messages |-> {}]

\* A mutant: a begun minute counts as a whole one.
ElapsedRoundedUp(t, since, duration, priorTime) ==
  (t - since) + priorTime + 1 >= duration

Elapsed(t, since, duration, priorTime) == (t - since) + priorTime >= duration

\* propose(): entering a state (anew)
Propose(r, next, reason, t) ==
  IF r.sequence = SequenceMax THEN Result("InvalidInput", r, t)
  ELSE [Result("Proposed", r, t) EXCEPT
          !.reason = reason,
          !.after = [r EXCEPT
             !.state = next,
             !.enteredAt = t,
             !.qualifyingSince = None,
             !.reachStartedAt = IF next \in TargetReachStates THEN @ ELSE 0,
             !.warned = IF next \in TargetReachStates THEN @ ELSE FALSE,
             !.sequence = @ + 1]]

Saying(decision, message) == [decision EXCEPT !.messages = @ \cup {message}]

\* proposePhaseDataUpdate(): new data within the state
UpdatePhaseData(r, reason, t) ==
  [Result("Proposed", r, t) EXCEPT !.reason = reason,
                                   !.after = [r EXCEPT !.sequence = @ + 1]]

\* initializeTargetReach()
InitializeTargetReach(d) ==
  IF d.status = "Proposed" /\ d.after.state \in TargetReachStates
  THEN [d EXCEPT !.after.reachStartedAt = d.time, !.after.warned = FALSE]
  ELSE d

WarningDue(r, s, t) ==
  /\ r.state \in TargetReachStates
  /\ ~r.warned
  /\ Elapsed(t, r.reachStartedAt, s.reach, 0)

\* includeTargetReachWarning() where it is due; a decision that would leave
\* everything as it is becomes the warning itself.
WithWarning(d, r, s, t) ==
  LET base == IF d.status = "Proposed" THEN d
              ELSE UpdatePhaseData(r, "TargetReachTimeExceeded", t)
  IN  IF ~WarningDue(r, s, t) THEN d
      ELSE Saying([base EXCEPT !.after.warned =
                     base.after.state \in TargetReachStates],
                  "TargetReachTimeExceeded")

\* decideQualification()
DecideQualification(r, s, signals, t) ==
  LET preheating == r.state = "Preheating"
      interrupted == signals.progress \notin PositiveEvidence
      complete == signals.progress = "Complete"
  IN  CASE interrupted /\ r.qualifyingSince = None ->
             Result("NoTransition", r, t)
        [] interrupted /\ r.qualifyingSince # None /\ preheating ->
             [UpdatePhaseData(r, "QualificationReset", t) EXCEPT
                !.after.qualifyingSince = None]
        [] interrupted /\ r.qualifyingSince # None /\ ~preheating ->
             Propose(r, "ReachingTarget", "QualificationReset", t)
        [] complete /\ preheating ->
             Saying(Propose(r, "WaitingForProduct", "PreheatQualified", t),
                    "ProductInsertionRequested")
        [] complete /\ ~preheating ->
             Propose(r, IF s.kind = "ManualHolding" THEN "ManualHolding"
                        ELSE "Fermenting", "TargetQualified", t)
        [] ~interrupted /\ ~complete /\ r.qualifyingSince = None ->
             [UpdatePhaseData(r, "QualificationTrackingStarted", t) EXCEPT
                !.after.qualifyingSince = t]
        [] OTHER -> Result("NoTransition", r, t)

\* decideReachingTarget(), without the warning
DecideReachingTarget(r, signals, t) ==
  IF signals.progress \in PositiveEvidence
  THEN [Propose(r, "QualifyingTarget", "QualificationTrackingStarted", t)
          EXCEPT !.after.qualifyingSince = t]
  ELSE Result("NoTransition", r, t)

WaitExpired(r, s, t, priorTime) ==
  r.state = "WaitingForProduct" /\ Elapsed(t, r.enteredAt, s.wait, priorTime)

\* A mutant: every timed run is cooled.
CompleteTimedRunCools(r, s, t) ==
  Propose(r, "Cooling", "FermentationCompleted", t)

\* completeTimedRun()
CompleteTimedRun(r, s, t) ==
  IF s.mode = "FinishWithoutCooling"
  THEN Saying(Propose(r, "Completed", "FermentationCompleted", t),
              "RunCompleted")
  ELSE Propose(r, "Cooling", "FermentationCompleted", t)

\* decideAutomatic()
DecideAutomatic(r, s, signals, t, priorTime) ==
  CASE r.state = "Preheating" -> DecideQualification(r, s, signals, t)
    [] r.state = "ReachingTarget" ->
         WithWarning(DecideReachingTarget(r, signals, t), r, s, t)
    [] r.state = "QualifyingTarget" ->
         WithWarning(DecideQualification(r, s, signals, t), r, s, t)
    [] WaitExpired(r, s, t, priorTime) ->
         Saying(Propose(r, "Standby", "ProductWaitExpired", t), "RunAborted")
    [] /\ r.state = "Fermenting"
       /\ Elapsed(t, r.enteredAt, s.fermentation, priorTime) ->
         CompleteTimedRun(r, s, t)
    [] r.state = "Cooling" /\ signals.coolingTargetReached ->
         IF s.mode = "CoolThenFinish"
         THEN Saying(Propose(r, "Completed", "CoolingTargetReached", t),
                     "RunCompleted")
         ELSE Propose(r, "CoolHolding", "CoolingTargetReached", t)
    [] /\ r.state = "CoolHolding"
       /\ s.mode = "CoolAndHoldForDuration"
       /\ Elapsed(t, r.enteredAt, s.hold, priorTime) ->
         Saying(Propose(r, "Completed", "HoldDurationCompleted", t),
                "RunCompleted")
    [] OTHER -> Result("NoTransition", r, t)

\* The explicit events that lead to one fixed state: from, event, to, reason
\* and message.
EventTable ==
  {<<"Boot", "BootReady", "Standby", "BootCompleted", None>>,
   <<"Boot", "BootSafe", "SafeBoot", "SafeBootRequired", None>>,
   <<"Boot", "BootRestoreCompleted", "Completed", "CompletedRunRestored", None>>,
   <<"Boot", "BootRecoverRun", "RecoveryEvaluation", "RecoveryRequired", None>>,
   <<"Standby", "EnterServiceMode", "ServiceMode", "ServiceModeEntered", None>>,
   <<"ServiceMode", "ExitServiceMode", "Standby", "ServiceModeExited", None>>,
   <<"Preheating", "TargetChanged", "Preheating",
     "TargetChangedReevaluation", None>>,
   <<"ReachingTarget", "TargetChanged", "ReachingTarget",
     "TargetChangedReevaluation", None>>,
   <<"QualifyingTarget", "TargetChanged", "ReachingTarget",
     "TargetChangedReevaluation", None>>,
   <<"WaitingForProduct", "ProductInsertedConfirmed", "ReachingTarget",
     "ProductInserted", None>>,
   <<"CoolHolding", "FinishHoldConfirmed", "Completed", "HoldFinishedByUser",
     "RunCompleted">>,
   <<"ManualHolding", "FinishHoldConfirmed", "Completed",
     "HoldFinishedByUser", "RunCompleted">>,
   <<"Completed", "AcknowledgeCompletion", "Standby",
     "CompletionAcknowledged", None>>,
   <<"RecoveryEvaluation", "RecoveryReject", "Standby", "RecoveryRejected",
     None>>}
  \cup {<<state, "Abort", "Standby", "RunAborted", "RunAborted">> :
          state \in RunStates}

\* decideRecoveryEvent(), RecoveryResume
DecideResume(r, s, recovered, t, priorTime) ==
  IF \/ recovered = None \/ s = None
     \/ recovered.state \notin RunStates
     \/ ~ShapeValid(recovered)
     \/ ~TimeValid(recovered, t)
     \/ ~StateMatchesSnapshot(recovered.state, s)
     \/ WaitExpired(recovered, s, t, priorTime)
  THEN Result("Rejected", r, t)
  ELSE [Result("Proposed", r, t) EXCEPT
          !.reason = "RecoveryResumed",
          !.after = [recovered EXCEPT
             !.state = IF @ = "QualifyingTarget" THEN "ReachingTarget" ELSE @,
             !.enteredAt = IF recovered.state = "QualifyingTarget" THEN t
                           ELSE @,
             !.qualifyingSince = None,
             !.sequence = r.sequence + 1]]

\* decideExplicitEvent()
DecideExplicitEvent(r, s, event, recovered, t, priorTime) ==
  LET rows == {row \in EventTable : row[1] = r.state /\ row[2] = event}
  IN  IF rows # {}
      THEN LET row == CHOOSE x \in rows : TRUE
               d == InitializeTargetReach(Propose(r, row[3], row[4], t))
           IN  IF row[5] = None THEN d ELSE Saying(d, row[5])
      ELSE IF r.state = "Standby" /\ event = "StartRun" /\ s # None
      THEN InitializeTargetReach(
             Propose(r, IF s.preheat THEN "Preheating" ELSE "ReachingTarget",
                     "RunStarted", t))
      ELSE IF r.state = "RecoveryEvaluation" /\ event = "RecoveryResume"
      THEN DecideResume(r, s, recovered, t, priorTime)
      ELSE Result("Rejected", r, t)

\* decideProcessTransition(); event None asks for the automatic decision.
Decide(r, s, signals, event, recovered, t, priorTime) ==
  IF ~ShapeValid(r) THEN Result("InvalidInput", r, t)
  ELSE IF ~TimeValid(r, t) THEN Result("TimeWentBackwards", r, t)
  ELSE IF r.sequence = SequenceMax THEN Result("InvalidInput", r, t)
  ELSE IF signals.criticalFault /\ r.state \notin {"SafeBoot", "Fault"}
  THEN Saying(Propose(r, "Fault", "CriticalFault", t), "FaultEntered")
  ELSE IF \/ s # None /\ ~ValidSnapshot(s)
          \/ r.state \in RunStates /\ s = None
          \/ r.state \in RunStates /\ ~StateMatchesSnapshot(r.state, s)
  THEN Result("InvalidInput", r, t)
  ELSE IF event = None \/ WaitExpired(r, s, t, priorTime)
  THEN DecideAutomatic(r, s, signals, t, priorTime)
  ELSE DecideExplicitEvent(r, s, event, recovered, t, priorTime)

-----------------------------------------------------------------------------
(* applyProcessTransition() *)

\* validProposedTopology(): reason, from, to
Topology ==
  {<<"BootCompleted", "Boot", "Standby">>,
   <<"SafeBootRequired", "Boot", "SafeBoot">>,
   <<"CompletedRunRestored", "Boot", "Completed">>,
   <<"RecoveryRequired", "Boot", "RecoveryEvaluation">>,
   <<"RunStarted", "Standby", "Preheating">>,
   <<"RunStarted", "Standby", "ReachingTarget">>,
   <<"QualificationTrackingStarted", "Preheating", "Preheating">>,
   <<"QualificationTrackingStarted", "ReachingTarget", "QualifyingTarget">>,
   <<"QualificationReset", "Preheating", "Preheating">>,
   <<"QualificationReset", "QualifyingTarget", "ReachingTarget">>,
   <<"PreheatQualified", "Preheating", "WaitingForProduct">>,
   <<"ProductInserted", "WaitingForProduct", "ReachingTarget">>,
   <<"TargetChangedReevaluation", "Preheating", "Preheating">>,
   <<"TargetChangedReevaluation", "ReachingTarget", "ReachingTarget">>,
   <<"TargetChangedReevaluation", "QualifyingTarget", "ReachingTarget">>,
   <<"ProductWaitExpired", "WaitingForProduct", "Standby">>,
   <<"TargetReachTimeExceeded", "ReachingTarget", "ReachingTarget">>,
   <<"TargetReachTimeExceeded", "QualifyingTarget", "QualifyingTarget">>,
   <<"TargetQualified", "QualifyingTarget", "Fermenting">>,
   <<"TargetQualified", "QualifyingTarget", "ManualHolding">>,
   <<"FermentationCompleted", "Fermenting", "Cooling">>,
   <<"FermentationCompleted", "Fermenting", "Completed">>,
   <<"CoolingTargetReached", "Cooling", "CoolHolding">>,
   <<"CoolingTargetReached", "Cooling", "Completed">>,
   <<"HoldDurationCompleted", "CoolHolding", "Completed">>,
   <<"HoldFinishedByUser", "CoolHolding", "Completed">>,
   <<"HoldFinishedByUser", "ManualHolding", "Completed">>,
   <<"CompletionAcknowledged", "Completed", "Standby">>,
   <<"ServiceModeEntered", "Standby", "ServiceMode">>,
   <<"ServiceModeExited", "ServiceMode", "Standby">>,
   <<"RecoveryRejected", "RecoveryEvaluation", "Standby">>,
   <<"RecoveryEndedByExpiredWait", "RecoveryEvaluation", "Standby">>}
  \cup {<<"RunAborted", from, "Standby">> : from \in RunStates}
  \cup {<<"CriticalFault", from, "Fault">> :
          from \in States \ {"SafeBoot", "Fault"}}
  \cup {<<"RecoveryResumed", "RecoveryEvaluation", to>> : to \in RunStates}
  \cup {<<"RecoveryRejected", from, "Standby">> : from \in RunStates}
  \cup {<<"RecoveryReentryRequired", from, "RecoveryEvaluation">> :
          from \in RunStates}

\* The state a reason leads to with a given snapshot, where it is fixed.
TargetFor(reason, s, to) ==
  CASE reason = "RunStarted" ->
         IF s.preheat THEN "Preheating" ELSE "ReachingTarget"
    [] reason = "TargetQualified" ->
         IF s.kind = "ManualHolding" THEN "ManualHolding" ELSE "Fermenting"
    [] reason = "FermentationCompleted" ->
         IF s.mode = "FinishWithoutCooling" THEN "Completed" ELSE "Cooling"
    [] reason = "CoolingTargetReached" ->
         IF s.mode = "CoolThenFinish" THEN "Completed" ELSE "CoolHolding"
    [] OTHER -> to

\* transitionMatchesRunSnapshot()
MatchesSnapshot(d, s) ==
  LET used == {d.before.state, d.after.state} \cap RunStates
  IN  \/ d.reason = "CriticalFault"
      \/ /\ s # None => ValidSnapshot(s)
         /\ used # {} =>
              /\ s # None
              /\ \A state \in used : StateMatchesSnapshot(state, s)
              /\ d.after.state = TargetFor(d.reason, s, d.after.state)
              /\ d.reason = "HoldDurationCompleted" =>
                   s.mode = "CoolAndHoldForDuration"

Applicable(r, d, s) ==
  /\ d.status = "Proposed"
  /\ r = d.before
  /\ d.before.sequence # SequenceMax
  /\ d.after.sequence = d.before.sequence + 1
  /\ <<d.reason, d.before.state, d.after.state>> \in Topology
  /\ MatchesSnapshot(d, s)
  /\ ShapeValid(d.after)
  /\ TimeValid(d.after, d.time)

-----------------------------------------------------------------------------
(* What the run checkpoint accepts *)

TimedStates == {"WaitingForProduct", "Fermenting", "CoolHolding"}

\* validPendingRecoveryAnchorContext()
ValidAnchor(r, s, pr, an) ==
  IF r.state = "RecoveryEvaluation"
  THEN /\ an # None
       /\ an.state \in RunStates /\ StateMatchesSnapshot(an.state, s)
  ELSE an # None => /\ r.state \in TimedStates
                    /\ pr # None /\ pr.state = r.state /\ pr.upper = None

\* validPriorBootPhaseElapsedTag()
ValidPrior(r, pr, an) ==
  pr # None =>
    pr.state = (IF r.state = "RecoveryEvaluation" THEN an.state ELSE r.state)

\* validateRunPersistenceSnapshot()
Persistable(r, s, pr, an, t) ==
  /\ ShapeValid(r) /\ TimeValid(r, t)
  /\ IF s = None
     THEN r.state = "Standby" /\ pr = None /\ an = None
     ELSE /\ r.state \in RunStates \cup {"Completed", "RecoveryEvaluation",
                                         "Fault"}
          /\ StateMatchesSnapshot(r.state, s)
          /\ ValidAnchor(r, s, pr, an)
          /\ ValidPrior(r, pr, an)

\* writeSnapshotCore() succeeded: the new state of the run is durable and
\* applied.
Store(r, s, pr, an, t) ==
  /\ Persistable(r, s, pr, an, t)
  /\ runtime' = r /\ snapshot' = s /\ prior' = pr /\ anchor' = an

-----------------------------------------------------------------------------
(* Operations *)

Advance ==
  \E gap \in Gaps :
    /\ now + gap <= TimestampMax
    /\ now' = now + gap
    /\ UNCHANGED <<runVars, pending, loaded>>

\* establishBootCompletedStandby()
EstablishBootCompletedStandby ==
  LET d == Propose(runtime, "Standby", "BootCompleted", now)
  IN  /\ ~loaded
      /\ Applicable(runtime, d, None)
      /\ runtime' = d.after
      /\ UNCHANGED <<now, snapshot, prior, anchor, pending, loaded>>

\* A decision waits with the snapshot of the run it belongs to.
Await(d, s) ==
  /\ ~loaded
  /\ d.status = "Proposed"
  /\ Cardinality(pending) < MaxPending
  /\ pending' = pending \cup {[decision |-> d, snapshot |-> s]}
  /\ UNCHANGED <<now, runVars, loaded>>

\* The time of earlier boots that counts for the current phase
PriorTime(r, pr) == IF pr # None /\ pr.state = r.state THEN pr.lower ELSE 0

\* The automatic decision of a cycle (evaluateAndApplyTargetQualification()
\* is the caller for faults and the qualification phases)
DecideCycle ==
  \E signals \in Signals :
    Await(Decide(runtime, snapshot, signals, None, None, now,
                 PriorTime(runtime, prior)), snapshot)

\* An explicit event; a start brings the snapshot of the run to begin.
DecideCommand ==
  \E event \in Events \ {"StartRun", "RecoveryResume"} :
    Await(Decide(runtime, snapshot, NoSignals, event, None, now, 0), snapshot)

DecideStart ==
  \E s \in Snapshots :
    Await(Decide(runtime, s, NoSignals, "StartRun", None, now, 0), s)

\* eligibleTransition()
EligibleReasons ==
  {"QualificationTrackingStarted", "QualificationReset", "PreheatQualified",
   "ProductInserted", "ProductWaitExpired", "TargetReachTimeExceeded",
   "TargetQualified", "FermentationCompleted", "CoolingTargetReached",
   "HoldDurationCompleted", "HoldFinishedByUser", "CriticalFault"}

\* persistTransition(): the decision is applied to the run as it is now.
Committable(d, r, s, pr, an) ==
  /\ d.reason \in EligibleReasons
  /\ s # None
  /\ Applicable(r, d, s)
  /\ IF d.reason = "ProductWaitExpired"
     THEN Persistable(d.after, None, None, None, d.time)
     ELSE Persistable(d.after, s, pr, an, d.time)

\* A decision that no longer fits is refused and changes nothing.  It stays
\* at hand: callers may try again.
CommitTransition ==
  \E p \in pending :
    /\ ~loaded
    /\ Committable(p.decision, runtime, snapshot, prior, anchor)
    /\ runtime' = p.decision.after
    /\ IF p.decision.reason = "ProductWaitExpired"
       THEN snapshot' = None /\ prior' = None /\ anchor' = None
       ELSE UNCHANGED <<snapshot, prior, anchor>>
    /\ UNCHANGED <<now, pending, loaded>>

\* A mutant: the run of an acknowledged result is kept.
ClearingReasonsKeepResult == {"RunAborted", "RecoveryRejected"}

\* Commands after which no run is active (clearActiveRunState())
ClearingReasons ==
  {"RunAborted", "CompletionAcknowledged", "RecoveryRejected"}

\* What a command leaves of the run: snapshot, prior time and anchor
CommandOutcome(d, s, pr, an) ==
  IF d.reason \in ClearingReasons THEN <<None, None, None>> ELSE <<s, pr, an>>

\* isPersistedRunCommand(): written before it is applied.  Boot and service
\* mode are not part of the checkpoint.
PersistedReasons ==
  {"RunStarted", "TargetChangedReevaluation", "RunAborted",
   "CompletionAcknowledged", "RecoveryRejected"}

\* persistCommandInternal(): the command applies to the run as it is now, and
\* the checkpoint accepts what it leaves.
CommandCommits(d, r, s, pr, an) ==
  LET o == CommandOutcome(d, s, pr, an)
  IN  /\ Applicable(r, d, s)
      /\ d.reason \in PersistedReasons =>
           Persistable(d.after, o[1], o[2], o[3], d.time)

\* A command was decided for the whole run state and is stale once that has
\* changed.
CommitCommand ==
  \E p \in pending :
    LET d == p.decision
        o == CommandOutcome(d, p.snapshot, prior, anchor) IN
    /\ ~loaded
    /\ d.reason \notin EligibleReasons
    /\ snapshot = IF d.reason = "RunStarted" THEN None ELSE p.snapshot
    /\ CommandCommits(d, runtime, p.snapshot, prior, anchor)
    /\ runtime' = d.after
    /\ snapshot' = o[1] /\ prior' = o[2] /\ anchor' = o[3]
    /\ UNCHANGED <<now, pending, loaded>>

\* decideStop() with AbortAndCool and decideCompletion() with cooling: the run
\* ends and a manual run takes its place, in one command (installManualRun()).
StopAndCool ==
  LET event == IF runtime.state = "Completed" THEN "AcknowledgeCompletion"
               ELSE "Abort"
      stop == Decide(runtime, snapshot, NoSignals, event, None, now, 0)
  IN  /\ ~loaded
      /\ runtime.state \in RunStates \cup {"Completed"}
      /\ Applicable(runtime, stop, snapshot)
      /\ \E s \in {x \in Snapshots : x.kind = "ManualHolding"} :
           LET start == Decide(stop.after, s, NoSignals, "StartRun", None,
                               now, 0)
           IN  /\ Applicable(stop.after, start, s)
               /\ Store(start.after, s, None, None, now)
      /\ UNCHANGED <<now, pending, loaded>>

\* Persistence failed, or the caller gives the decision up.
Drop ==
  \E p \in pending :
    /\ pending' = pending \ {p}
    /\ UNCHANGED <<now, runVars, loaded>>

\* decideRunAdjustment() with a new duration: before Fermenting only the
\* snapshot changes, in it the phase is measured from now on.
AdjustDuration ==
  /\ ~loaded
  /\ runtime.state \in {"Preheating", "ReachingTarget", "QualifyingTarget",
                        "Fermenting"}
  /\ \E s \in Snapshots :
       /\ s.fermentation \notin {None, snapshot.fermentation}
       /\ s = [snapshot EXCEPT !.fermentation = s.fermentation]
       /\ IF runtime.state = "Fermenting"
          THEN Store([runtime EXCEPT !.enteredAt = now], s,
                     [state |-> "Fermenting", lower |-> 0, upper |-> 0],
                     None, now)
          ELSE Store(runtime, s, prior, anchor, now)
  /\ UNCHANGED <<now, pending, loaded>>

\* applySensorRoleChangeQualificationReset(): the control sensor changed
SensorRoleReset(r, s, t) == Decide(r, s, NoSignals, None, None, t, 0)

ChangeSensorRole ==
  LET d == SensorRoleReset(runtime, snapshot, now)
  IN  /\ ~loaded
      /\ runtime.state = "QualifyingTarget"
      /\ d.reason = "QualificationReset"
      /\ Applicable(runtime, d, snapshot)
      /\ Store(d.after, snapshot, prior, anchor, now)
      /\ UNCHANGED <<now, pending, loaded>>

-----------------------------------------------------------------------------
(* Restart and recovery: the persisted run meets a new clock *)

\* restoreRunPersistenceSnapshotInto() for a checkpoint with a run; without
\* one the device boots into an empty state (publishStandby()).
Restart ==
  /\ now' = 0
  /\ pending' = {}
  /\ loaded' = (snapshot # None)
  /\ runtime' = IF snapshot # None THEN runtime ELSE Idling("Boot", 0, 0)
  /\ UNCHANGED <<snapshot, prior, anchor>>

\* rebasedRecoveredState()
Rebased(r, t) ==
  LET state == IF r.state = "QualifyingTarget" THEN "ReachingTarget"
               ELSE r.state
  IN  [r EXCEPT !.state = state, !.enteredAt = t, !.qualifyingSince = None,
                !.warned = FALSE,
                !.reachStartedAt = IF state = "ReachingTarget" THEN t ELSE 0]

\* What the clocks say about the time a phase ran before this boot
RecoveryBounds ==
  {b \in [lower: Outages, upper: Outages \cup {None}] :
     b.upper # None => b.lower <= b.upper}

\* evaluateRecoveryTimeVerdict()
Verdict(b, limit) ==
  IF b.lower >= limit THEN "DefinitelyExpired"
  ELSE IF b.upper # None /\ b.upper < limit THEN "DefinitelyStillValid"
  ELSE "Uncertain"

\* A mutant: a restored result keeps the times of the earlier boot.
RestoreFinishedAsStored ==
  /\ loaded
  /\ runtime.state \in {"Completed", "Fault"}
  /\ loaded' = FALSE
  /\ UNCHANGED <<now, runtime, snapshot, prior, anchor, pending>>

\* activateLoadedRun(): a restored result or fault needs no recovery ...
RestoreFinished ==
  /\ loaded
  /\ runtime.state \in {"Completed", "Fault"}
  /\ runtime' = IF runtime.state = "Completed"
                THEN [runtime EXCEPT !.enteredAt = now] ELSE runtime
  /\ loaded' = FALSE
  /\ UNCHANGED <<now, snapshot, prior, anchor, pending>>

\* ... and a recovery that was not decided is refreshed.
CanRefreshRecovery ==
  anchor # None /\ Persistable(runtime, snapshot, prior, anchor, now)

RefreshRecovery ==
  /\ loaded
  /\ runtime.state = "RecoveryEvaluation"
  /\ CanRefreshRecovery
  /\ loaded' = FALSE
  /\ UNCHANGED <<now, runVars, pending>>

\* The run ends with its recovery.
EndRecovery(r, s, reason) ==
  LET d == Propose(r, "Standby", reason, now)
  IN  /\ Applicable(r, d, s)
      /\ Store(d.after, None, None, None, now)

ResumeDecision(r, s, original, t, priorTime) ==
  Decide(r, s, NoSignals, "RecoveryResume", Rebased(original, t), t,
         priorTime)

\* The resumed phase keeps the time that has passed, and the anchor while
\* that time has no upper bound (recoveryTimeResolvedAtResume()).
Resume(r, s, original, b, priorTime) ==
  LET d == ResumeDecision(r, s, original, now, priorTime)
      timed == d.after.state \in TimedStates
  IN  /\ Applicable(r, d, s)
      /\ Store(d.after, s,
               IF timed THEN [state |-> d.after.state, lower |-> b.lower,
                              upper |-> b.upper] ELSE None,
               IF timed /\ b.upper = None THEN original ELSE None, now)

\* activateLoadedRun() for a running phase: hop 1 into RecoveryEvaluation,
\* and hop 2 to where the run goes on or ends, in one write.
ActivateLoadedRun ==
  LET hop1 == Propose(runtime, "RecoveryEvaluation",
                      "RecoveryReentryRequired", now)
      newAnchor == IF anchor # None THEN anchor ELSE runtime
      waiting == runtime.state = "WaitingForProduct"
  IN  /\ loaded
      /\ runtime.state \in RunStates
      /\ Applicable(runtime, hop1, snapshot)
      /\ \E b \in RecoveryBounds, sensorsAllow \in BOOLEAN :
           LET verdict == IF waiting THEN Verdict(b, snapshot.wait) ELSE None
               priorTime == IF waiting THEN b.upper ELSE b.lower
               hop2 == ResumeDecision(hop1.after, snapshot, runtime, now,
                                      priorTime)
           IN  CASE verdict = "DefinitelyExpired" ->
                      EndRecovery(hop1.after, snapshot,
                                  "RecoveryEndedByExpiredWait")
                 [] verdict = "Uncertain" ->
                      Store(hop1.after, snapshot, prior, newAnchor, now)
                 [] OTHER ->
                      IF sensorsAllow
                      THEN \/ Resume(hop1.after, snapshot, runtime, b,
                                     priorTime)
                           \/ /\ waiting
                              /\ ~Applicable(hop1.after, hop2, snapshot)
                              /\ Store(hop1.after, snapshot, prior, newAnchor,
                                       now)
                      ELSE EndRecovery(hop1.after, snapshot,
                                       "RecoveryRejected")
      /\ loaded' = FALSE
      /\ UNCHANGED <<now, pending>>

OpenRecovery ==
  /\ ~loaded
  /\ runtime.state = "RecoveryEvaluation"
  /\ snapshot # None /\ anchor # None
  /\ anchor.state = "WaitingForProduct"
  /\ UNCHANGED <<now, pending, loaded>>

\* reevaluateRecoveryEvaluation(): the clocks decide.
ReevaluateRecovery ==
  /\ OpenRecovery
  /\ \E b \in RecoveryBounds, sensorsAllow \in BOOLEAN :
       LET verdict == Verdict(b, snapshot.wait) IN
       \/ /\ verdict = "DefinitelyExpired"
          /\ EndRecovery(runtime, snapshot, "RecoveryEndedByExpiredWait")
       \/ /\ verdict = "DefinitelyStillValid" /\ ~sensorsAllow
          /\ EndRecovery(runtime, snapshot, "RecoveryRejected")
       \/ /\ verdict = "DefinitelyStillValid" /\ sensorsAllow
          /\ Resume(runtime, snapshot, anchor, b, b.upper)

\* resolveRecoveryOutcome(): the user decides what the clocks cannot.
ResolveRecovery ==
  /\ OpenRecovery
  /\ \E b \in RecoveryBounds, sensorsAllow, crossed \in BOOLEAN :
       /\ Verdict(b, snapshot.wait) = "Uncertain"
       /\ \/ crossed /\ EndRecovery(runtime, snapshot,
                                    "RecoveryEndedByExpiredWait")
          \/ /\ ~crossed /\ ~sensorsAllow
             /\ EndRecovery(runtime, snapshot, "RecoveryRejected")
          \/ /\ ~crossed /\ sensorsAllow
             /\ Resume(runtime, snapshot, anchor, b, b.lower)

\* ... and in a phase that was resumed
ResolveCompletion ==
  LET limit == IF runtime.state = "Fermenting" THEN snapshot.fermentation
               ELSE snapshot.hold
      d == IF runtime.state = "Fermenting"
           THEN CompleteTimedRun(runtime, snapshot, now)
           ELSE Propose(runtime, "Completed", "HoldDurationCompleted", now)
  IN  /\ ~loaded
      /\ runtime.state \in {"Fermenting", "CoolHolding"}
      /\ prior # None /\ prior.state = runtime.state /\ prior.upper # None
      /\ limit # None
      /\ Verdict(prior, limit) = "Uncertain"
      /\ Applicable(runtime, d, snapshot)
      /\ Store(d.after, snapshot, None, None, now)
      /\ UNCHANGED <<now, pending, loaded>>

Next ==
  \/ Advance
  \/ EstablishBootCompletedStandby
  \/ DecideCycle \/ DecideCommand \/ DecideStart
  \/ CommitTransition \/ CommitCommand \/ StopAndCool \/ Drop
  \/ AdjustDuration \/ ChangeSensorRole
  \/ Restart
  \/ RestoreFinished \/ RefreshRecovery \/ ActivateLoadedRun
  \/ ReevaluateRecovery \/ ResolveRecovery \/ ResolveCompletion

Spec == Init /\ [][Next]_vars

-----------------------------------------------------------------------------
(* Properties *)

Runtimes ==
  [state: States, enteredAt: Nat, reachStartedAt: Nat,
   qualifyingSince: Nat \cup {None}, warned: BOOLEAN,
   sequence: 0 .. SequenceMax]

Priors == [state: RunStates, lower: Nat, upper: Nat \cup {None}]

ASSUME NoneAssumption == None \notin Events /\ None \notin Priors

\* The variables have their types; a decision waits only when it proposes.
TypeOK ==
  /\ now \in 0 .. TimestampMax
  /\ runtime \in Runtimes
  /\ snapshot \in Snapshots \cup {None}
  /\ prior \in Priors \cup {None}
  /\ anchor \in Runtimes \cup {None}
  /\ loaded \in BOOLEAN
  /\ \A p \in pending : /\ p.decision.status = "Proposed"
                        /\ p.decision.before \in Runtimes
                        /\ p.decision.after \in Runtimes
                        /\ p.snapshot \in Snapshots \cup {None}

\* decideProcessTransition() and applyProcessTransition() keep tables of
\* their own of what may follow what.  They agree: whatever is decided for
\* the state the machine is in can be applied, so no decision is persisted
\* and then refused (PersistenceCommittedApplyFailed).
DecisionsApply ==
  ~loaded =>
    /\ \A signals \in Signals :
         LET d == Decide(runtime, snapshot, signals, None, None, now,
                         PriorTime(runtime, prior))
         IN  d.status = "Proposed" => Applicable(runtime, d, snapshot)
    /\ \A event \in Events \ {"StartRun", "RecoveryResume"} :
         LET d == Decide(runtime, snapshot, NoSignals, event, None, now, 0)
         IN  d.status = "Proposed" => Applicable(runtime, d, snapshot)
    /\ \A s \in Snapshots :
         LET d == Decide(runtime, s, NoSignals, "StartRun", None, now, 0)
         IN  d.status = "Proposed" => Applicable(runtime, d, s)

FaultDecision(r, s, t) ==
  Decide(r, s, [NoSignals EXCEPT !.criticalFault = TRUE], None, None, t, 0)

CanFault ==
  ~loaded /\ runtime.state \notin {"SafeBoot", "Fault"}
          /\ runtime.sequence < SequenceMax

\* A critical fault always leads to an applicable decision, whatever has
\* become of the run snapshot: the times of an activated state never lie in
\* the future of this boot's clock, and neither function asks for the run.
FaultNeverBlocked ==
  CanFault => \A s \in Snapshots \cup {None} :
                LET d == FaultDecision(runtime, s, now)
                IN  d.after.state = "Fault" /\ Applicable(runtime, d, s)

\* What the user commands is never refused by the checkpoint: an abort, an
\* acknowledgement, a new target and the start of the next run can all be
\* committed when they are decided.  No recovery field of an earlier phase or
\* an earlier run, and no run that has ended, is left to stand in the way
\* (validateRunPersistenceSnapshot() in persistCommandInternal()).
CommandsCommit ==
  ~loaded =>
    /\ \A event \in {"Abort", "AcknowledgeCompletion", "TargetChanged"} :
         LET d == Decide(runtime, snapshot, NoSignals, event, None, now, 0)
         IN  d.reason \in PersistedReasons =>
               CommandCommits(d, runtime, snapshot, prior, anchor)
    /\ \A s \in Snapshots :
         LET d == Decide(runtime, s, NoSignals, "StartRun", None, now, 0)
         IN  d.reason \in PersistedReasons =>
               CommandCommits(d, runtime, s, prior, anchor)

\* A fermentation is not completed before its time: neither a decision from
\* before the duration was changed nor time counted twice over a restart
\* ends it.  The time of earlier boots counts with its upper bound, which is
\* what a user may assume.
CompletionNotEarly ==
  [][runtime.state = "Fermenting" /\ runtime'.state \in {"Cooling", "Completed"}
       => now - runtime.enteredAt
            + (IF prior = None THEN 0
               ELSE IF prior.upper = None THEN prior.lower ELSE prior.upper)
          >= snapshot.fermentation]_vars

=============================================================================
