-------------------------- MODULE SensorSelection --------------------------
(***************************************************************************)
(* Which sensor a run is controlled by, and whether the Peltier element is *)
(* permitted: applySensorSelectionDecision() and its phases, the start     *)
(* matrix of run_commands, the persistence of a decision                   *)
(* (persistSensorSelection(), decideApplySensorSelectionAction()) and the  *)
(* revalidation after a restart (computeRestartSensorSelection()).         *)
(*                                                                         *)
(* A decision is taken on a view of the state and written later; in        *)
(* between the user may act, a write may fail and the power may go.  A     *)
(* sensor is usable or not (the quality SensorChain derives).  Rejections  *)
(* that change nothing (a wrong revision, a command under a pending safety *)
(* event) are the steps the model does not take.                           *)
(***************************************************************************)
EXTENDS Integers

CONSTANTS
  None,             \* std::nullopt
  FallbackDelay,    \* fallbackDelaySeconds, in ticks
  ProfileRevisions, \* thermalCompatibility.profileRevision
  RevisionMax,      \* the largest runRevision; the uint32 limit
  TroubleMax        \* bound on failed writes and power losses

ASSUME SensorSelectionConstants ==
  /\ FallbackDelay \in Nat /\ RevisionMax \in Nat \ {0} /\ TroubleMax \in Nat
  /\ ProfileRevisions \subseteq Nat

VARIABLES
  valid,     \* role -> its sensor is usable
  program,   \* SensorSelectionProgramContext of the run, or None
  life,      \* "NoRun", "Running", "Blocked" (the store is), "Off", "Recovering"
  rt,        \* SensorSelectionRuntimeState
  mode,      \* activeRunSensorMode
  origin,    \* PersistedSensorSelectionState::provenance
  revision,  \* runRevision
  pending,   \* a decided mutation that is not written yet, or None
  flash,     \* what the last checkpoint holds of all this
  trouble    \* troubles still to come

vars == <<valid, program, life, rt, mode, origin, revision, pending, flash, trouble>>

Roles == {"air", "product", "cooling"}

Phases == {"NoActiveRun", "NormalProduct", "NormalAir", "ProductFailureDetected",
           "UserDecisionRequired", "AirFallbackActive", "ReturnValidationPending",
           "SafeLocked", "RestartRevalidationPending"}

Policies == {"StopToSafeState", "WaitForUser", "FallbackToAirAfterTimeout"}
Preferences == {"ProductIfAvailableElseAir", "AirProductOptional", "ProductRequired",
                "AirOnly"}
Strategies == {"RemainOnAirUntilEnd", "ManualReturnToProduct",
               "AutomaticValidatedReturnToProduct"}

\* validateSensorFailureCrossFields()
Programs ==
  {p \in [policy : Policies, preference : Preferences, strategy : Strategies] :
     /\ ~(p.preference = "ProductRequired" /\ p.policy = "FallbackToAirAfterTimeout")
     /\ p.preference = "AirOnly" => /\ p.strategy = "RemainOnAirUntilEnd"
                                    /\ p.policy = "FallbackToAirAfterTimeout"}

\* CrossRolePlausibilityContext beyond the three sensors: "Open" is evidence
\* that is unavailable, stale or lacks a control demand.
Thermal == {"Compatible", "Incompatible", "Open", "Malformed"}

Actions == {"ContinueWithAir", "RecheckProduct", "ReturnToProduct"}

\* RunSensorMode, SensorSelectionProvenance, SensorSelectionDecisionCause
Modes == {"Air", "Product"}
Provenances == {"InitialSelection", "FallbackActive", "ReturnedToProduct"}
Causes == {"ProductFailureBlock", "FallbackToAir", "ManualUserFallback",
           "AutomaticValidatedReturn", "ManualUserReturn", "RecoveryRevalidation",
           "SafeStateEntry", "ReturnValidationAborted"}

ASSUME SensorSelectionNone == None \notin Modes \cup Causes

Runtime(phase, perm) ==
  [phase |-> phase, perm |-> perm, wait |-> None, entered |-> FALSE,
   profile |-> None, rearm |-> FALSE]

Idle == Runtime("NoActiveRun", "Blocked")

FixedUsable == valid["air"] /\ valid["cooling"]
AllUsable == FixedUsable /\ valid["product"]

\* validRuntimeCombination()
ValidRuntime(r) ==
  /\ r.phase = "NoActiveRun" => r = Idle
  /\ r.phase \in {"SafeLocked", "ProductFailureDetected", "UserDecisionRequired",
                  "RestartRevalidationPending"} => r.perm = "Blocked"
  /\ r.entered => r.phase = "ReturnValidationPending"
  /\ r.profile # None => r.phase \in {"ReturnValidationPending", "AirFallbackActive"}
  /\ r.wait # None => r.phase = "ProductFailureDetected"
  /\ r.rearm => r.phase = "AirFallbackActive"

-----------------------------------------------------------------------------
(* The phases.  A proposal is the new runtime and mode and its cause; a     *)
(* cause makes it one to be persisted.                                      *)

Proposal(r, m, cause) == [rt |-> r, mode |-> m, cause |-> cause]
Stay == Proposal(rt, mode, None)

SafeLocked == Proposal(Runtime("SafeLocked", "Blocked"), mode, "SafeStateEntry")
BackToProduct(cause) == Proposal(Runtime("NormalProduct", "Allowed"), "Product", cause)
OntoAir(cause) == Proposal(Runtime("AirFallbackActive", "Allowed"), "Air", cause)
Permitted(perm, cause) == Proposal([rt EXCEPT !.perm = perm], mode, cause)

EvaluateNormalProduct ==
  IF ~valid["air"] /\ ~valid["cooling"] THEN SafeLocked
  ELSE IF ~valid["product"] /\ program.policy = "StopToSafeState"
  THEN SafeLocked
  ELSE IF ~valid["product"] /\ program.policy = "WaitForUser"
  THEN Proposal(Runtime("UserDecisionRequired", "Blocked"), mode, "ProductFailureBlock")
  ELSE IF ~valid["product"]
  THEN Proposal([Runtime("ProductFailureDetected", "Blocked") EXCEPT !.wait = 0], mode,
                "ProductFailureBlock")
  ELSE IF ~FixedUsable /\ rt.perm = "Allowed"
  THEN Permitted("Blocked", "ProductFailureBlock")
  ELSE IF FixedUsable /\ rt.perm = "Blocked"
  THEN Permitted("Allowed", "RecoveryRevalidation")
  ELSE Stay

\* Mutant: a run on air is not blocked by the cooling sensor.
EvaluateNormalAirUncooled ==
  IF ~valid["air"] /\ rt.perm = "Allowed"
  THEN Permitted("Blocked", "ProductFailureBlock")
  ELSE IF FixedUsable /\ rt.perm = "Blocked"
  THEN Permitted("Allowed", "RecoveryRevalidation")
  ELSE Stay

EvaluateNormalAir ==
  IF ~FixedUsable /\ rt.perm = "Allowed"
  THEN Permitted("Blocked", "ProductFailureBlock")
  ELSE IF FixedUsable /\ rt.perm = "Blocked"
  THEN Permitted("Allowed", "RecoveryRevalidation")
  ELSE Stay

\* Mutant: every cycle takes the failure for a new one.
EvaluateProductFailureDetectedAnew ==
  IF ~valid["air"] /\ ~valid["cooling"] THEN SafeLocked
  ELSE IF AllUsable THEN BackToProduct("RecoveryRevalidation")
  ELSE IF valid["product"] \/ rt.wait < FallbackDelay
  THEN Proposal([rt EXCEPT !.wait = 0], mode, None)
  ELSE IF ~FixedUsable THEN SafeLocked
  ELSE OntoAir("FallbackToAir")

\* Only the failure of both fixed sensors leaves this phase for SafeLocked
\* before the delay is over.
EvaluateProductFailureDetected ==
  IF ~valid["air"] /\ ~valid["cooling"] THEN SafeLocked
  ELSE IF AllUsable THEN BackToProduct("RecoveryRevalidation")
  ELSE IF valid["product"] \/ rt.wait < FallbackDelay THEN Stay
  ELSE IF ~FixedUsable THEN SafeLocked
  ELSE OntoAir("FallbackToAir")

EvaluateUserDecisionRequired ==
  IF ~FixedUsable THEN SafeLocked
  ELSE IF valid["product"] THEN BackToProduct("RecoveryRevalidation")
  ELSE Stay

\* The return is validated again only on a new profile or after the product
\* sensor has failed once more.
ReturnValidation(profile) ==
  Proposal([Runtime("ReturnValidationPending", rt.perm) EXCEPT
              !.entered = TRUE, !.profile = profile], mode, None)

EvaluateAirFallbackActive(thermal, profile) ==
  IF ~FixedUsable THEN SafeLocked
  ELSE IF ~valid["product"]
  THEN Proposal([rt EXCEPT !.rearm = TRUE], mode, None)
  ELSE IF /\ program.strategy = "AutomaticValidatedReturnToProduct"
          /\ rt.profile # profile \/ rt.rearm
          /\ thermal # "Malformed"
  THEN ReturnValidation(profile)
  ELSE Stay

\* An aborted validation leaves its profile behind.
EvaluateReturnValidationPending(thermal) ==
  IF ~FixedUsable THEN SafeLocked
  ELSE IF ~valid["product"] \/ thermal = "Incompatible"
  THEN Proposal([Runtime("AirFallbackActive", rt.perm) EXCEPT
                   !.profile = rt.profile, !.rearm = ~valid["product"]],
                mode, "ReturnValidationAborted")
  ELSE IF thermal = "Compatible"
  THEN BackToProduct("AutomaticValidatedReturn")
  ELSE Stay

\* evaluatePhase() without a user action
Evaluated(thermal, profile) ==
  CASE rt.phase = "NormalProduct" -> EvaluateNormalProduct
    [] rt.phase = "NormalAir" -> EvaluateNormalAir
    [] rt.phase = "ProductFailureDetected" -> EvaluateProductFailureDetected
    [] rt.phase = "UserDecisionRequired" -> EvaluateUserDecisionRequired
    [] rt.phase = "AirFallbackActive" -> EvaluateAirFallbackActive(thermal, profile)
    [] rt.phase = "ReturnValidationPending" -> EvaluateReturnValidationPending(thermal)
    [] OTHER -> Stay

\* continueWithAirFromProductPhase()
ContinueWithAir ==
  IF program.preference # "ProductRequired" /\ FixedUsable
  THEN OntoAir("ManualUserFallback") ELSE Stay

\* A RecheckProduct in AirFallbackActive: without complete evidence it opens
\* a validation, in RAM only.
RecheckOnAir(thermal, profile) ==
  IF ~valid["product"] \/ program.strategy # "AutomaticValidatedReturnToProduct"
  THEN Stay
  ELSE IF thermal \in {"Malformed", "Incompatible"} THEN Stay
  ELSE IF thermal = "Compatible"
  THEN BackToProduct("AutomaticValidatedReturn")
  ELSE [ReturnValidation(profile) EXCEPT !.rt.rearm = rt.rearm]

\* evaluatePhase() with one; a rejection is Stay.
UserEvaluated(action, thermal, profile) ==
  LET failed == rt.phase \in {"ProductFailureDetected", "UserDecisionRequired"}
      onAir == rt.phase = "AirFallbackActive"
      unsafe == IF rt.phase = "ProductFailureDetected"
                THEN ~valid["air"] /\ ~valid["cooling"] ELSE ~FixedUsable
  IN IF ~failed /\ ~onAir THEN Stay
     ELSE IF action = "ContinueWithAir"
     THEN IF failed THEN ContinueWithAir ELSE Stay
     ELSE IF unsafe THEN SafeLocked
     ELSE IF failed /\ action = "RecheckProduct"
     THEN IF AllUsable THEN BackToProduct("RecoveryRevalidation") ELSE Stay
     ELSE IF onAir /\ action = "RecheckProduct"
     THEN RecheckOnAir(thermal, profile)
     ELSE IF onAir /\ program.strategy = "ManualReturnToProduct" /\ valid["product"]
     THEN BackToProduct("ManualUserReturn")
     ELSE Stay

-----------------------------------------------------------------------------
(* Decisions, their persistence and the user                                *)

\* Mutant: only the automatic return is remembered as one.
OriginAfterAutomaticOnly(cause) ==
  CASE cause \in {"FallbackToAir", "ManualUserFallback"} -> "FallbackActive"
    [] cause = "AutomaticValidatedReturn" -> "ReturnedToProduct"
    [] OTHER -> origin

OriginAfter(cause) ==
  CASE cause \in {"FallbackToAir", "ManualUserFallback"} -> "FallbackActive"
    [] cause \in {"AutomaticValidatedReturn", "ManualUserReturn"} -> "ReturnedToProduct"
    [] OTHER -> origin

\* SensorSelectionStateMutation of a proposal to be persisted
Mutation(p) ==
  [rt |-> p.rt, mode |-> p.mode, origin |-> OriginAfter(p.cause),
   revision |-> revision + 1]

Stored(m) ==
  [mode |-> m.mode, origin |-> m.origin, revision |-> m.revision, program |-> program]

Apply(m) ==
  /\ rt' = m.rt /\ mode' = m.mode /\ origin' = m.origin /\ revision' = m.revision

\* applySensorSelectionDecision() in a control cycle: a change in RAM only is
\* applied at once, any other waits for its checkpoint.
Decide(thermal, profile) ==
  LET p == Evaluated(thermal, profile)
  IN /\ life \in {"Running", "Blocked"} /\ pending = None
     /\ ValidRuntime(rt)
     /\ IF p.cause = None
        THEN rt' = p.rt /\ UNCHANGED pending
        ELSE /\ revision < RevisionMax
             /\ pending' = Mutation(p) /\ UNCHANGED rt
     /\ UNCHANGED <<valid, program, life, mode, origin, revision, flash, trouble>>

\* persistSensorSelection(): a decision on an older revision is dropped.
Fresh(m) == m.revision = revision + 1

Fails == trouble > 0 /\ trouble' = trouble - 1

\* writeSnapshot(): the checkpoint is written, the write fails and nothing
\* changes, or its outcome is unknown and the store blocks.
Written(m) ==
  \/ /\ flash' = Stored(m) /\ Apply(m) /\ UNCHANGED <<life, trouble>>
  \/ /\ Fails /\ UNCHANGED <<flash, rt, mode, origin, revision, life>>
  \/ /\ Fails /\ flash' \in {flash, Stored(m)} /\ life' = "Blocked"
     /\ UNCHANGED <<rt, mode, origin, revision>>

Persist ==
  /\ pending # None
  /\ pending' = None
  /\ IF life = "Running" /\ Fresh(pending) THEN Written(pending)
     ELSE UNCHANGED <<flash, rt, mode, origin, revision, life, trouble>>
  /\ UNCHANGED <<valid, program>>

\* decideApplySensorSelectionAction() and persistCommand(): decided and
\* written in one call, a RAM-only change too.
UserAct(action, thermal, profile) ==
  LET p == UserEvaluated(action, thermal, profile)
      m == IF p.cause = None
           THEN [Mutation(p) EXCEPT !.revision = revision, !.origin = origin]
           ELSE Mutation(p)
  IN /\ life = "Running" /\ p # Stay
     /\ ValidRuntime(rt)
     /\ p.cause # None => revision < RevisionMax
     /\ Written(m)
     /\ UNCHANGED <<valid, program, pending>>

-----------------------------------------------------------------------------
(* Start, end, loss of power and recovery                                   *)

\* resolveProgramStartSensorMode(): the effective mode, or None
StartMode(p, requested) ==
  IF p.preference = "AirOnly" THEN IF requested = "Air" THEN "Air" ELSE None
  ELSE IF p.preference = "ProductRequired"
  THEN IF requested = "Product" /\ valid["product"] THEN "Product" ELSE None
  ELSE IF requested = "Air" THEN "Air"
  ELSE IF valid["product"] THEN "Product"
  ELSE IF p.preference = "ProductIfAvailableElseAir" THEN "Air"
  ELSE None

\* startSensorSelectionOutcome() of a program; air and cooling are checked.
Start(p, requested) ==
  LET m == StartMode(p, requested)
      substituted == m = "Air" /\ requested = "Product"
      phase == CASE m = "Product" -> "NormalProduct"
                 [] substituted -> "AirFallbackActive"
                 [] OTHER -> "NormalAir"
      from == IF substituted THEN "FallbackActive" ELSE "InitialSelection"
  IN /\ life = "NoRun" /\ FixedUsable /\ m # None /\ revision < RevisionMax
     /\ life' = "Running" /\ program' = p
     /\ rt' = Runtime(phase, "Allowed") /\ mode' = m /\ origin' = from
     /\ revision' = revision + 1
     /\ flash' = [mode |-> m, origin |-> from, revision |-> revision + 1, program |-> p]
     /\ UNCHANGED <<valid, pending, trouble>>

NoRun ==
  /\ life' = "NoRun" /\ rt' = Idle /\ mode' = None /\ origin' = None /\ flash' = None
  /\ program' = None /\ UNCHANGED pending

\* The run ends: clearActiveRunState().
End ==
  /\ life = "Running" /\ pending = None
  /\ NoRun
  /\ UNCHANGED <<valid, revision, trouble>>

PowerLoss ==
  /\ life # "Off" /\ Fails
  /\ life' = "Off" /\ pending' = None
  /\ rt' = Idle /\ mode' = None /\ origin' = None /\ program' = None
  /\ UNCHANGED <<valid, revision, flash>>

\* restoreRunPersistenceSnapshotInto(): nothing is permitted before the
\* sensors have been looked at again.
Boot ==
  /\ life = "Off"
  /\ IF flash = None
     THEN life' = "NoRun" /\ UNCHANGED <<rt, mode, origin, program, revision>>
     ELSE /\ life' = "Recovering"
          /\ rt' = Runtime("RestartRevalidationPending", "Blocked")
          /\ mode' = flash.mode /\ origin' = flash.origin /\ program' = flash.program
          /\ revision' = flash.revision
  /\ UNCHANGED <<valid, pending, flash, trouble>>

\* computeRestartSensorSelection()
RestartAllowed(f, v) ==
  /\ f.origin = "FallbackActive" => f.mode = "Air"
  /\ f.origin = "ReturnedToProduct" => f.mode = "Product"
  /\ f.program.preference = "ProductRequired" => f.mode = "Product"
  /\ f.program.preference = "AirOnly" => f.mode = "Air"
  /\ v["air"] /\ v["cooling"] /\ (f.mode = "Product" => v["product"])

RestartPhase(f) ==
  IF f.mode = "Product" THEN "NormalProduct"
  ELSE IF f.origin = "FallbackActive" THEN "AirFallbackActive"
  ELSE "NormalAir"

\* The run is resumed with its sensors proven, or rejected and over.
Recover ==
  /\ life = "Recovering"
  /\ IF RestartAllowed(flash, valid)
     THEN /\ life' = "Running" /\ rt' = Runtime(RestartPhase(flash), "Allowed")
          /\ UNCHANGED <<mode, origin, flash, program, pending>>
     ELSE NoRun
  /\ UNCHANGED <<valid, revision, trouble>>

-----------------------------------------------------------------------------

\* A sensor becomes usable or ceases to be.
SensorChanges ==
  /\ \E r \in Roles : valid' = [valid EXCEPT ![r] = ~@]
  /\ UNCHANGED <<program, life, rt, mode, origin, revision, pending, flash, trouble>>

Tick ==
  /\ rt.wait # None /\ rt.wait < FallbackDelay
  /\ rt' = [rt EXCEPT !.wait = @ + 1]
  /\ pending' = IF pending = None \/ pending.rt.wait = None THEN pending
                ELSE [pending EXCEPT !.rt.wait = IF @ < FallbackDelay THEN @ + 1 ELSE @]
  /\ UNCHANGED <<valid, program, life, mode, origin, revision, flash, trouble>>

Init ==
  /\ valid = [r \in Roles |-> TRUE]
  /\ program = None
  /\ life = "NoRun" /\ rt = Idle /\ mode = None /\ origin = None
  /\ revision = 0 /\ pending = None /\ flash = None /\ trouble = TroubleMax

Next ==
  \/ \E t \in Thermal, p \in ProfileRevisions : Decide(t, p)
  \/ Persist
  \/ \E a \in Actions, t \in Thermal, p \in ProfileRevisions : UserAct(a, t, p)
  \/ \E p \in Programs, m \in Modes : Start(p, m)
  \/ End
  \/ PowerLoss
  \/ Boot
  \/ Recover
  \/ SensorChanges
  \/ Tick

\* An ASSUMPTION about the composition to come, not a fact of this commit: a
\* control cycle calls the automatic decision and persists it, again and
\* again.  FermentationApplication::update() and the loop of app_main() do not
\* run that cycle yet; the sensor sources are only provided for it.
AssumedCycle ==
  /\ WF_vars(Persist) /\ WF_vars(Tick)
  /\ WF_vars(\E t \in Thermal, p \in ProfileRevisions : Decide(t, p))

Spec == Init /\ [][Next]_vars /\ AssumedCycle

=============================================================================
