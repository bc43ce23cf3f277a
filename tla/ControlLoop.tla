----------------------------- MODULE ControlLoop -----------------------------
(***************************************************************************)
(* TemperatureControlApplicationOrchestrator with the parts it drives: the *)
(* committed process state, the TemperatureController as the producer of   *)
(* requests and consumer of their feedback, and the ActuatorPlanner.       *)
(*                                                                         *)
(* The orchestrator hands every evaluation to exactly one planner tick,    *)
(* returns the planner's feedback with the next evaluation, and stops the  *)
(* planner at lifecycle boundaries.  Its calls interleave freely: several  *)
(* ticks per evaluation, evaluations refused because one is outstanding,   *)
(* and process transitions committed between an evaluation and its tick.   *)
(***************************************************************************)
EXTENDS ActuatorPlanner

CONSTANTS
  ProcessStates,  \* the process states that occur
  MaxRevision     \* bound on committed process transitions

VARIABLES
  process,      \* [state, revision] of the committed RunCommandState
  snapshot,     \* actuatorPlannerParametersSnapshot of the committed run
  controller,   \* next request number and the open feedback window
  outstanding,  \* outstandingEvaluation_
  pendingFeedback  \* pendingControlRequestFeedback_

loopVars == <<process, snapshot, controller, outstanding, pendingFeedback>>

ControlledStates ==
  {"Preheating", "WaitingForProduct", "ReachingTarget", "QualifyingTarget",
   "Fermenting", "Cooling", "CoolHolding", "ManualHolding"}

Controlled(state) == state \in ControlledStates

ASSUME ProcessStatesAssumption ==
  /\ "Standby" \in ProcessStates
  /\ MaxRevision \in Nat
  /\ Contexts = 0 .. MaxRevision

LoopInit ==
  /\ Init
  /\ process = [state |-> "Standby", revision |-> 0]
  /\ snapshot = None
  /\ controller = [next |-> 1, window |-> None]
  /\ outstanding = None
  /\ pendingFeedback = None

-----------------------------------------------------------------------------
(* evaluateTemperatureControl() *)

InvalidEvaluation ==
  [class |-> "NoValidRequest", sequence |-> 0, direction |-> Idle,
   quote |-> 0, createdAt |-> now, context |-> process.revision]

\* TemperatureController::evaluate() refuses feedback that does not belong
\* to its open window, and fails closed.
FeedbackRefused ==
  /\ pendingFeedback # None
  /\ \/ controller.window = None
     \/ pendingFeedback.sequence # controller.window

Produced(class, direction, quote, age) ==
  [class |-> class, sequence |-> controller.next, direction |-> direction,
   quote |-> quote, createdAt |-> now - age, context |-> process.revision]

\* Every evaluation becomes the outstanding one and closes the planner's
\* feedback episode.
Register(evaluation) ==
  /\ outstanding = None
  /\ outstanding' = evaluation
  /\ fb' = ClosedFeedbackEpisode(fb)
  /\ UNCHANGED <<now, params, plan, phys, inner, wd, result, process, snapshot>>

\* No valid control context: the controller is reset, nothing is consumed.
EvaluateOutsideControl ==
  /\ ~Controlled(process.state)
  /\ Register(InvalidEvaluation)
  /\ controller' = [controller EXCEPT !.window = None]
  /\ UNCHANGED pendingFeedback

\* The controller fails closed: no usable sensor value, a time gap, or
\* feedback it does not accept.
EvaluateFailClosed ==
  /\ Controlled(process.state)
  /\ Register(InvalidEvaluation)
  /\ controller' = [controller EXCEPT !.window = None]
  /\ pendingFeedback' = None

EvaluateOff ==
  /\ Controlled(process.state)
  /\ ~FeedbackRefused
  /\ \E class \in EvaluationClasses \cap OffClasses,
        age \in {a \in CreationAges : a <= now} :
       Register(Produced(class, Idle, 0, age))
  /\ controller' = [next |-> controller.next + 1, window |-> None]
  /\ pendingFeedback' = None

EvaluateDemand ==
  /\ Controlled(process.state)
  /\ ~FeedbackRefused
  /\ \E class \in EvaluationClasses \cap DemandClasses,
        direction \in ActiveDirections, quote \in Quotes,
        age \in {a \in CreationAges : a <= now} :
       Register(Produced(class, direction, quote, age))
  /\ controller' = [next |-> controller.next + 1, window |-> controller.next]
  /\ pendingFeedback' = None

-----------------------------------------------------------------------------
(* tickActuatorPlan() *)

\* A mutant: the context is the one the evaluation was made in.
TickInputOfEvaluation(gate) ==
  [evaluation |-> outstanding,
   context |-> IF outstanding # None THEN outstanding.context
               ELSE process.revision,
   controlled |-> Controlled(process.state),
   gate |-> IF Controlled(process.state) THEN gate ELSE "Unresolved"]

\* The planner's tick with the outstanding evaluation; without a valid
\* control context the gate is forced to Unresolved.
TickInput(gate) ==
  [evaluation |-> outstanding, context |-> process.revision,
   controlled |-> Controlled(process.state),
   gate |-> IF Controlled(process.state) THEN gate ELSE "Unresolved"]

TickActuatorPlan(in, t) ==
  \E a \in {RunPhaseA(in, t, EnterEpisode(in.controlled, t), fb, params)} :
    \E b \in {RunPhaseB(in, t, a)} :
      /\ ApplyTick(in, t, a, b)
      /\ fb' = TakenFeedback(b.fb)
      /\ pendingFeedback' = IF b.fb.available THEN b.fb.pending
                            ELSE pendingFeedback
      /\ outstanding' = None
      /\ UNCHANGED <<process, snapshot, controller>>

TickAnyPlan ==
  \E gap \in TickGaps, gate \in Gates :
    /\ now + gap <= TimestampMax
    /\ TickActuatorPlan(TickInput(gate), now + gap)

-----------------------------------------------------------------------------
(* complete(): a process change has been committed *)

NeedsRuntimeReset(before, after, recoveryBoundary, newActiveRun) ==
  \/ newActiveRun
  \/ recoveryBoundary
  \/ before = "RecoveryEvaluation"
  \/ after = "RecoveryEvaluation"
  \/ Controlled(before) # Controlled(after)
  \/ /\ after \in {"Fault", "SafeBoot", "ServiceMode", "Standby"}
     /\ before # after

\* resetTemperatureControlAtBoundary(), resetActuatorPlanAtBoundary(),
\* endRun() and beginRun() with the committed snapshot.
ResetAtBoundary ==
  /\ LifecycleBoundary(outstanding = None, snapshot')
  /\ controller' = [controller EXCEPT !.window = None]
  /\ outstanding' = None
  /\ pendingFeedback' = None

Complete(after, recoveryBoundary, newActiveRun) ==
  /\ process.revision < MaxRevision
  /\ process' = [state |-> after, revision |-> process.revision + 1]
  /\ IF NeedsRuntimeReset(process.state, after, recoveryBoundary, newActiveRun)
     THEN ResetAtBoundary
     ELSE UNCHANGED <<vars, controller, outstanding, pendingFeedback>>

\* A start command: the run's parameter snapshot is committed with it.
StartRun ==
  \E after \in ProcessStates \cap ControlledStates :
    /\ process.state = "Standby"
    /\ snapshot' \in ParameterSets \cup {None}
    /\ Complete(after, FALSE, TRUE)

\* Activation of a recovered run: the persisted snapshot is loaded.
ActivateRecovery ==
  \E after \in ProcessStates :
    /\ process.state = "RecoveryEvaluation"
    /\ snapshot' \in ParameterSets \cup {None}
    /\ Complete(after, TRUE, FALSE)

\* Any other committed transition, or a change that keeps the state.
CommitTransition ==
  \E after \in ProcessStates :
    /\ process.state = "Standby" => ~Controlled(after)
    /\ snapshot' = IF after = "Standby" THEN None ELSE snapshot
    /\ Complete(after, FALSE, FALSE)

\* ActuationInterlock::resetRequestWatchdog()
ResetRequestWatchdog ==
  /\ ApplyExternalWatchdogFaultReset
  /\ UNCHANGED loopVars

LoopNext ==
  \/ EvaluateOutsideControl
  \/ EvaluateFailClosed
  \/ EvaluateOff
  \/ EvaluateDemand
  \/ TickAnyPlan
  \/ StartRun
  \/ ActivateRecovery
  \/ CommitTransition
  \/ ResetRequestWatchdog

LoopSpec == LoopInit /\ [][LoopNext]_<<vars, loopVars>>

-----------------------------------------------------------------------------
(* Properties *)

\* After a tick an active output serves a request of the very process
\* context that is committed then.
OutputServesCurrentContext ==
  [][now' # now /\ phys'.direction # Idle =>
       plan'.accepted.context = process.revision
     ]_<<vars, loopVars>>

=============================================================================
