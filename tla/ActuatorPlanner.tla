--------------------------- MODULE ActuatorPlanner ---------------------------
(***************************************************************************)
(* The ActuatorPlanner class (actuator_planner.cpp): it turns the abstract *)
(* heating/cooling requests of the temperature controller into the on/off  *)
(* output of the Peltier element and its two fans, with minimum on and off *)
(* times, polarity dead time, confirmation of a direction reversal, a      *)
(* request watchdog and fan post-run.                                      *)
(*                                                                         *)
(* The struct state_ is split into one record per concern.  Methods that   *)
(* mutate state_ are operators from records to records; the public         *)
(* operations are the actions.  A quote (a double in [0,1]) is a natural   *)
(* number of QuoteScale-ths, and quantities the code computes as doubles   *)
(* of milliseconds are kept in QuoteScale-ths of a millisecond.            *)
(***************************************************************************)
EXTENDS Integers

CONSTANTS
  Heating, Cooling, Idle,  \* AbstractControlDirection
  None,                    \* std::nullopt
  Contexts,                \* canonical control request contexts
  ParameterSets,           \* parameter snapshots runs are started with
  TimestampMax,            \* largest value of the clock's integer type
  TickGaps,                \* time between two planner ticks
  Quotes,                  \* positive quotes of active demands
  CreationAges,            \* age of an evaluation when the tick takes it
  EvaluationClasses,       \* classes of the evaluations handed in
  Gates,                   \* verdicts of the safety gate
  ControlledPhases         \* whether the process state is a controlled one

QuoteScale == 4

Directions == {Heating, Cooling, Idle}
ActiveDirections == {Heating, Cooling}
Timestamps == 0 .. TimestampMax
OffClasses == {"NeutralOff", "AirLimitBlockedOff"}
DemandClasses == {"AirLimitReducedDemand", "NormalDemand"}

\* classifyActuatorPlannerParameters() == Valid
ValidParameters(p) ==
  /\ p.window > 0
  /\ p.minimumOn > 0
  /\ p.minimumOn <= p.window
  /\ p.minimumOff > 0
  /\ p.polarityDeadTime > 0
  /\ p.accumulatorCap >= p.minimumOn
  /\ p.quoteThreshold > 0
  /\ p.quoteThreshold <= QuoteScale
  /\ p.confirmationDuration > 0
  /\ p.requestWatchdog > 0
  /\ p.outerFanPostRun > 0

Parameters ==
  [window: Nat, minimumOn: Nat, minimumOff: Nat, polarityDeadTime: Nat,
   accumulatorCap: Nat, quoteThreshold: Nat, confirmationDuration: Nat,
   requestWatchdog: Nat, outerFanPostRun: Nat, innerFanPostRun: Nat]

\* A default constructed ActuatorPlannerParameters: Unconfigured.
UnconfiguredParameters ==
  [window |-> 0, minimumOn |-> 0, minimumOff |-> 0, polarityDeadTime |-> 0,
   accumulatorCap |-> 0, quoteThreshold |-> 0, confirmationDuration |-> 0,
   requestWatchdog |-> 0, outerFanPostRun |-> 0, innerFanPostRun |-> 0]

Commands ==
  [sequence: Nat, direction: Directions, quote: 0 .. QuoteScale,
   class: {"NoValidRequest"} \cup OffClasses \cup DemandClasses,
   context: Contexts]

Windows ==
  [start: Nat, direction: ActiveDirections, source: Nat, scheduledOn: Nat,
   attempted: BOOLEAN, fromAccumulator: BOOLEAN, started: BOOLEAN]

Dispositions == {"NoIntegratorConstraint", "DeferredOrLimited", "Rejected"}

Feedbacks == [sequence: Nat, disposition: Dispositions]

Plans ==
  [accepted: Commands \cup {None}, window: Windows \cup {None},
   accumulator: [direction: Directions, amount: Nat],
   candidate: ActiveDirections \cup {None}, observedSince: Nat,
   confirmed: BOOLEAN]

Outputs ==
  [direction: Directions, onSince: Nat \cup {None},
   offDirection: ActiveDirections \cup {None}, offAt: Nat \cup {None},
   outerFan: BOOLEAN, outerFanRequestedAt: Nat \cup {None},
   outerFanDeadline: Nat \cup {None}]

InnerFans ==
  [active: BOOLEAN, requestedAt: Nat \cup {None}, deadline: Nat \cup {None}]

Watchdogs ==
  [highWatermark: Nat \cup {None}, heartbeat: Nat \cup {None},
   episode: Nat \cup {None}, fault: BOOLEAN]

FeedbackStates ==
  [subject: Nat \cup {None}, pending: Feedbacks \cup {None},
   available: BOOLEAN]

\* The reasons of class I, which stop the output at once
ImmediateStopReasons ==
  {"MalformedInput", "NoCommissioning", "SafetyGateUnresolved",
   "ExternalSafetyOverride", "RequestWatchdogFaultLatched",
   "StaleRequestWatchdog", "NoValidRequest", "StaleRequestContext",
   "TimeInvalid"}

ASSUME DirectionsAssumption ==
  Heating # Cooling /\ Heating # Idle /\ Cooling # Idle

ASSUME NoneAssumption ==
  None \notin Nat \cup Directions \cup Contexts \cup Commands \cup Windows
              \cup Feedbacks \cup ImmediateStopReasons

ASSUME BoundsAssumption ==
  /\ TimestampMax \in Nat
  /\ TickGaps \subseteq Nat
  /\ CreationAges \subseteq Nat
  /\ Quotes \subseteq 1 .. QuoteScale
  /\ Gates \subseteq {"Unresolved", "Allowed", "ImmediateStop"}
  /\ ControlledPhases \subseteq BOOLEAN

ASSUME ParameterSetsAssumption ==
  ParameterSets \subseteq {p \in Parameters : ValidParameters(p)}

VARIABLES
  now,     \* monotonic clock of the last operation
  params,  \* parameters_: Unconfigured, or the snapshot bound by beginRun()
  plan,    \* accepted command, switching window, accumulator, candidate
  phys,    \* physical Peltier output, its time anchors and the outer fan
  inner,   \* inner fan
  wd,      \* replay high watermark, heartbeat and request watchdog
  fb,      \* feedback episode and the disposition not yet handed over
  result   \* reason and admission outcome of the last tick

vars == <<now, params, plan, phys, inner, wd, fb, result>>

EmptyAccumulator == [direction |-> Idle, amount |-> 0]

\* clearPlanningState()
ClearedPlan ==
  [accepted |-> None, window |-> None, accumulator |-> EmptyAccumulator,
   candidate |-> None, observedSince |-> 0, confirmed |-> FALSE]

Init ==
  /\ now = 0
  /\ params = UnconfiguredParameters
  /\ plan = ClearedPlan
  /\ phys = [direction |-> Idle, onSince |-> None, offDirection |-> None,
             offAt |-> None, outerFan |-> FALSE, outerFanRequestedAt |-> None,
             outerFanDeadline |-> None]
  /\ inner = [active |-> FALSE, requestedAt |-> None, deadline |-> None]
  /\ wd = [highWatermark |-> None, heartbeat |-> None, episode |-> None,
           fault |-> FALSE]
  /\ fb = [subject |-> None, pending |-> None, available |-> FALSE]
  /\ result = [reason |-> "NeutralIdle", admission |-> "NoCandidate"]

-----------------------------------------------------------------------------
(* Time arithmetic *)

DeadlineReached(t, since, duration) == t >= since /\ t - since >= duration

SaturatingDeadline(start, duration) ==
  IF duration > TimestampMax - start THEN TimestampMax ELSE start + duration

\* A mutant: the newest deadline wins, be it earlier.
TakeNewestDeadline(deadline, candidate) == candidate

RetainLaterDeadline(deadline, candidate) ==
  IF deadline = None \/ candidate > deadline THEN candidate ELSE deadline

RoundHalfUp(amount) == (2 * amount + QuoteScale) \div (2 * QuoteScale)

-----------------------------------------------------------------------------
(* Physical output and fans *)

Deactivate(ph, t, p) ==
  [ph EXCEPT !.direction = Idle,
             !.onSince = None,
             !.offDirection = ph.direction,
             !.offAt = t,
             !.outerFan = TRUE,
             !.outerFanRequestedAt = t,
             !.outerFanDeadline =
                RetainLaterDeadline(@, SaturatingDeadline(t, p.outerFanPostRun))]

Activate(ph, next, t) ==
  [ph EXCEPT !.direction = next,
             !.onSince = t,
             !.outerFan = TRUE,
             !.outerFanRequestedAt = None]

SetPhysicalDirection(ph, next, t, p) ==
  IF ph.direction = next THEN ph
  ELSE LET off == IF ph.direction # Idle THEN Deactivate(ph, t, p) ELSE ph
       IN  IF next # Idle THEN Activate(off, next, t) ELSE off

\* updateFanState(), outer fan
UpdateOuterFan(ph, t) ==
  IF ph.direction # Idle
  THEN [ph EXCEPT !.outerFan = TRUE, !.outerFanRequestedAt = None]
  ELSE IF /\ ph.outerFan
          /\ ph.outerFanRequestedAt # None
          /\ ph.outerFanDeadline # None
          /\ t >= ph.outerFanDeadline
       THEN [ph EXCEPT !.outerFan = FALSE, !.outerFanDeadline = None]
       ELSE ph

InnerFanTeardown(f, t, p) ==
  IF f.active /\ f.requestedAt = None
  THEN [f EXCEPT !.requestedAt = t,
                 !.deadline = RetainLaterDeadline(@,
                    SaturatingDeadline(t, p.innerFanPostRun))]
  ELSE f

\* updateFanState(), inner fan
UpdateInnerFan(f, t, p, controlled) ==
  IF controlled
  THEN [f EXCEPT !.active = TRUE, !.requestedAt = None]
  ELSE LET g == InnerFanTeardown(f, t, p)
       IN  IF g.active /\ g.deadline # None /\ t >= g.deadline
           THEN [g EXCEPT !.active = FALSE, !.deadline = None]
           ELSE g

-----------------------------------------------------------------------------
(* Feedback to the temperature controller *)

FeedbackSeverity(disposition) ==
  CASE disposition = "NoIntegratorConstraint" -> 0
    [] disposition = "DeferredOrLimited" -> 1
    [] disposition = "Rejected" -> 2

LimitedReasons ==
  {"MinimumOnTimeHeld", "MinimumOffTimeHeld", "PolarityDeadTimeHeld",
   "AccumulatingBelowThreshold", "CounterDirectionConfirming",
   "DirectionChangeApplied", "WindowPulseMissed"}

MergeFeedback(f, sequence, disposition) ==
  LET fresh == f.pending = None \/ f.pending.sequence # sequence
  IN  IF /\ sequence # 0
         /\ \/ fresh
            \/ FeedbackSeverity(disposition)
                 > FeedbackSeverity(f.pending.disposition)
      THEN [f EXCEPT !.pending = [sequence |-> sequence,
                                  disposition |-> disposition],
                     !.available = TRUE]
      ELSE f

MergeFeedbackForDemand(f, command, reason) ==
  IF f.subject = None \/ f.subject # command.sequence THEN f
  ELSE MergeFeedback(f, command.sequence,
                     IF reason \in LimitedReasons THEN "DeferredOrLimited"
                     ELSE "NoIntegratorConstraint")

OpenFeedbackEpisode(subject) ==
  [subject |-> subject, pending |-> None, available |-> TRUE]

-----------------------------------------------------------------------------
(* Switching windows *)

MinimumOffOver(ph, t, p) ==
  ph.offAt = None \/ DeadlineReached(t, ph.offAt, p.minimumOff)

\* A mutant: the polarity dead time is not waited for.
ArmingAllowedAnyPolarity(ph, direction, t, p) == MinimumOffOver(ph, t, p)

ArmingAllowed(ph, direction, t, p) ==
  \/ ph.offAt = None
  \/ /\ DeadlineReached(t, ph.offAt, p.minimumOff)
     /\ \/ ph.offDirection = direction
        \/ DeadlineReached(t, ph.offAt, p.polarityDeadTime)

\* The reason that goes with a failed ArmingAllowed().
ArmingHeldReason(ph, t, p) ==
  IF MinimumOffOver(ph, t, p) THEN "PolarityDeadTimeHeld"
  ELSE "MinimumOffTimeHeld"

RequestedOn(quote, p) == quote * p.window

CreditAccumulator(acc, direction, amount, p) ==
  LET credit == amount + (IF acc.direction = direction THEN acc.amount ELSE 0)
      cap == p.accumulatorCap * QuoteScale
  IN  [direction |-> direction, amount |-> IF credit < cap THEN credit ELSE cap]

NewWindow(command, start, scheduledOn, fromAccumulator) ==
  [start |-> start, direction |-> command.direction,
   source |-> command.sequence, scheduledOn |-> scheduledOn,
   attempted |-> FALSE, fromAccumulator |-> fromAccumulator,
   started |-> FALSE]

StartFreshWindow(pl, command, start, p) ==
  LET requested == RequestedOn(command.quote, p)
      minimum == p.minimumOn * QuoteScale
      credited == CreditAccumulator(pl.accumulator, command.direction,
                                    requested, p)
      rounded == RoundHalfUp(requested)
  IN  IF requested >= minimum
      THEN [pl EXCEPT !.window = NewWindow(command, start,
              IF rounded < p.window THEN rounded ELSE p.window, FALSE)]
      ELSE IF requested = 0
      THEN [pl EXCEPT !.window = NewWindow(command, start, 0, FALSE)]
      ELSE IF credited.amount >= minimum
      THEN [pl EXCEPT !.window = NewWindow(command, start, p.minimumOn, TRUE),
                      !.accumulator = [credited EXCEPT !.amount = @ - minimum]]
      ELSE [pl EXCEPT !.window = NewWindow(command, start, 0, FALSE),
                      !.accumulator = credited]

\* applyWindowPhysicalTick(): the window after the tick, whether its pulse is
\* on, and the reason.
WindowPhysicalTick(w, ph, t, p) ==
  LET elapsed == t - w.start
      natural == elapsed < w.scheduledOn
      Attempt(started, reason) ==
        [window |-> [w EXCEPT !.attempted = TRUE, !.started = started],
         active |-> started, reason |-> reason]
  IN  IF w.scheduledOn = 0
      THEN [window |-> w, active |-> FALSE,
            reason |-> "AccumulatingBelowThreshold"]
      ELSE IF w.attempted
      THEN [window |-> w, active |-> w.started /\ natural,
            reason |-> IF w.started THEN "ScheduledWithinWindow"
                       ELSE "WindowPulseMissed"]
      ELSE IF ~natural
      THEN Attempt(FALSE, "WindowPulseMissed")
      ELSE IF ~ArmingAllowed(ph, w.direction, w.start, p)
      THEN Attempt(FALSE, ArmingHeldReason(ph, w.start, p))
      ELSE IF w.scheduledOn - elapsed < p.minimumOn
      THEN Attempt(FALSE, "WindowPulseMissed")
      ELSE Attempt(TRUE, IF w.fromAccumulator THEN "MinimumPulseTriggered"
                         ELSE "ScheduledWithinWindow")

\* Runs the window's pulse and drives the output accordingly.
FollowWindow(pl, ph, t, p) ==
  LET tick == WindowPhysicalTick(pl.window, ph, t, p)
      dir == pl.window.direction
  IN  [plan |-> [pl EXCEPT !.window = tick.window],
       phys |-> IF tick.active THEN SetPhysicalDirection(ph, dir, t, p)
                ELSE IF ph.direction = dir
                THEN SetPhysicalDirection(ph, Idle, t, p)
                ELSE ph,
       reason |-> tick.reason]

-----------------------------------------------------------------------------
(* evaluateHeatingCoolingDemand() *)

ReferenceDirection(pl, ph) ==
  IF pl.window # None THEN pl.window.direction
  ELSE IF ph.direction # Idle THEN ph.direction
  ELSE IF ph.offDirection # None THEN ph.offDirection
  ELSE Idle

DropWindow(pl) ==
  [pl EXCEPT !.window = None, !.accumulator = EmptyAccumulator]

\* A mutant: an interrupted observation of the other direction goes on.
ResetCandidateKeepsStart(pl) == [pl EXCEPT !.confirmed = FALSE]

ResetCandidate(pl) ==
  [pl EXCEPT !.candidate = None, !.observedSince = 0, !.confirmed = FALSE]

WindowExpired(w, t, p) == t - w.start >= p.window

RebasedStart(w, t, p) ==
  w.start + ((t - w.start) \div p.window) * p.window

\* A mutant: the window of the old direction ends and its output stays on.
AdvanceWindowLeavesOutputOn(pl, ph, command, t, p) ==
  LET w == pl.window
  IN  IF w = None \/ ~WindowExpired(w, t, p)
      THEN [plan |-> pl, phys |-> ph]
      ELSE IF w.direction = command.direction
      THEN [plan |-> StartFreshWindow(pl, command, RebasedStart(w, t, p), p),
            phys |-> ph]
      ELSE [plan |-> DropWindow(pl), phys |-> ph]

\* A window past its natural end is followed by the next one in the same
\* direction, or ends for good when the demand now points the other way.
AdvanceWindow(pl, ph, command, t, p) ==
  LET w == pl.window
  IN  IF w = None \/ ~WindowExpired(w, t, p)
      THEN [plan |-> pl, phys |-> ph]
      ELSE IF w.direction = command.direction
      THEN [plan |-> StartFreshWindow(pl, command, RebasedStart(w, t, p), p),
            phys |-> ph]
      ELSE [plan |-> DropWindow(pl),
            phys |-> IF ph.direction = w.direction
                     THEN SetPhysicalDirection(ph, Idle, t, p) ELSE ph]

TrackCounterDirection(pl, reference, command, t, p) ==
  LET desired == command.direction
      eligible == /\ command.class \in DemandClasses
                  /\ command.quote >= p.quoteThreshold
                  /\ \/ reference # Idle /\ reference # desired
                     \/ pl.candidate = desired
      since == IF pl.candidate = desired THEN pl.observedSince ELSE t
  IN  IF eligible
      THEN [pl EXCEPT !.candidate = desired,
                      !.observedSince = since,
                      !.confirmed = DeadlineReached(t, since,
                                                    p.confirmationDuration)]
      ELSE ResetCandidate(pl)

\* A mutant: one unit of the minimum on time is lost.
MinimumOnOverEarly(ph, t, p) ==
  ph.onSince = None \/ DeadlineReached(t, ph.onSince, p.minimumOn - 1)

MinimumOnOver(ph, t, p) ==
  ph.onSince = None \/ DeadlineReached(t, ph.onSince, p.minimumOn)

\* The window of the old direction while the other one is asked for and not
\* yet confirmed: it runs on under its own source.
KeepOldWindow(pl, ph, t, p) ==
  [FollowWindow(pl, ph, t, p) EXCEPT !.reason = "CounterDirectionConfirming"]

\* A confirmed reversal while the old direction is physically on.
EndOldDirection(pl, ph, t, p) ==
  IF MinimumOnOver(ph, t, p)
  THEN [plan |-> DropWindow(pl), phys |-> SetPhysicalDirection(ph, Idle, t, p),
        reason |-> "DirectionChangeApplied"]
  ELSE LET tick == WindowPhysicalTick(pl.window, ph, t, p)
       IN  [plan |-> [pl EXCEPT !.window = tick.window],
            phys |-> IF tick.active
                     THEN SetPhysicalDirection(ph, pl.window.direction, t, p)
                     ELSE ph,
            reason |-> "MinimumOnTimeHeld"]

\* The window governs; a request of its own direction that is too small for
\* a pulse and rides on another request's window is accounted as such.
RunWindow(pl, ph, command, t, p) ==
  LET followed == FollowWindow(pl, ph, t, p)
      rides == /\ pl.window.source # command.sequence
               /\ RequestedOn(command.quote, p) < p.minimumOn * QuoteScale
  IN  [followed EXCEPT !.reason =
         IF rides THEN "AccumulatingBelowThreshold" ELSE @]

\* No window is left: a confirmed reversal, a first start or a restart in the
\* last direction opens one, anything else waits.
OpenWindow(pl, ph, reference, command, t, p) ==
  LET desired == command.direction
      Wait(reason) == [plan |-> pl, phys |-> ph, reason |-> reason]
      Open(base) == RunWindow(StartFreshWindow(base, command, t, p), ph,
                              command, t, p)
  IN  IF pl.candidate = desired
      THEN IF ~pl.confirmed THEN Wait("CounterDirectionConfirming")
           ELSE IF ~ArmingAllowed(ph, desired, t, p)
           THEN Wait(ArmingHeldReason(ph, t, p))
           ELSE Open(ResetCandidate(pl))
      ELSE IF reference # Idle /\ reference # desired
      THEN Wait("CounterDirectionConfirming")
      ELSE Open(pl)

EvaluateHeatingCoolingDemand(pl0, ph0, command, t, p) ==
  LET reference == ReferenceDirection(pl0, ph0)
      advanced == AdvanceWindow(pl0, ph0, command, t, p)
      pl == TrackCounterDirection(advanced.plan, reference, command, t, p)
      ph == advanced.phys
      foreign == pl.window # None /\ pl.window.direction # command.direction
  IN  IF foreign /\ ~pl.confirmed
      THEN KeepOldWindow(pl, ph, t, p)
      ELSE IF foreign /\ ph.direction = pl.window.direction
      THEN EndOldDirection(pl, ph, t, p)
      ELSE IF foreign
      THEN OpenWindow(DropWindow(pl), ph, reference, command, t, p)
      ELSE IF pl.window = None
      THEN OpenWindow(pl, ph, reference, command, t, p)
      ELSE RunWindow(pl, ph, command, t, p)

-----------------------------------------------------------------------------
(* A tick: admission of the new evaluation (phase A), then the physical    *)
(* decision (phase B).                                                     *)
(*                                                                         *)
(* An evaluation is a TemperatureControlResult, reduced to its demand      *)
(* class ("Malformed" when isStructurallyValidEvaluation() refuses it) and *)
(* its ControlRequest.                                                     *)

Evaluations ==
  [class: {"Malformed", "NoValidRequest"} \cup OffClasses \cup DemandClasses,
   sequence: Nat, direction: Directions, quote: 0 .. QuoteScale,
   createdAt: Nat, context: Contexts]

TickInputs ==
  [evaluation: Evaluations \cup {None}, context: Contexts,
   controlled: BOOLEAN, gate: {"Unresolved", "Allowed", "ImmediateStop"}]

CommandOf(evaluation) ==
  [sequence |-> evaluation.sequence,
   direction |-> IF evaluation.class \in DemandClasses
                 THEN evaluation.direction ELSE Idle,
   quote |-> IF evaluation.class \in DemandClasses
             THEN evaluation.quote ELSE 0,
   class |-> evaluation.class,
   context |-> evaluation.context]

NoRequestCommand(context) ==
  [sequence |-> 0, direction |-> Idle, quote |-> 0,
   class |-> "NoValidRequest", context |-> context]

IsReplay(w, evaluation) ==
  w.highWatermark # None /\ evaluation.sequence <= w.highWatermark

\* A request that arrives too old or for another context: it only moves the
\* high watermark, and an active demand is answered with Rejected.
StaleOnArrival(w, e, outcome) ==
  [outcome |-> outcome, candidate |-> None,
   wd |-> [w EXCEPT !.highWatermark = e.sequence],
   fb |-> IF e.class \in DemandClasses
          THEN [subject |-> e.sequence,
                pending |-> [sequence |-> e.sequence,
                             disposition |-> "Rejected"],
                available |-> TRUE]
          ELSE OpenFeedbackEpisode(None)]

RunPhaseA(in, t, w, f, p) ==
  LET e == in.evaluation
      Unchanged(outcome) ==
        [outcome |-> outcome, candidate |-> None, wd |-> w, fb |-> f]
  IN  IF e = None
      THEN Unchanged("NoCandidate")
      ELSE IF e.class = "Malformed"
      THEN [Unchanged("MalformedCandidate") EXCEPT
              !.fb = OpenFeedbackEpisode(None)]
      ELSE IF e.class = "NoValidRequest"
      THEN [outcome |-> "Accepted", candidate |-> NoRequestCommand(in.context),
            wd |-> [w EXCEPT !.heartbeat = t], fb |-> OpenFeedbackEpisode(None)]
      ELSE IF IsReplay(w, e)
      THEN Unchanged("DuplicateOrOldSequence")
      ELSE IF DeadlineReached(t, e.createdAt, p.requestWatchdog)
      THEN StaleOnArrival(w, e, "StaleOnArrivalWatchdog")
      ELSE IF e.context # in.context
      THEN StaleOnArrival(w, e, "StaleOnArrivalContext")
      ELSE [outcome |-> "Accepted", candidate |-> CommandOf(e),
            wd |-> [w EXCEPT !.highWatermark = e.sequence, !.heartbeat = t],
            fb |-> OpenFeedbackEpisode(
                     IF e.class \in DemandClasses THEN e.sequence ELSE None)]

\* A mutant: the watchdog only waits for the first request of an episode.
WatchdogForFirstRequest(in, t, w, p) ==
  /\ in.controlled
  /\ w.episode # None
  /\ w.heartbeat = None
  /\ DeadlineReached(t, w.episode, p.requestWatchdog)

RunningWatchdogTripped(in, t, w, p) ==
  /\ in.controlled
  /\ w.episode # None
  /\ DeadlineReached(t, IF w.heartbeat # None THEN w.heartbeat ELSE w.episode,
                     p.requestWatchdog)

HasRetrogradeTimeReference(t, pl, ph, f, w) ==
  \/ \E reference \in {ph.onSince, ph.offAt, w.heartbeat, w.episode,
                       ph.outerFanRequestedAt, f.requestedAt} :
        reference # None /\ t < reference
  \/ pl.window # None /\ t < pl.window.start
  \/ pl.candidate # None /\ t < pl.observedSince

\* The class I rules of runPhaseB() in their order: the reason that stops the
\* output at once, or None.
ImmediateStopReason(in, t, a) ==
  IF a.outcome = "MalformedCandidate" THEN "MalformedInput"
  ELSE IF params = UnconfiguredParameters THEN "NoCommissioning"
  ELSE IF in.gate = "Unresolved" THEN "SafetyGateUnresolved"
  ELSE IF in.gate = "ImmediateStop" THEN "ExternalSafetyOverride"
  ELSE IF a.wd.fault THEN "RequestWatchdogFaultLatched"
  ELSE IF RunningWatchdogTripped(in, t, a.wd, params)
  THEN "StaleRequestWatchdog"
  ELSE IF a.candidate # None /\ a.candidate.class = "NoValidRequest"
  THEN "NoValidRequest"
  ELSE IF /\ a.candidate = None
          /\ plan.accepted # None
          /\ plan.accepted.context # in.context
  THEN "StaleRequestContext"
  ELSE IF HasRetrogradeTimeReference(t, plan, phys, inner, a.wd)
  THEN "TimeInvalid"
  ELSE None

\* rejectToIdle()
RejectToIdle(a, t, reason) ==
  [plan |-> ClearedPlan,
   phys |-> SetPhysicalDirection(phys, Idle, t, params),
   fb |-> IF a.fb.subject # None
          THEN MergeFeedback(a.fb, a.fb.subject, "Rejected") ELSE a.fb,
   wd |-> [a.wd EXCEPT !.fault = @ \/ reason = "StaleRequestWatchdog"],
   reason |-> reason]

\* The freshly admitted candidate becomes the accepted command.
TakeOverCandidate(pl, candidate) ==
  IF candidate = None THEN pl
  ELSE LET taken == [pl EXCEPT !.accepted = candidate]
           interrupted == IF candidate.class \in OffClasses
                          THEN ResetCandidate(taken) ELSE taken
           wasNormal == pl.accepted # None /\ pl.accepted.class = "NormalDemand"
       IN  IF \/ candidate.class = "AirLimitBlockedOff"
              \/ candidate.class = "AirLimitReducedDemand" /\ wasNormal
           THEN [interrupted EXCEPT !.accumulator = EmptyAccumulator]
           ELSE interrupted

\* No demand: hold the output for the rest of the minimum on time, or stop.
Teardown(a, pl, t) ==
  IF phys.direction # Idle /\ ~MinimumOnOver(phys, t, params)
  THEN [plan |-> pl, phys |-> phys, fb |-> a.fb, wd |-> a.wd,
        reason |-> "MinimumOnTimeHeld"]
  ELSE [plan |-> ClearedPlan,
        phys |-> SetPhysicalDirection(phys, Idle, t, params),
        fb |-> a.fb, wd |-> a.wd,
        reason |-> IF /\ pl.accepted # None
                      /\ pl.accepted.class = "AirLimitBlockedOff"
                   THEN "AirLimitBlocked" ELSE "NeutralIdle"]

Demand(a, pl, t) ==
  LET outcome == EvaluateHeatingCoolingDemand(pl, phys, pl.accepted, t, params)
  IN  [plan |-> outcome.plan, phys |-> outcome.phys,
       fb |-> MergeFeedbackForDemand(a.fb, pl.accepted, outcome.reason),
       wd |-> a.wd, reason |-> outcome.reason]

RunPhaseB(in, t, a) ==
  LET stop == ImmediateStopReason(in, t, a)
      pl == TakeOverCandidate(plan, a.candidate)
  IN  IF stop # None
      THEN RejectToIdle(a, t, stop)
      ELSE IF pl.accepted = None \/ pl.accepted.direction = Idle
      THEN Teardown(a, pl, t)
      ELSE Demand(a, pl, t)

\* Entry into a controlled episode is detected by the first tick in it.
EnterEpisode(controlled, t) ==
  [wd EXCEPT !.episode = IF controlled /\ @ = None THEN t ELSE @]

-----------------------------------------------------------------------------
(* Public operations *)

\* What a tick with admission a and physical decision b leaves, except for
\* the feedback.
ApplyTick(in, t, a, b) ==
  /\ now' = t
  /\ plan' = b.plan
  /\ phys' = UpdateOuterFan(b.phys, t)
  /\ inner' = UpdateInnerFan(inner, t, params, in.controlled)
  /\ wd' = b.wd
  /\ result' = [reason |-> b.reason, admission |-> a.outcome]
  /\ UNCHANGED params

\* tick()
Tick(in, t) ==
  \E a \in {RunPhaseA(in, t, EnterEpisode(in.controlled, t), fb, params)} :
    \E b \in {RunPhaseB(in, t, a)} :
      /\ ApplyTick(in, t, a, b)
      /\ fb' = b.fb

\* takeFeedbackUpdate()
TakenFeedback(f) == [f EXCEPT !.available = FALSE]

\* forceStop(); the open episode's subject is answered with Rejected unless
\* an outstanding evaluation has closed the episode.
StoppedFeedback(episodeOpen) ==
  LET rejected == MergeFeedback(fb, fb.subject, "Rejected")
  IN  IF episodeOpen /\ fb.subject # None
      THEN [rejected EXCEPT !.subject = None]
      ELSE OpenFeedbackEpisode(None)

\* What the orchestrator does at a lifecycle boundary (the only caller of
\* these operations): forceStop(), takeFeedbackUpdate(), endRun(), and
\* beginRun() with the snapshot of the run that begins, if there is one.
LifecycleBoundary(episodeOpen, snapshot) ==
  /\ plan' = ClearedPlan
  /\ phys' = UpdateOuterFan(SetPhysicalDirection(phys, Idle, now, params), now)
  /\ inner' = UpdateInnerFan(InnerFanTeardown(inner, now, params), now, params,
                             FALSE)
  /\ wd' = [wd EXCEPT !.episode = None, !.heartbeat = None]
  /\ fb' = TakenFeedback(StoppedFeedback(episodeOpen))
  /\ params' = IF snapshot # None /\ ValidParameters(snapshot) THEN snapshot
               ELSE UnconfiguredParameters
  /\ result' = [reason |-> "NeutralIdle", admission |-> "NoCandidate"]
  /\ UNCHANGED now

\* closeFeedbackEpisodeForOutstandingEvaluation()
ClosedFeedbackEpisode(f) ==
  [f EXCEPT !.subject = None,
            !.pending = None,
            !.available = @ \/ f.pending # None]

CloseFeedbackEpisode ==
  /\ fb' = ClosedFeedbackEpisode(fb)
  /\ UNCHANGED <<now, params, plan, phys, inner, wd, result>>

TakeFeedbackUpdate ==
  /\ fb.available
  /\ fb' = TakenFeedback(fb)
  /\ UNCHANGED <<now, params, plan, phys, inner, wd, result>>

\* applyExternalWatchdogFaultReset(), called by the interlock for a latched
\* watchdog fault.
ApplyExternalWatchdogFaultReset ==
  /\ wd.fault
  /\ wd' = [wd EXCEPT !.fault = FALSE]
  /\ UNCHANGED <<now, params, plan, phys, inner, fb, result>>

-----------------------------------------------------------------------------
(* Environment.  The planner only compares sequence numbers, so a new      *)
(* request is numbered by the time of the tick that takes it; a request    *)
(* handed in again carries the last number seen, and nothing else of it is *)
(* read.  Requests are up to CreationAges old.                             *)

EvaluationsAt(t) ==
  LET created == {t - age : age \in {a \in CreationAges : a <= t}}
  IN  [class: EvaluationClasses \cap {"Malformed", "NoValidRequest"},
       sequence: {0}, direction: {Idle}, quote: {0}, createdAt: {t},
       context: Contexts]
      \cup
      [class: EvaluationClasses \cap OffClasses, sequence: {t},
       direction: {Idle}, quote: {0}, createdAt: created, context: Contexts]
      \cup
      [class: EvaluationClasses \cap DemandClasses, sequence: {t},
       direction: ActiveDirections, quote: Quotes, createdAt: created,
       context: Contexts]
      \cup
      [class: {"NormalDemand"}, sequence: {wd.highWatermark} \ {None},
       direction: {Heating}, quote: Quotes, createdAt: {t},
       context: Contexts]

InputsAt(t) ==
  [evaluation: EvaluationsAt(t) \cup {None}, context: Contexts,
   controlled: ControlledPhases, gate: Gates]

TickAny ==
  \E gap \in TickGaps :
    /\ now + gap <= TimestampMax
    /\ \E in \in InputsAt(now + gap) : Tick(in, now + gap)

LifecycleBoundaryAny ==
  \E episodeOpen \in BOOLEAN, snapshot \in ParameterSets \cup {None} :
    LifecycleBoundary(episodeOpen, snapshot)

Next ==
  \/ TickAny
  \/ LifecycleBoundaryAny
  \/ CloseFeedbackEpisode
  \/ TakeFeedbackUpdate
  \/ ApplyExternalWatchdogFaultReset

Spec == Init /\ [][Next]_vars

-----------------------------------------------------------------------------
(* Properties *)

\* The state of the class has its declared shape.
TypeOK ==
  /\ now \in Timestamps
  /\ params \in ParameterSets \cup {UnconfiguredParameters}
  /\ plan \in Plans
  /\ phys \in Outputs
  /\ inner \in InnerFans
  /\ wd \in Watchdogs
  /\ fb \in FeedbackStates

\* A physically active Peltier leg always belongs to a started switching
\* window of its own direction whose scheduled pulse still leaves room for
\* the whole minimum on time (applyWindowPhysicalTick() starts a pulse only
\* then), and the outer fan runs with it.
OutputOwnedByWindow ==
  phys.direction # Idle =>
    /\ params # UnconfiguredParameters
    /\ plan.window # None
    /\ plan.window.direction = phys.direction
    /\ plan.window.attempted
    /\ plan.window.started
    /\ phys.onSince # None
    /\ phys.onSince + params.minimumOn
         <= plan.window.start + plan.window.scheduledOn
    /\ phys.outerFan

\* Turning a Peltier leg on: the element was off for the minimum off time,
\* and after the other direction for the polarity dead time as well; the
\* output never goes from one direction straight to the other
\* (armingAllowed(), setPhysicalDirection()).
SwitchOnSafe ==
  [][phys'.direction \notin {Idle, phys.direction} =>
       /\ phys.direction = Idle
       /\ phys.offAt # None =>
            /\ now' - phys.offAt >= params.minimumOff
            /\ phys.offDirection # phys'.direction =>
                 now' - phys.offAt >= params.polarityDeadTime]_vars

\* A tick ends an on phase before its minimum on time only for one of the
\* immediate stop reasons of class I.
MinimumOnKept ==
  [][/\ phys.direction # Idle
     /\ phys'.direction = Idle
     /\ now' # now
     /\ now' - phys.onSince < params.minimumOn
     => result'.reason \in ImmediateStopReasons]_vars

=============================================================================
