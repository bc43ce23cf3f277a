---------------------------- MODULE MCControlLoop ----------------------------
(***************************************************************************)
(* ControlLoop for TLC with an observer of the output, of the demand the   *)
(* planner accepted and of the time the fans have to run: the properties   *)
(* speak of what the observer saw, not of the planner's own bookkeeping.   *)
(***************************************************************************)
EXTENDS ControlLoop, TLC

Short ==
  [window |-> 2, minimumOn |-> 1, minimumOff |-> 1, polarityDeadTime |-> 2,
   accumulatorCap |-> 2, quoteThreshold |-> 2, confirmationDuration |-> 1,
   requestWatchdog |-> 3, outerFanPostRun |-> 1, innerFanPostRun |-> 2]

Long == [Short EXCEPT !.minimumOn = 2, !.outerFanPostRun = 3,
                      !.innerFanPostRun = 0]

BothSets == {Short, Long}

MCContexts == 0 .. MaxRevision

VARIABLE obs

mcVars == <<vars, loopVars, obs>>

Later(a, b) == IF a > b THEN a ELSE b

EligibleDirection(pl, p) ==
  IF /\ pl.accepted # None /\ pl.accepted.class \in DemandClasses
     /\ pl.accepted.quote >= p.quoteThreshold
  THEN pl.accepted.direction ELSE Idle

ObsInit == obs = [outerUntil |-> 0, innerUntil |-> 0,
                  acceptedAt |-> None, offDirection |-> None,
                  asked |-> Idle, askedSince |-> 0, proved |-> {}]

\* proved: directions asked for without interruption for the confirmation
\* time since the output was last on in the other one.
ObsNext ==
  LET off == phys.direction # Idle /\ phys'.direction # phys.direction
      left == Controlled(process.state) /\ process' # process
              /\ NeedsRuntimeReset(process.state, process'.state, FALSE, FALSE)
              /\ inner.active /\ inner.requestedAt = None
      taken == outstanding # None /\ outstanding' = None
      asked == EligibleDirection(plan', params')
      since == IF asked = obs.asked THEN obs.askedSince ELSE now'
  IN  obs' = [outerUntil |-> IF off
                             THEN Later(obs.outerUntil,
                                        now' + params.outerFanPostRun)
                             ELSE obs.outerUntil,
              innerUntil |-> IF left
                             THEN Later(obs.innerUntil,
                                        now + params.innerFanPostRun)
                             ELSE obs.innerUntil,
              acceptedAt |-> IF taken /\ result'.admission = "Accepted"
                             THEN now' ELSE obs.acceptedAt,
              offDirection |-> IF off THEN phys.direction ELSE obs.offDirection,
              asked |-> asked,
              askedSince |-> since,
              proved |-> (obs.proved \cup
                            (IF /\ asked # Idle
                                /\ now' - since >= params'.confirmationDuration
                             THEN {asked} ELSE {}))
                         \ (IF phys'.direction = Idle THEN {}
                            ELSE ActiveDirections \ {phys'.direction})]

MCInit == LoopInit /\ ObsInit

MCSpec == MCInit /\ [][LoopNext /\ ObsNext]_mcVars

\* Both fans run on for the post-run times in force when the output or the
\* controlled phase ended, across every later boundary and run.
FansCoverPostRun ==
  /\ now < obs.outerUntil => phys.outerFan
  /\ now < obs.innerUntil => inner.active

\* The output is never active on a request that is older than the watchdog
\* time: replays and stale requests do not renew it (runningWatchdogTripped).
OutputHasLiveRequest ==
  phys.direction # Idle =>
    now - obs.acceptedAt < params.requestWatchdog

\* A direction is only left for the other one after the demand for it has
\* been at or above the threshold without interruption for the confirmation
\* time since the old direction was last on.
ReversalConfirmed ==
  [][/\ phys'.direction \notin {Idle, phys.direction}
     /\ obs.offDirection \notin {None, phys'.direction}
     => phys'.direction \in obs'.proved]_mcVars

Age(t, bound) ==
  IF t = None THEN None ELSE IF now - t > bound THEN bound ELSE now - t

Same(s, t) == s # None /\ t # None /\ s = t
SequenceOf(r) == IF r = None THEN None ELSE r.sequence

\* States that differ by a shift of times or a renumbering of requests and
\* revisions have the same futures; the planner only compares them.
LoopView ==
  <<params, process.state, snapshot, controller.window = None, wd.fault,
    IF outstanding = None THEN None
    ELSE <<outstanding.class, outstanding.direction, outstanding.quote,
           Age(outstanding.createdAt, 3), outstanding.context = process.revision,
           Same(outstanding.sequence, controller.window)>>,
    IF pendingFeedback = None THEN None
    ELSE <<pendingFeedback.disposition,
           Same(pendingFeedback.sequence, controller.window)>>,
    IF plan.accepted = None THEN None
    ELSE <<plan.accepted.direction, plan.accepted.quote, plan.accepted.class,
           plan.accepted.context = process.revision,
           Same(plan.accepted.sequence, fb.subject)>>,
    IF plan.window = None THEN None
    ELSE <<Age(plan.window.start, 9), plan.window.direction,
           Same(plan.window.source, SequenceOf(plan.accepted)),
           plan.window.scheduledOn, plan.window.attempted,
           plan.window.fromAccumulator, plan.window.started>>,
    plan.accumulator, plan.candidate, plan.confirmed,
    IF plan.candidate = None THEN 0 ELSE Age(plan.observedSince, 1),
    [phys EXCEPT !.onSince = Age(@, 2), !.offAt = Age(@, 2),
                 !.outerFanRequestedAt = @ = None,
                 !.outerFanDeadline = Age(@, 0)],
    [inner EXCEPT !.requestedAt = @ = None, !.deadline = Age(@, 0)],
    Age(wd.heartbeat, 3), Age(wd.episode, 3),
    fb.subject = None, Same(fb.subject, controller.window),
    IF fb.pending = None THEN None
    ELSE <<fb.pending.disposition, Same(fb.pending.sequence, fb.subject)>>,
    Age(obs.outerUntil, 0), Age(obs.innerUntil, 0),
    Age(obs.acceptedAt, 3), obs.offDirection, obs.asked,
    IF obs.asked = Idle THEN 0 ELSE Age(obs.askedSince, 1), obs.proved>>

Symmetry == Permutations({Heating, Cooling})
=============================================================================
