------------------------- MODULE ControlLoopProofs --------------------------
(***************************************************************************)
(* Proofs about the actuator planner alone, about the control loop that    *)
(* drives it, for every parameter snapshot, process state, context, quote, *)
(* timing and number of runs, and about the output stage below.            *)
(*                                                                         *)
(* The planner's output is safe because of what the switching window       *)
(* remembers, so the inductive invariant Consistent relates the window to  *)
(* the output: the output is on only within a started pulse that leaves    *)
(* room for the minimum on time, and a started pulse whose output is off   *)
(* is over for good.                                                       *)
(*                                                                         *)
(* The orchestrator drives the planner only in ways that keep the          *)
(* planner's own guarantees, an output serves the committed process        *)
(* context and a live request, the fans cover their post-run, and a        *)
(* direction is left for the other one only after the confirmation time.   *)
(* The planner's invariant IInv is carried over step by step: every step   *)
(* of the loop is a tick, a lifecycle boundary or a feedback operation of  *)
(* the planner.  What the observer of MCControlLoop saw is related to the  *)
(* planner's bookkeeping by Alive (the heartbeat), FansHeld (the fan       *)
(* deadlines) and Watched (the observation of the other direction).        *)
(***************************************************************************)
EXTENDS MCControlLoop, ActuatorOutputs, TLAPS

USE DEF Timestamps

-----------------------------------------------------------------------------
(* The operators on the output *)

\* A deadline computed from the clock is a point in time.
LEMMA DeadlineType ==
  ASSUME NEW start \in Timestamps, NEW duration \in Nat,
         NEW deadline \in Nat \cup {None}
  PROVE  /\ SaturatingDeadline(start, duration) \in Nat
         /\ RetainLaterDeadline(deadline, SaturatingDeadline(start, duration))
              \in Nat
BY BoundsAssumption DEF SaturatingDeadline, RetainLaterDeadline

\* setPhysicalDirection() reaches the direction asked for; a switch off
\* records its time, and what stays on keeps its start.
LEMMA SetPhysicalDirectionEffect ==
  ASSUME NEW ph \in Outputs, NEW next \in Directions, NEW t \in Timestamps,
         NEW p \in Parameters
  PROVE  LET r == SetPhysicalDirection(ph, next, t, p)
         IN  /\ r \in Outputs
             /\ r.direction = next
             /\ ph.direction = next => r = ph
             /\ ph.direction # next /\ next # Idle =>
                  r.onSince = t /\ r.outerFan
             /\ ph.direction # next /\ next = Idle => r.onSince = None
             /\ ph.direction \notin {next, Idle} => r.offAt = t
             /\ ph.direction \in {next, Idle} =>
                  r.offAt = ph.offAt /\ r.offDirection = ph.offDirection
<1> DEFINE retained == RetainLaterDeadline(ph.outerFanDeadline,
                          SaturatingDeadline(t, p.outerFanPostRun))
           off == Deactivate(ph, t, p)
<1>1. retained \in Nat
  BY DeadlineType DEF Outputs, Parameters
<1>2. t \in Nat
  BY BoundsAssumption
<1>3. ASSUME ph.direction # Idle
      PROVE  /\ off \in Outputs /\ off.direction = Idle /\ off.offAt = t
             /\ off.onSince = None
  BY <1>1, <1>2, <1>3 DEF Deactivate, Outputs, Directions, ActiveDirections
<1>4. ASSUME NEW o \in Outputs
      PROVE  LET r == Activate(o, next, t)
             IN  /\ r \in Outputs /\ r.direction = next /\ r.onSince = t
                 /\ r.outerFan /\ r.offAt = o.offAt
                 /\ r.offDirection = o.offDirection
  BY <1>2 DEF Activate, Outputs
<1> HIDE DEF retained
<1> QED
  BY <1>3, <1>4 DEF SetPhysicalDirection, off

\* The fan bookkeeping of a tick leaves the output and its anchors alone.
LEMMA UpdateOuterFanEffect ==
  ASSUME NEW ph \in Outputs, NEW t
  PROVE  LET r == UpdateOuterFan(ph, t)
         IN  /\ r \in Outputs
             /\ r.direction = ph.direction /\ r.onSince = ph.onSince
             /\ r.offAt = ph.offAt /\ r.offDirection = ph.offDirection
             /\ ph.direction # Idle => r.outerFan
BY DEF UpdateOuterFan, Outputs

\* The inner fan keeps its shape.
LEMMA InnerFanType ==
  ASSUME NEW f \in InnerFans, NEW t \in Timestamps, NEW p \in Parameters,
         NEW controlled \in BOOLEAN
  PROVE  /\ InnerFanTeardown(f, t, p) \in InnerFans
         /\ UpdateInnerFan(f, t, p, controlled) \in InnerFans
<1>1. t \in Nat
  BY BoundsAssumption
<1>2. InnerFanTeardown(f, t, p) \in InnerFans
  <2>1. RetainLaterDeadline(f.deadline,
           SaturatingDeadline(t, p.innerFanPostRun)) \in Nat
    BY DeadlineType DEF InnerFans, Parameters
  <2> QED
    BY <1>1, <2>1 DEF InnerFanTeardown, InnerFans
<1>3. UpdateInnerFan(f, t, p, controlled) \in InnerFans
  BY <1>2 DEF UpdateInnerFan, InnerFans
<1> QED
  BY <1>2, <1>3

\* Merging a disposition into the feedback keeps its shape.
LEMMA MergeFeedbackType ==
  ASSUME NEW f \in FeedbackStates, NEW sequence \in Nat,
         NEW disposition \in Dispositions
  PROVE  MergeFeedback(f, sequence, disposition) \in FeedbackStates
<1>1. [sequence |-> sequence, disposition |-> disposition] \in Feedbacks
  BY DEF Feedbacks
<1> QED
  BY <1>1 DEF MergeFeedback, FeedbackStates

-----------------------------------------------------------------------------
(* Switching windows *)

\* clearPlanningState() leaves a plan without a window.
LEMMA ClearedPlanType ==
  /\ EmptyAccumulator \in [direction: Directions, amount: Nat]
  /\ ClearedPlan \in Plans /\ ClearedPlan.window = None
<1>1. EmptyAccumulator \in [direction: Directions, amount: Nat]
  BY DEF EmptyAccumulator, Directions
<1> QED
  BY <1>1 DEF ClearedPlan, Plans

\* Clearing a part of the plan leaves a plan.
LEMMA ClearedPlanTypes ==
  ASSUME NEW pl \in Plans
  PROVE  /\ EmptyAccumulator \in [direction: Directions, amount: Nat]
         /\ ClearedPlan \in Plans /\ ClearedPlan.window = None
         /\ DropWindow(pl) \in Plans /\ DropWindow(pl).window = None
         /\ ResetCandidate(pl) \in Plans
         /\ ResetCandidate(pl).window = pl.window
<1>1. DropWindow(pl) \in Plans /\ DropWindow(pl).window = None
  BY ClearedPlanType DEF DropWindow, Plans
<1>2. ResetCandidate(pl) \in Plans /\ ResetCandidate(pl).window = pl.window
  BY DEF ResetCandidate, Plans
<1> QED
  BY ClearedPlanType, <1>1, <1>2

ValidSet == {p \in Parameters : ValidParameters(p)}

ActiveCommands == {c \in Commands : c.direction \in ActiveDirections}

FreshWindow(r, pl, command, start, p) ==
  /\ r \in Plans
  /\ r.window \in Windows
  /\ r.window.start = start
  /\ r.window.direction = command.direction
  /\ ~r.window.attempted /\ ~r.window.started
  /\ r.window.scheduledOn <= p.window
  /\ r.accepted = pl.accepted
  /\ r.confirmed = pl.confirmed /\ r.candidate = pl.candidate
  /\ r.observedSince = pl.observedSince

\* A fresh window begins where it is told to, has its whole pulse ahead of
\* it, and plans no more on time than it is long.
LEMMA StartFreshWindowEffect ==
  ASSUME NEW pl \in Plans, NEW command \in ActiveCommands, NEW start \in Nat,
         NEW p \in ValidSet
  PROVE  FreshWindow(StartFreshWindow(pl, command, start, p), pl, command,
                     start, p)
<1> DEFINE requested == RequestedOn(command.quote, p)
           minimum == p.minimumOn * QuoteScale
           credited == CreditAccumulator(pl.accumulator, command.direction,
                                         requested, p)
           rounded == RoundHalfUp(requested)
<1>1. requested \in Nat /\ minimum \in Nat
  BY DEF RequestedOn, ActiveCommands, Commands, ValidSet, Parameters, QuoteScale
<1>2. credited \in [direction: Directions, amount: Nat]
  <2>1. p.accumulatorCap * QuoteScale \in Nat
    BY DEF ValidSet, Parameters, QuoteScale
  <2>2. pl.accumulator.amount \in Nat
    BY DEF Plans
  <2> HIDE DEF requested
  <2> QED
    BY <1>1, <2>1, <2>2
    DEF CreditAccumulator, ActiveCommands, Commands, ActiveDirections,
        Directions
<1>3. rounded \in Nat
  <2> HIDE DEF requested
  <2> QED
    BY <1>1 DEF RoundHalfUp, QuoteScale
<1>4. ASSUME NEW on \in Nat, NEW fromAccumulator \in BOOLEAN
      PROVE  LET w == NewWindow(command, start, on, fromAccumulator)
             IN  /\ w \in Windows /\ w.start = start /\ ~w.attempted
                 /\ w.direction = command.direction /\ ~w.started
                 /\ w.scheduledOn = on
  BY DEF NewWindow, Windows, ActiveCommands, Commands
<1>5. p.window \in Nat /\ p.minimumOn \in Nat /\ p.minimumOn <= p.window
  BY DEF ValidSet, Parameters, ValidParameters
<1> HIDE DEF requested, minimum, credited, rounded
<1> DEFINE Opened(on, from, acc) ==
             [pl EXCEPT !.window = NewWindow(command, start, on, from),
                        !.accumulator = acc]
<1>6. ASSUME NEW on \in Nat, on <= p.window, NEW from \in BOOLEAN,
             NEW acc \in [direction: Directions, amount: Nat]
      PROVE  FreshWindow(Opened(on, from, acc), pl, command, start, p)
  BY <1>4, <1>6 DEF Plans, FreshWindow
<1>7. pl.accumulator \in [direction: Directions, amount: Nat]
  BY DEF Plans
<1>8. ASSUME NEW on, NEW from
      PROVE  [pl EXCEPT !.window = NewWindow(command, start, on, from)]
               = Opened(on, from, pl.accumulator)
  BY DEF Plans
<1>9. CASE requested >= minimum
  <2> DEFINE on == IF rounded < p.window THEN rounded ELSE p.window
  <2>1. StartFreshWindow(pl, command, start, p)
          = Opened(on, FALSE, pl.accumulator)
    BY <1>8, <1>9 DEF StartFreshWindow, requested, minimum, rounded
  <2>2. on \in Nat /\ on <= p.window
    BY <1>3, <1>5
  <2> HIDE DEF on, Opened
  <2> QED
    BY <2>1, <2>2, <1>6, <1>7
<1>10. CASE ~(requested >= minimum) /\ requested = 0
  <2> DEFINE on == 0
  <2>1. StartFreshWindow(pl, command, start, p)
          = Opened(on, FALSE, pl.accumulator)
    BY <1>8, <1>10 DEF StartFreshWindow, requested, minimum
  <2>2. on \in Nat /\ on <= p.window
    BY <1>5
  <2> HIDE DEF on, Opened
  <2> QED
    BY <2>1, <2>2, <1>6, <1>7
<1>11. CASE /\ ~(requested >= minimum) /\ requested # 0
            /\ credited.amount >= minimum
  <2> DEFINE spent == [credited EXCEPT !.amount = @ - minimum]
  <2>1. StartFreshWindow(pl, command, start, p)
          = Opened(p.minimumOn, TRUE, spent)
    BY <1>11 DEF StartFreshWindow, requested, minimum, credited
  <2>2. spent \in [direction: Directions, amount: Nat]
    BY <1>1, <1>2, <1>11
  <2> HIDE DEF Opened, spent
  <2> QED
    BY <2>1, <2>2, <1>5, <1>6
<1>12. CASE /\ ~(requested >= minimum) /\ requested # 0
            /\ ~(credited.amount >= minimum)
  <2> DEFINE on == 0
  <2>1. StartFreshWindow(pl, command, start, p)
          = Opened(on, FALSE, credited)
    BY <1>12 DEF StartFreshWindow, requested, minimum, credited
  <2>2. on \in Nat /\ on <= p.window
    BY <1>5
  <2> HIDE DEF on, Opened
  <2> QED
    BY <2>1, <2>2, <1>2, <1>6
<1> QED
  BY <1>9, <1>10, <1>11, <1>12

\* What a tick does to a window: it keeps its times, decides about its pulse
\* once, and the pulse is on only between its start and its scheduled end.
LEMMA WindowPhysicalTickEffect ==
  ASSUME NEW w \in Windows, NEW ph \in Outputs, NEW t \in Nat, w.start <= t,
         NEW p \in ValidSet, w.started => w.attempted
  PROVE  LET tick == WindowPhysicalTick(w, ph, t, p)
         IN  /\ tick.window \in Windows
             /\ tick.window.start = w.start
             /\ tick.window.direction = w.direction
             /\ tick.window.scheduledOn = w.scheduledOn
             /\ tick.window.started => tick.window.attempted
             /\ tick.active \in BOOLEAN
             /\ w.attempted => tick.window = w
             /\ tick.active =>
                  /\ tick.window.started
                  /\ t - w.start < w.scheduledOn
                  /\ ~w.started =>
                       /\ ArmingAllowed(ph, w.direction, w.start, p)
                       /\ t + p.minimumOn <= w.start + w.scheduledOn
             /\ ~tick.active /\ tick.window.started =>
                  w.started /\ t - w.start >= w.scheduledOn
<1>1. p.minimumOn \in Nat
  BY DEF ValidSet, Parameters
<1>2. /\ w.start \in Nat /\ w.scheduledOn \in Nat
      /\ w.attempted \in BOOLEAN /\ w.started \in BOOLEAN
  BY DEF Windows
<1> DEFINE elapsed == t - w.start
           Attempted(b) == [w EXCEPT !.attempted = TRUE, !.started = b]
<1>3. ASSUME NEW b \in BOOLEAN
      PROVE  /\ Attempted(b) \in Windows
             /\ Attempted(b).start = w.start
             /\ Attempted(b).direction = w.direction
             /\ Attempted(b).scheduledOn = w.scheduledOn
             /\ Attempted(b).attempted = TRUE
             /\ Attempted(b).started = b
  BY DEF Windows
<1>4. CASE w.scheduledOn = 0
  BY <1>1, <1>2, <1>4 DEF WindowPhysicalTick
<1>5. CASE w.scheduledOn # 0 /\ w.attempted
  <2> DEFINE tick == WindowPhysicalTick(w, ph, t, p)
  <2>1. tick.window = w
    BY <1>5 DEF WindowPhysicalTick
  <2>2. /\ tick.active => w.started /\ elapsed < w.scheduledOn
        /\ ~tick.active => ~(w.started /\ elapsed < w.scheduledOn)
        /\ tick.active \in BOOLEAN
    BY <1>5, Zenon DEF WindowPhysicalTick
  <2> HIDE DEF tick
  <2>3. /\ tick.window \in Windows /\ tick.window.start = w.start
        /\ tick.window.direction = w.direction
        /\ tick.window.scheduledOn = w.scheduledOn
        /\ tick.window.started => tick.window.attempted
        /\ tick.window = w
    BY <1>5, <2>1
  <2>4. tick.active =>
          tick.window.started /\ t - w.start < w.scheduledOn /\ w.started
    BY <2>1, <2>2
  <2>5. ~tick.active /\ tick.window.started =>
          w.started /\ t - w.start >= w.scheduledOn
    BY <1>2, <2>1, <2>2
  <2> QED
    BY <2>2, <2>3, <2>4, <2>5, Zenon DEF tick
<1>6. CASE w.scheduledOn # 0 /\ ~w.attempted
  <2> DEFINE starts == /\ elapsed < w.scheduledOn
                       /\ ArmingAllowed(ph, w.direction, w.start, p)
                       /\ ~(w.scheduledOn - elapsed < p.minimumOn)
  <2>1. CASE starts
    <3> DEFINE tick == WindowPhysicalTick(w, ph, t, p)
    <3>1. tick.window = Attempted(TRUE)
      BY <1>2, <1>6, <2>1 DEF WindowPhysicalTick
    <3>2. tick.active = TRUE
      BY <1>6, <2>1, Zenon DEF WindowPhysicalTick
    <3> HIDE DEF Attempted, tick
    <3>3. /\ tick.window \in Windows /\ tick.window.start = w.start
          /\ tick.window.direction = w.direction
          /\ tick.window.scheduledOn = w.scheduledOn
          /\ tick.window.attempted /\ tick.window.started
      BY <1>3, <3>1
    <3>4. /\ t - w.start < w.scheduledOn
          /\ ArmingAllowed(ph, w.direction, w.start, p)
          /\ t + p.minimumOn <= w.start + w.scheduledOn
      BY <1>1, <1>2, <2>1
    <3> QED
      BY <1>6, <3>2, <3>3, <3>4, Zenon DEF tick
  <2>2. CASE ~starts
    <3>1. /\ WindowPhysicalTick(w, ph, t, p).window = Attempted(FALSE)
          /\ WindowPhysicalTick(w, ph, t, p).active = FALSE
      BY <1>2, <1>6, <2>2 DEF WindowPhysicalTick
    <3> HIDE DEF Attempted
    <3> QED
      BY <1>1, <1>2, <1>3, <1>6, <2>2, <3>1
  <2> QED
    BY <2>1, <2>2
<1> QED
  BY <1>2, <1>4, <1>5, <1>6

-----------------------------------------------------------------------------
(* The inductive invariant *)

\* The anchors of the output lie in the past.
AnchorsPast(ph, t) ==
  /\ ph.onSince # None => ph.onSince <= t
  /\ ph.offAt # None => ph.offAt <= t

\* The window is well formed, and a started pulse is over for good once the
\* output is off.
WindowSound(w, ph, t, p) ==
  /\ w \in Windows
  /\ ValidParameters(p)
  /\ w.start <= t
  /\ w.scheduledOn <= p.window
  /\ w.started => w.attempted
  /\ ph.direction = Idle /\ w.started => t - w.start >= w.scheduledOn

\* An active output belongs to the window; its minimum on time ends within
\* the started pulse, or is over when the window has only just begun.
Owned(w, ph, t, p) ==
  ph.direction # Idle =>
    /\ ph.direction = w.direction
    /\ ph.outerFan
    /\ ph.onSince # None
    /\ w.attempted =>
         w.started /\ ph.onSince + p.minimumOn <= w.start + w.scheduledOn
    /\ ~w.attempted => ph.onSince + p.minimumOn <= t

Followable(pl, ph, t, p) ==
  /\ AnchorsPast(ph, t)
  /\ WindowSound(pl.window, ph, t, p)
  /\ Owned(pl.window, ph, t, p)

Consistent(pl, ph, t, p) ==
  /\ AnchorsPast(ph, t)
  /\ pl.window = None => ph.direction = Idle
  /\ pl.window # None =>
       /\ WindowSound(pl.window, ph, t, p)
       /\ Owned(pl.window, ph, t, p)
       /\ ph.direction # Idle => pl.window.attempted

\* The element was off long enough to be switched on in this direction.
Armed(ph, direction, t, p) ==
  ph.offAt # None =>
    /\ t - ph.offAt >= p.minimumOff
    /\ ph.offDirection # direction => t - ph.offAt >= p.polarityDeadTime

\* How a planning step may change the output.
SafeStep(ph, r, t, p) ==
  /\ r.direction \notin {Idle, ph.direction} =>
       ph.direction = Idle /\ Armed(ph, r.direction, t, p)
  /\ ph.direction # Idle /\ r.direction = Idle =>
       t - ph.onSince >= p.minimumOn

\* The invariant survives the passage of time.
LEMMA ConsistentLater ==
  ASSUME NEW pl \in Plans, NEW ph \in Outputs, NEW s \in Nat, NEW t \in Nat,
         s <= t, NEW p \in Parameters, Consistent(pl, ph, s, p)
  PROVE  Consistent(pl, ph, t, p)
<1>1. AnchorsPast(ph, t)
  BY DEF Consistent, AnchorsPast, Outputs
<1>2. ASSUME pl.window # None
      PROVE  /\ WindowSound(pl.window, ph, t, p)
             /\ Owned(pl.window, ph, t, p)
  BY <1>2 DEF Consistent, WindowSound, Owned, Windows, Outputs, Parameters
<1> QED
  BY <1>1, <1>2 DEF Consistent

\* Following a window, be it old or just begun, keeps the output consistent
\* with it and safe.
LEMMA FollowWindowSafe ==
  ASSUME NEW pl \in Plans, NEW ph \in Outputs, NEW t \in Timestamps,
         NEW p \in ValidSet, Followable(pl, ph, t, p)
  PROVE  LET r == FollowWindow(pl, ph, t, p)
         IN  /\ r.plan \in Plans /\ r.phys \in Outputs
             /\ Consistent(r.plan, r.phys, t, p)
             /\ SafeStep(ph, r.phys, t, p)
<1> DEFINE w == pl.window
           tick == WindowPhysicalTick(w, ph, t, p)
           after == [pl EXCEPT !.window = tick.window]
           out == FollowWindow(pl, ph, t, p).phys
<1>1. /\ w \in Windows /\ w.start <= t /\ w.scheduledOn <= p.window
      /\ w.started => w.attempted
      /\ w.start \in Nat /\ w.scheduledOn \in Nat
      /\ w.direction \in ActiveDirections
      /\ w.attempted \in BOOLEAN /\ w.started \in BOOLEAN
  BY DEF Followable, WindowSound, Windows
<1>2. t \in Nat /\ p \in Parameters /\ ValidParameters(p)
  BY BoundsAssumption DEF ValidSet
<1>3. /\ p.minimumOn \in Nat /\ p.minimumOff \in Nat
      /\ p.polarityDeadTime \in Nat /\ p.window \in Nat
  BY <1>2 DEF Parameters
<1>4. /\ tick.window \in Windows
      /\ tick.window.start = w.start
      /\ tick.window.direction = w.direction
      /\ tick.window.scheduledOn = w.scheduledOn
      /\ tick.window.started => tick.window.attempted
      /\ tick.active \in BOOLEAN
      /\ w.attempted => tick.window = w
      /\ tick.active =>
           /\ tick.window.started
           /\ t - w.start < w.scheduledOn
           /\ ~w.started =>
                /\ ArmingAllowed(ph, w.direction, w.start, p)
                /\ t + p.minimumOn <= w.start + w.scheduledOn
      /\ ~tick.active /\ tick.window.started =>
           w.started /\ t - w.start >= w.scheduledOn
  BY <1>1, <1>2, WindowPhysicalTickEffect
<1>5. tick.window # None
  BY <1>4, NoneAssumption
<1> HIDE DEF tick
<1>6. after \in Plans /\ after.window = tick.window
  BY <1>4 DEF Plans
<1>7. FollowWindow(pl, ph, t, p).plan = after
  BY DEF FollowWindow, tick
<1>8. Heating # Idle /\ Cooling # Idle /\ w.direction # Idle
      /\ w.direction \in Directions /\ Idle \in Directions
  BY <1>1, DirectionsAssumption DEF ActiveDirections, Directions
<1>9. ph.onSince # None => ph.onSince \in Nat /\ ph.onSince <= t
  BY DEF Followable, AnchorsPast, Outputs
<1>10. ph.offAt # None => ph.offAt \in Nat /\ ph.offAt <= t
  BY DEF Followable, AnchorsPast, Outputs
<1>11. t # None
  BY <1>2, NoneAssumption
<1>12. CASE tick.active
  <2>1. out = SetPhysicalDirection(ph, w.direction, t, p)
    BY <1>12 DEF FollowWindow, tick
  <2>2. /\ out \in Outputs /\ out.direction = w.direction
        /\ ph.direction = w.direction => out = ph
        /\ ph.direction # w.direction => out.onSince = t /\ out.outerFan
        /\ ph.direction \in {w.direction, Idle} => out.offAt = ph.offAt
    BY <1>2, <1>8, <2>1, SetPhysicalDirectionEffect
  <2> HIDE DEF out
  <2>3. ph.direction \in {w.direction, Idle}
    BY <1>1 DEF Followable, Owned
  <2>4. AnchorsPast(out, t)
    BY <1>2, <1>9, <1>10, <2>2, <2>3 DEF AnchorsPast
  <2>5. WindowSound(after.window, out, t, p)
    BY <1>1, <1>2, <1>4, <1>6, <1>8, <2>2 DEF WindowSound
  <2>6. ph.direction = Idle => ~w.started
    BY <1>1, <1>2, <1>4, <1>12 DEF Followable, WindowSound
  <2>7. Owned(after.window, out, t, p) /\ after.window.attempted
    <3>1. CASE ph.direction = Idle
      BY <1>1, <1>2, <1>3, <1>4, <1>6, <1>8, <1>11, <1>12, <2>2, <2>6, <3>1
      DEF Owned
    <3>2. CASE ph.direction = w.direction /\ w.attempted
      BY <1>1, <1>4, <1>6, <1>8, <1>12, <2>2, <3>2 DEF Owned, Followable
    <3>3. CASE ph.direction = w.direction /\ ~w.attempted
      BY <1>1, <1>2, <1>3, <1>4, <1>6, <1>8, <1>9, <1>12, <2>2, <3>3
      DEF Owned, Followable
    <3> QED
      BY <2>3, <3>1, <3>2, <3>3
  <2>8. SafeStep(ph, out, t, p)
    <3>1. ASSUME ph.direction = Idle
          PROVE  Armed(ph, w.direction, t, p)
      <4>1. ArmingAllowed(ph, w.direction, w.start, p)
        BY <1>4, <1>12, <2>6, <3>1
      <4> QED
        BY <1>1, <1>2, <1>3, <1>10, <4>1
        DEF ArmingAllowed, DeadlineReached, Armed
    <3> QED
      BY <1>8, <2>2, <2>3, <3>1 DEF SafeStep
  <2> QED
    BY <1>5, <1>6, <1>7, <2>2, <2>4, <2>5, <2>7, <2>8 DEF Consistent, out
<1>13. CASE ~tick.active
  <2>1. out = IF ph.direction = w.direction
              THEN SetPhysicalDirection(ph, Idle, t, p) ELSE ph
    BY <1>13 DEF FollowWindow, tick
  <2>2. ph.direction \in {w.direction, Idle}
    BY <1>1 DEF Followable, Owned
  <2>3. /\ out \in Outputs /\ out.direction = Idle
        /\ out.onSince \in {None, ph.onSince}
        /\ out.offAt \in {t, ph.offAt}
    BY <1>2, <1>8, <2>1, <2>2, SetPhysicalDirectionEffect
  <2> HIDE DEF out
  <2>4. AnchorsPast(out, t)
    BY <1>2, <1>9, <1>10, <2>3 DEF AnchorsPast
  <2>5. WindowSound(after.window, out, t, p)
    BY <1>1, <1>2, <1>4, <1>6, <1>13 DEF WindowSound
  <2>6. Owned(after.window, out, t, p)
    BY <2>3 DEF Owned
  <2>7. SafeStep(ph, out, t, p)
    <3>1. ASSUME ph.direction # Idle
          PROVE  t - ph.onSince >= p.minimumOn
      <4>1. CASE w.attempted
        BY <1>1, <1>2, <1>3, <1>4, <1>9, <1>13, <3>1, <4>1
        DEF Followable, Owned
      <4>2. CASE ~w.attempted
        BY <1>2, <1>3, <1>9, <3>1, <4>2 DEF Followable, Owned
      <4> QED
        BY <4>1, <4>2
    <3> QED
      BY <2>3, <3>1 DEF SafeStep
  <2> QED
    BY <1>5, <1>6, <1>7, <2>3, <2>4, <2>5, <2>6, <2>7 DEF Consistent, out
<1> QED
  BY <1>4, <1>12, <1>13

-----------------------------------------------------------------------------
(* The demand rules *)

\* The output may be governed by a window that has just begun.
Governed(pl, ph, t, p) ==
  /\ AnchorsPast(ph, t)
  /\ pl.window = None => ph.direction = Idle
  /\ pl.window # None => Followable(pl, ph, t, p)

\* The output is as it was, or has just been switched off after its minimum
\* on time.
KeptOrEnded(before, after, t, p) ==
  \/ after = before
  \/ /\ before.direction # Idle
     /\ t - before.onSince >= p.minimumOn
     /\ after.direction = Idle
     /\ after.offAt = t

SafeOutcome(r, ph, t, p) ==
  /\ r.plan \in Plans /\ r.phys \in Outputs
  /\ Consistent(r.plan, r.phys, t, p)
  /\ SafeStep(ph, r.phys, t, p)

\* What a window change ended a moment ago is not switched on again in the
\* same tick: the minimum off time is positive.
LEMMA SafeAfterEnd ==
  ASSUME NEW before, NEW ph, NEW r, NEW t \in Nat, NEW p \in ValidSet,
         KeptOrEnded(before, ph, t, p), SafeStep(ph, r, t, p)
  PROVE  SafeStep(before, r, t, p)
<1>1. p.minimumOff \in Nat /\ p.minimumOff > 0
  BY DEF ValidSet, Parameters, ValidParameters
<1>2. t # None
  BY NoneAssumption
<1>3. ASSUME ph # before
      PROVE  r.direction = Idle
  BY <1>1, <1>2, <1>3 DEF KeptOrEnded, SafeStep, Armed
<1> QED
  BY <1>3 DEF KeptOrEnded, SafeStep

\* A late tick begins the next window on the grid of the old one, not in the
\* future.
LEMMA RebasedStartBounds ==
  ASSUME NEW w \in Windows, NEW t \in Nat, w.start <= t, NEW p \in ValidSet
  PROVE  /\ RebasedStart(w, t, p) \in Nat
         /\ RebasedStart(w, t, p) <= t
<1>1. w.start \in Nat /\ p.window \in Nat /\ p.window > 0
  BY DEF Windows, ValidSet, Parameters, ValidParameters
<1>2. ASSUME NEW e \in Nat, NEW d \in Nat, d > 0
      PROVE  /\ (e \div d) * d \in Nat
             /\ (e \div d) * d <= e
  BY <1>2
<1>3. t - w.start \in Nat
  BY <1>1
<1>4. /\ ((t - w.start) \div p.window) * p.window \in Nat
      /\ ((t - w.start) \div p.window) * p.window <= t - w.start
  BY <1>1, <1>2, <1>3
<1> DEFINE whole == ((t - w.start) \div p.window) * p.window
<1>5. RebasedStart(w, t, p) = w.start + whole
  BY DEF RebasedStart
<1> HIDE DEF whole
<1> QED
  BY <1>1, <1>4, <1>5 DEF whole

\* Going on to the next window keeps the output governed; it ends what the
\* other direction now asks for only after its minimum on time.
LEMMA AdvanceWindowEffect ==
  ASSUME NEW pl \in Plans, NEW ph \in Outputs, NEW command \in ActiveCommands,
         NEW t \in Timestamps, NEW p \in ValidSet, Consistent(pl, ph, t, p)
  PROVE  LET r == AdvanceWindow(pl, ph, command, t, p)
         IN  /\ r.plan \in Plans /\ r.phys \in Outputs
             /\ Governed(r.plan, r.phys, t, p)
             /\ KeptOrEnded(ph, r.phys, t, p)
<1> DEFINE w == pl.window
           r == AdvanceWindow(pl, ph, command, t, p)
<1>1. t \in Nat /\ p \in Parameters /\ p.window \in Nat /\ p.minimumOn \in Nat
  BY BoundsAssumption DEF ValidSet, Parameters
<1>2. Governed(pl, ph, t, p)
  BY DEF Consistent, Governed, Followable
<1>3. CASE w = None \/ ~WindowExpired(w, t, p)
  BY <1>2, <1>3 DEF AdvanceWindow, KeptOrEnded
<1>4. ASSUME w # None, WindowExpired(w, t, p)
      PROVE  /\ w \in Windows /\ w.start \in Nat /\ w.scheduledOn \in Nat
             /\ w.start <= t /\ w.scheduledOn <= p.window
             /\ t - w.start >= p.window
             /\ ph.direction # Idle =>
                  /\ ph.direction = w.direction /\ ph.outerFan
                  /\ ph.onSince # None /\ ph.onSince \in Nat
                  /\ ph.onSince + p.minimumOn <= t
  BY <1>1, <1>4
  DEF Consistent, WindowSound, Owned, WindowExpired, Windows, Outputs
<1>5. CASE /\ w # None /\ WindowExpired(w, t, p)
           /\ w.direction = command.direction
  <2> DEFINE start == RebasedStart(w, t, p)
             fresh == StartFreshWindow(pl, command, start, p)
  <2>1. start \in Nat /\ start <= t
    BY <1>1, <1>4, <1>5, RebasedStartBounds
  <2>2. r.plan = fresh /\ r.phys = ph
    BY <1>5 DEF AdvanceWindow
  <2> HIDE DEF start, r
  <2>3. FreshWindow(fresh, pl, command, start, p)
    BY <2>1, StartFreshWindowEffect
  <2> HIDE DEF fresh
  <2>4. WindowSound(fresh.window, ph, t, p)
    BY <2>1, <2>3 DEF WindowSound, FreshWindow, ValidSet
  <2>5. Owned(fresh.window, ph, t, p)
    BY <1>4, <1>5, <2>3 DEF Owned, FreshWindow
  <2>6. fresh.window # None
    BY <2>3, NoneAssumption DEF FreshWindow
  <2> QED
    BY <2>2, <2>3, <2>4, <2>5, <2>6
    DEF Governed, Followable, FreshWindow, KeptOrEnded, Consistent, r
<1>6. CASE /\ w # None /\ WindowExpired(w, t, p)
           /\ w.direction # command.direction
  <2>1. /\ r.plan = DropWindow(pl)
        /\ r.phys = IF ph.direction = w.direction
                    THEN SetPhysicalDirection(ph, Idle, t, p) ELSE ph
    BY <1>6 DEF AdvanceWindow
  <2> HIDE DEF r
  <2>2. r.plan \in Plans /\ r.plan.window = None
    BY <2>1, ClearedPlanTypes
  <2>3. w.direction \in ActiveDirections /\ w.direction # Idle
    BY <1>4, <1>6, DirectionsAssumption DEF Windows, ActiveDirections
  <2>4. CASE ph.direction = Idle
    <3>1. r.phys = ph
      BY <2>1, <2>3, <2>4
    <3> QED
      BY <2>2, <2>4, <3>1 DEF Governed, KeptOrEnded, Consistent, r
  <2>5. CASE ph.direction # Idle
    <3>1. r.phys = SetPhysicalDirection(ph, Idle, t, p)
      BY <1>4, <1>6, <2>1, <2>5
    <3>2. /\ r.phys \in Outputs /\ r.phys.direction = Idle
          /\ r.phys.onSince = None /\ r.phys.offAt = t
      BY <1>1, <2>5, <3>1, SetPhysicalDirectionEffect DEF Directions
    <3>3. t - ph.onSince >= p.minimumOn
      BY <1>1, <1>4, <1>6, <2>5
    <3>4. Governed(r.plan, r.phys, t, p)
      BY <1>1, <2>2, <3>2 DEF Governed, AnchorsPast
    <3> QED
      BY <2>2, <2>5, <3>2, <3>3, <3>4 DEF KeptOrEnded, r
  <2> QED
    BY <2>4, <2>5
<1> QED
  BY <1>3, <1>5, <1>6

\* Watching for a reversal leaves the window alone.
LEMMA TrackCounterDirectionEffect ==
  ASSUME NEW pl \in Plans, NEW reference, NEW command \in ActiveCommands,
         NEW t \in Timestamps, NEW p \in Parameters
  PROVE  LET r == TrackCounterDirection(pl, reference, command, t, p)
         IN  r \in Plans /\ r.window = pl.window
<1> DEFINE since == IF pl.candidate = command.direction
                    THEN pl.observedSince ELSE t
           reached == DeadlineReached(t, since, p.confirmationDuration)
<1>1. since \in Nat
  BY BoundsAssumption DEF Plans
<1>2. reached \in BOOLEAN
  BY DEF DeadlineReached
<1>3. command.direction \in ActiveDirections
  BY DEF ActiveCommands
<1>4. ResetCandidate(pl) \in Plans /\ ResetCandidate(pl).window = pl.window
  BY ClearedPlanTypes
<1> HIDE DEF since, reached
<1> DEFINE seen == [pl EXCEPT !.candidate = command.direction,
                              !.observedSince = since, !.confirmed = reached]
<1>5. seen \in Plans /\ seen.window = pl.window
  BY <1>1, <1>2, <1>3 DEF Plans
<1>6. TrackCounterDirection(pl, reference, command, t, p)
        \in {seen, ResetCandidate(pl)}
  BY DEF TrackCounterDirection, since, reached
<1> HIDE DEF seen
<1> QED
  BY <1>4, <1>5, <1>6

\* Running the governing window is safe whatever reason is reported.
LEMMA RunWindowSafe ==
  ASSUME NEW pl \in Plans, NEW ph \in Outputs, NEW command \in ActiveCommands,
         NEW t \in Timestamps, NEW p \in ValidSet, Followable(pl, ph, t, p)
  PROVE  /\ SafeOutcome(RunWindow(pl, ph, command, t, p), ph, t, p)
         /\ SafeOutcome(KeepOldWindow(pl, ph, t, p), ph, t, p)
<1> DEFINE followed == FollowWindow(pl, ph, t, p)
<1>1. SafeOutcome(followed, ph, t, p)
  BY FollowWindowSafe DEF SafeOutcome
<1>2. /\ RunWindow(pl, ph, command, t, p).plan = followed.plan
      /\ RunWindow(pl, ph, command, t, p).phys = followed.phys
  BY DEF RunWindow, FollowWindow
<1>3. /\ KeepOldWindow(pl, ph, t, p).plan = followed.plan
      /\ KeepOldWindow(pl, ph, t, p).phys = followed.phys
  BY DEF KeepOldWindow, FollowWindow
<1> HIDE DEF followed
<1> QED
  BY <1>1, <1>2, <1>3 DEF SafeOutcome

\* A confirmed reversal ends the old direction after its minimum on time.
LEMMA EndOldDirectionSafe ==
  ASSUME NEW pl \in Plans, NEW ph \in Outputs, NEW t \in Timestamps,
         NEW p \in ValidSet, Followable(pl, ph, t, p),
         ph.direction = pl.window.direction
  PROVE  SafeOutcome(EndOldDirection(pl, ph, t, p), ph, t, p)
<1> DEFINE w == pl.window
           r == EndOldDirection(pl, ph, t, p)
           tick == WindowPhysicalTick(w, ph, t, p)
<1>1. /\ t \in Nat /\ p \in Parameters /\ p.minimumOn \in Nat
      /\ w \in Windows /\ w.start \in Nat /\ w.scheduledOn \in Nat
      /\ w.attempted \in BOOLEAN /\ w.start <= t
      /\ w.started => w.attempted
      /\ w.direction \in Directions /\ ph.direction # Idle
  BY BoundsAssumption, DirectionsAssumption
  DEF ValidSet, Parameters, Followable, WindowSound, Windows,
      ActiveDirections, Directions
<1>2. /\ ph.onSince # None /\ ph.onSince \in Nat /\ ph.onSince <= t
      /\ w.attempted =>
           w.started /\ ph.onSince + p.minimumOn <= w.start + w.scheduledOn
      /\ ~w.attempted => ph.onSince + p.minimumOn <= t
  BY <1>1 DEF Followable, Owned, AnchorsPast, Outputs
<1>3. CASE MinimumOnOver(ph, t, p)
  <2>1. /\ r.plan = DropWindow(pl)
        /\ r.phys = SetPhysicalDirection(ph, Idle, t, p)
    BY <1>3 DEF EndOldDirection
  <2> HIDE DEF r
  <2>2. /\ r.phys \in Outputs /\ r.phys.direction = Idle
        /\ r.phys.onSince = None /\ r.phys.offAt = t
    BY <1>1, <2>1, SetPhysicalDirectionEffect DEF Directions
  <2>3. r.plan \in Plans /\ r.plan.window = None
    BY <2>1, ClearedPlanTypes
  <2>4. SafeStep(ph, r.phys, t, p)
    BY <1>2, <1>3, <2>2 DEF SafeStep, MinimumOnOver, DeadlineReached
  <2> QED
    BY <1>1, <2>2, <2>3, <2>4 DEF SafeOutcome, Consistent, AnchorsPast, r
<1>4. CASE ~MinimumOnOver(ph, t, p)
  <2>1. t < ph.onSince + p.minimumOn
    BY <1>1, <1>2, <1>4 DEF MinimumOnOver, DeadlineReached
  <2>2. w.attempted /\ w.started /\ t - w.start < w.scheduledOn
    BY <1>1, <1>2, <2>1
  <2>3. w.scheduledOn # 0
    BY <1>1, <2>2
  <2>4. tick.active
    BY <2>2, <2>3, Zenon DEF WindowPhysicalTick
  <2>5. /\ r.plan = FollowWindow(pl, ph, t, p).plan
        /\ r.phys = FollowWindow(pl, ph, t, p).phys
    <3> HIDE DEF tick
    <3> QED
      BY <1>4, <2>4 DEF EndOldDirection, FollowWindow, tick
  <2> HIDE DEF r
  <2> QED
    BY <2>5, FollowWindowSafe DEF SafeOutcome, r
<1> QED
  BY <1>3, <1>4

\* Without a window the output is off; a window opened now arms it only when
\* it has been off long enough.
LEMMA OpenWindowSafe ==
  ASSUME NEW pl \in Plans, NEW ph \in Outputs, NEW reference,
         NEW command \in ActiveCommands, NEW t \in Timestamps,
         NEW p \in ValidSet, AnchorsPast(ph, t), ph.direction = Idle,
         pl.window = None
  PROVE  SafeOutcome(OpenWindow(pl, ph, reference, command, t, p), ph, t, p)
<1> DEFINE r == OpenWindow(pl, ph, reference, command, t, p)
           Open(base) == RunWindow(StartFreshWindow(base, command, t, p), ph,
                                   command, t, p)
<1>1. t \in Nat
  BY BoundsAssumption
<1>2. ASSUME NEW base \in Plans
      PROVE  SafeOutcome(Open(base), ph, t, p)
  <2> DEFINE fresh == StartFreshWindow(base, command, t, p)
  <2>1. FreshWindow(fresh, base, command, t, p)
    BY <1>1, StartFreshWindowEffect
  <2> HIDE DEF fresh
  <2>2. fresh \in Plans /\ Followable(fresh, ph, t, p)
    BY <1>1, <2>1
    DEF FreshWindow, Followable, WindowSound, Owned, ValidSet
  <2> QED
    BY <2>2, RunWindowSafe DEF fresh
<1>3. SafeOutcome([plan |-> pl, phys |-> ph, reason |-> 0], ph, t, p)
  BY DEF SafeOutcome, Consistent, SafeStep
<1>4. ResetCandidate(pl) \in Plans
  BY ClearedPlanTypes
<1>5. \/ r.plan = pl /\ r.phys = ph
      \/ r = Open(ResetCandidate(pl))
      \/ r = Open(pl)
  BY DEF OpenWindow
<1> HIDE DEF r, Open
<1> QED
  BY <1>2, <1>3, <1>4, <1>5 DEF SafeOutcome, r

\* The demand rules as a whole.
LEMMA DemandSafe ==
  ASSUME NEW pl0 \in Plans, NEW ph0 \in Outputs,
         NEW command \in ActiveCommands, NEW t \in Timestamps,
         NEW p \in ValidSet, Consistent(pl0, ph0, t, p)
  PROVE  SafeOutcome(EvaluateHeatingCoolingDemand(pl0, ph0, command, t, p),
                     ph0, t, p)
<1> DEFINE reference == ReferenceDirection(pl0, ph0)
           advanced == AdvanceWindow(pl0, ph0, command, t, p)
           pl == TrackCounterDirection(advanced.plan, reference, command, t, p)
           ph == advanced.phys
           r == EvaluateHeatingCoolingDemand(pl0, ph0, command, t, p)
           foreign == /\ pl.window # None
                      /\ pl.window.direction # command.direction
<1>1. /\ advanced.plan \in Plans /\ ph \in Outputs
      /\ Governed(advanced.plan, ph, t, p)
      /\ KeptOrEnded(ph0, ph, t, p)
  BY AdvanceWindowEffect
<1> HIDE DEF advanced, reference
<1>2. pl \in Plans /\ pl.window = advanced.plan.window
  BY <1>1, TrackCounterDirectionEffect DEF ValidSet
<1>3. r = IF foreign /\ ~pl.confirmed
          THEN KeepOldWindow(pl, ph, t, p)
          ELSE IF foreign /\ ph.direction = pl.window.direction
          THEN EndOldDirection(pl, ph, t, p)
          ELSE IF foreign
          THEN OpenWindow(DropWindow(pl), ph, reference, command, t, p)
          ELSE IF pl.window = None
          THEN OpenWindow(pl, ph, reference, command, t, p)
          ELSE RunWindow(pl, ph, command, t, p)
  BY DEF EvaluateHeatingCoolingDemand, advanced, reference
<1> HIDE DEF pl, r
<1>4. Governed(pl, ph, t, p)
  BY <1>1, <1>2 DEF Governed, Followable
<1> HIDE DEF ph
<1>5. SafeOutcome(r, ph, t, p)
  <2>1. CASE foreign /\ ~pl.confirmed
    BY <1>1, <1>2, <1>3, <1>4, <2>1, RunWindowSafe DEF Governed
  <2>2. CASE foreign /\ pl.confirmed /\ ph.direction = pl.window.direction
    BY <1>1, <1>2, <1>3, <1>4, <2>2, EndOldDirectionSafe DEF Governed
  <2>3. CASE foreign /\ pl.confirmed /\ ph.direction # pl.window.direction
    <3>1. ph.direction = Idle /\ AnchorsPast(ph, t)
      BY <1>4, <2>3 DEF Governed, Followable, Owned
    <3>2. DropWindow(pl) \in Plans /\ DropWindow(pl).window = None
      BY <1>2, ClearedPlanTypes
    <3>3. r = OpenWindow(DropWindow(pl), ph, reference, command, t, p)
      BY <1>3, <2>3
    <3> QED
      BY <1>1, <3>1, <3>2, <3>3, OpenWindowSafe
  <2>4. CASE ~foreign /\ pl.window = None
    <3>1. r = OpenWindow(pl, ph, reference, command, t, p)
      BY <1>3, <2>4
    <3> QED
      BY <1>1, <1>2, <1>4, <2>4, <3>1, OpenWindowSafe DEF Governed
  <2>5. CASE ~foreign /\ pl.window # None
    BY <1>1, <1>2, <1>3, <1>4, <2>5, RunWindowSafe DEF Governed
  <2> QED
    BY <2>1, <2>2, <2>3, <2>4, <2>5
<1>6. t \in Nat
  BY BoundsAssumption
<1> QED
  BY <1>1, <1>5, <1>6, SafeAfterEnd DEF SafeOutcome, r, ph

-----------------------------------------------------------------------------
(* A tick *)

\* The record a tick's admission phase returns.
Admission(a) ==
  /\ a.candidate \in Commands \cup {None}
  /\ a.wd \in Watchdogs
  /\ a.fb \in FeedbackStates

\* The evaluations the environment hands in are evaluations.
LEMMA EvaluationsAtType ==
  ASSUME TypeOK, NEW t \in Timestamps
  PROVE  EvaluationsAt(t) \subseteq Evaluations
<1>1. wd.highWatermark \in Nat \cup {None}
  BY DEF TypeOK, Watchdogs
<1>2. t \in Nat
  BY BoundsAssumption
<1>3. \A age \in CreationAges : age <= t => t - age \in Nat
  BY <1>2, BoundsAssumption
<1>4. Quotes \subseteq 0 .. QuoteScale /\ 0 \in 0 .. QuoteScale
  BY BoundsAssumption DEF QuoteScale
<1> DEFINE created == {t - age : age \in {a \in CreationAges : a <= t}}
<1>5. created \subseteq Nat
  BY <1>3
<1> HIDE DEF created
<1> SUFFICES ASSUME NEW e \in EvaluationsAt(t)
             PROVE  e \in Evaluations
  OBVIOUS
<1>6. CASE e \in [class: EvaluationClasses \cap {"Malformed", "NoValidRequest"},
                  sequence: {0}, direction: {Idle}, quote: {0},
                  createdAt: {t}, context: Contexts]
  BY <1>2, <1>4, <1>6 DEF Evaluations, Directions
<1>7. CASE e \in [class: EvaluationClasses \cap OffClasses, sequence: {t},
                  direction: {Idle}, quote: {0}, createdAt: created,
                  context: Contexts]
  BY <1>2, <1>4, <1>5, <1>7 DEF Evaluations, Directions
<1>8. CASE e \in [class: EvaluationClasses \cap DemandClasses, sequence: {t},
                  direction: ActiveDirections, quote: Quotes,
                  createdAt: created, context: Contexts]
  BY <1>2, <1>4, <1>5, <1>8 DEF Evaluations, Directions, ActiveDirections
<1>9. CASE e \in [class: {"NormalDemand"},
                  sequence: {wd.highWatermark} \ {None}, direction: {Heating},
                  quote: Quotes, createdAt: {t}, context: Contexts]
  BY <1>1, <1>2, <1>4, <1>9 DEF Evaluations, Directions, DemandClasses
<1> QED
  BY <1>6, <1>7, <1>8, <1>9 DEF EvaluationsAt, created

\* Admission keeps the watchdog and the feedback well formed and yields a
\* command or nothing.
LEMMA RunPhaseAType ==
  ASSUME NEW in \in TickInputs, NEW t \in Timestamps, NEW w \in Watchdogs,
         NEW f \in FeedbackStates, NEW p \in Parameters
  PROVE  Admission(RunPhaseA(in, t, w, f, p))
<1> DEFINE e == in.evaluation
<1>1. t \in Nat
  BY BoundsAssumption
<1>2. \A s \in Nat \cup {None} : OpenFeedbackEpisode(s) \in FeedbackStates
  BY DEF OpenFeedbackEpisode, FeedbackStates
<1>3. NoRequestCommand(in.context) \in Commands
  BY DEF NoRequestCommand, Commands, TickInputs, Directions, QuoteScale
<1>4. \A x \in Watchdogs, n \in Nat :
        /\ [x EXCEPT !.heartbeat = n] \in Watchdogs
        /\ [x EXCEPT !.highWatermark = n] \in Watchdogs
        /\ [x EXCEPT !.highWatermark = n, !.heartbeat = t] \in Watchdogs
  BY <1>1 DEF Watchdogs
<1>5. ASSUME e # None
      PROVE  e \in Evaluations /\ e.sequence \in Nat
  BY <1>5 DEF TickInputs, Evaluations
<1>6. ASSUME e # None, e.class \notin {"Malformed", "NoValidRequest"}
      PROVE  CommandOf(e) \in Commands
  BY <1>5, <1>6
  DEF CommandOf, Commands, Evaluations, Directions, QuoteScale
<1>7. ASSUME e # None, NEW outcome
      PROVE  Admission(StaleOnArrival(w, e, outcome))
  <2>1. [subject |-> e.sequence,
         pending |-> [sequence |-> e.sequence, disposition |-> "Rejected"],
         available |-> TRUE] \in FeedbackStates
    BY <1>5, <1>7 DEF FeedbackStates, Feedbacks, Dispositions
  <2>2. [w EXCEPT !.highWatermark = e.sequence] \in Watchdogs
    BY <1>4, <1>5, <1>7
  <2>3. OpenFeedbackEpisode(None) \in FeedbackStates
    BY <1>2
  <2> QED
    BY <1>7, <2>1, <2>2, <2>3 DEF StaleOnArrival, Admission
<1>8. CASE e = None
  BY <1>8 DEF RunPhaseA, Admission
<1>9. CASE e # None /\ e.class = "Malformed"
  BY <1>2, <1>9 DEF RunPhaseA, Admission
<1>10. CASE e # None /\ e.class = "NoValidRequest"
  BY <1>1, <1>2, <1>3, <1>4, <1>10 DEF RunPhaseA, Admission
<1>11. CASE e # None /\ e.class \notin {"Malformed", "NoValidRequest"}
  <2> DEFINE subject == IF e.class \in DemandClasses THEN e.sequence ELSE None
             accepted ==
               [outcome |-> "Accepted", candidate |-> CommandOf(e),
                wd |-> [w EXCEPT !.highWatermark = e.sequence, !.heartbeat = t],
                fb |-> OpenFeedbackEpisode(subject)]
             unchanged ==
               [outcome |-> "DuplicateOrOldSequence", candidate |-> None,
                wd |-> w, fb |-> f]
  <2>1. Admission(accepted)
    <3>1. subject \in Nat \cup {None}
      BY <1>5, <1>11
    <3>2. [w EXCEPT !.highWatermark = e.sequence, !.heartbeat = t]
            \in Watchdogs
      BY <1>4, <1>5, <1>11
    <3> HIDE DEF subject
    <3> QED
      BY <1>2, <1>6, <1>11, <3>1, <3>2 DEF Admission
  <2>2. Admission(unchanged)
    BY DEF Admission
  <2>3. RunPhaseA(in, t, w, f, p) \in
          {accepted, unchanged, StaleOnArrival(w, e, "StaleOnArrivalWatchdog"),
           StaleOnArrival(w, e, "StaleOnArrivalContext")}
    BY <1>11 DEF RunPhaseA
  <2> HIDE DEF accepted, unchanged
  <2> QED
    BY <1>7, <1>11, <2>1, <2>2, <2>3
<1> QED
  BY <1>8, <1>9, <1>10, <1>11

\* Taking over the admitted command leaves the window to its pulse.
LEMMA TakeOverCandidateEffect ==
  ASSUME NEW pl \in Plans, NEW candidate \in Commands \cup {None}
  PROVE  LET r == TakeOverCandidate(pl, candidate)
         IN  r \in Plans /\ r.window = pl.window
<1> DEFINE taken == [pl EXCEPT !.accepted = candidate]
           interrupted == IF candidate.class \in OffClasses
                          THEN ResetCandidate(taken) ELSE taken
           emptied == [interrupted EXCEPT !.accumulator = EmptyAccumulator]
<1>1. taken \in Plans /\ taken.window = pl.window
  BY DEF Plans
<1> HIDE DEF taken
<1>2. interrupted \in Plans /\ interrupted.window = pl.window
  BY <1>1, ClearedPlanTypes
<1> HIDE DEF interrupted
<1>3. emptied \in Plans /\ emptied.window = pl.window
  BY <1>2, ClearedPlanTypes DEF Plans
<1>4. TakeOverCandidate(pl, candidate) \in {pl, interrupted, emptied}
  BY DEF TakeOverCandidate, taken, interrupted
<1> HIDE DEF emptied
<1> QED
  BY <1>2, <1>3, <1>4

IInv == TypeOK /\ Consistent(plan, phys, now, params)

\* What the physical decision of a tick guarantees.
DecisionSound(b, t) ==
  /\ b.plan \in Plans /\ b.phys \in Outputs
  /\ b.fb \in FeedbackStates /\ b.wd \in Watchdogs
  /\ Consistent(b.plan, b.phys, t, params)
  /\ b.phys.direction \notin {Idle, phys.direction} =>
       phys.direction = Idle /\ Armed(phys, b.phys.direction, t, params)
  /\ /\ phys.direction # Idle /\ b.phys.direction = Idle
     /\ t - phys.onSince < params.minimumOn
     => b.reason \in ImmediateStopReasons

\* Every stop rule names a reason of class I, and the rules let a tick with
\* unconfigured parameters go no further.
LEMMA ImmediateStopReasonType ==
  ASSUME NEW in, NEW t, NEW a
  PROVE  /\ ImmediateStopReason(in, t, a) \in ImmediateStopReasons \cup {None}
         /\ params = UnconfiguredParameters =>
              ImmediateStopReason(in, t, a) # None
<1>1. "MalformedInput" # None /\ "NoCommissioning" # None
  BY NoneAssumption DEF ImmediateStopReasons
<1> QED
  BY <1>1 DEF ImmediateStopReason, ImmediateStopReasons

\* The bound parameters are a parameter snapshot, valid unless unconfigured.
LEMMA ParamsType ==
  ASSUME TypeOK
  PROVE  /\ params \in Parameters
         /\ params # UnconfiguredParameters => params \in ValidSet
BY ParameterSetsAssumption
DEF TypeOK, ValidSet, Parameters, UnconfiguredParameters

\* The physical decision of a tick preserves the invariant and is safe.
LEMMA RunPhaseBSound ==
  ASSUME TypeOK, NEW in, NEW t \in Timestamps,
         Consistent(plan, phys, t, params), NEW a, Admission(a)
  PROVE  DecisionSound(RunPhaseB(in, t, a), t)
<1> DEFINE stop == ImmediateStopReason(in, t, a)
           pl == TakeOverCandidate(plan, a.candidate)
           b == RunPhaseB(in, t, a)
           off == SetPhysicalDirection(phys, Idle, t, params)
<1>1. /\ t \in Nat /\ params \in Parameters /\ params.minimumOn \in Nat
      /\ plan \in Plans /\ phys \in Outputs
      /\ a.fb \in FeedbackStates /\ a.wd \in Watchdogs
  BY BoundsAssumption, ParamsType DEF TypeOK, Admission, Parameters
<1>2. pl \in Plans /\ pl.window = plan.window
  BY <1>1, TakeOverCandidateEffect DEF Admission
<1>3. Consistent(pl, phys, t, params)
  BY <1>2 DEF Consistent
<1>4. /\ off \in Outputs /\ off.direction = Idle
      /\ AnchorsPast(off, t)
  <2>1. /\ off \in Outputs /\ off.direction = Idle
        /\ phys.direction = Idle => off = phys
        /\ phys.direction # Idle => off.onSince = None /\ off.offAt = t
    BY <1>1, SetPhysicalDirectionEffect DEF Directions
  <2> HIDE DEF off
  <2> QED
    BY <1>1, <2>1 DEF Consistent, AnchorsPast
<1>5. ClearedPlan \in Plans /\ Consistent(ClearedPlan, off, t, params)
  BY <1>1, <1>4, ClearedPlanTypes DEF Consistent
<1>6. b = IF stop # None THEN RejectToIdle(a, t, stop)
          ELSE IF pl.accepted = None \/ pl.accepted.direction = Idle
          THEN Teardown(a, pl, t)
          ELSE Demand(a, pl, t)
  BY DEF RunPhaseB
<1>7. /\ stop \in ImmediateStopReasons \cup {None}
      /\ params = UnconfiguredParameters => stop # None
  BY ImmediateStopReasonType
<1> HIDE DEF stop, pl, b, off
<1>8. CASE stop # None
  <2> DEFINE fb1 == IF a.fb.subject # None
                    THEN MergeFeedback(a.fb, a.fb.subject, "Rejected")
                    ELSE a.fb
             wd1 == [a.wd EXCEPT !.fault = @ \/ stop = "StaleRequestWatchdog"]
  <2>1. fb1 \in FeedbackStates
    <3>1. a.fb.subject \in Nat \cup {None} /\ "Rejected" \in Dispositions
      BY <1>1 DEF FeedbackStates, Dispositions
    <3> QED
      BY <1>1, <3>1, MergeFeedbackType
  <2>2. wd1 \in Watchdogs
    <3>1. (a.wd.fault \/ stop = "StaleRequestWatchdog") \in BOOLEAN
      OBVIOUS
    <3> QED
      BY <1>1, <3>1 DEF Watchdogs
  <2>3. /\ b.plan = ClearedPlan /\ b.phys = off /\ b.fb = fb1 /\ b.wd = wd1
        /\ b.reason = stop
    BY <1>6, <1>8 DEF RejectToIdle, off
  <2> HIDE DEF fb1, wd1
  <2>4. b.reason \in ImmediateStopReasons
    BY <1>7, <1>8, <2>3
  <2> QED
    BY <1>4, <1>5, <2>1, <2>2, <2>3, <2>4 DEF DecisionSound, b
<1>9. CASE stop = None /\ (pl.accepted = None \/ pl.accepted.direction = Idle)
  <2>1. b = Teardown(a, pl, t)
    BY <1>6, <1>9
  <2>2. CASE phys.direction # Idle /\ ~MinimumOnOver(phys, t, params)
    <3>1. b.plan = pl /\ b.phys = phys /\ b.fb = a.fb /\ b.wd = a.wd
      BY <2>1, <2>2 DEF Teardown
    <3> QED
      BY <1>1, <1>2, <1>3, <2>2, <3>1 DEF DecisionSound, b
  <2>3. CASE ~(phys.direction # Idle /\ ~MinimumOnOver(phys, t, params))
    <3>1. b.plan = ClearedPlan /\ b.phys = off /\ b.fb = a.fb /\ b.wd = a.wd
      BY <2>1, <2>3 DEF Teardown, off
    <3>2. ASSUME phys.direction # Idle
          PROVE  t - phys.onSince >= params.minimumOn
      <4>1. phys.onSince # None
        BY <3>2 DEF Consistent, Owned
      <4> QED
        BY <2>3, <3>2, <4>1 DEF MinimumOnOver, DeadlineReached
    <3>3. phys.direction # Idle => phys.onSince \in Nat
      BY <1>1, <3>2 DEF Consistent, Owned, Outputs
    <3> QED
      BY <1>1, <1>4, <1>5, <3>1, <3>2, <3>3 DEF DecisionSound, b
  <2> QED
    BY <2>2, <2>3
<1>10. CASE stop = None /\ ~(pl.accepted = None \/ pl.accepted.direction = Idle)
  <2> DEFINE outcome == EvaluateHeatingCoolingDemand(pl, phys, pl.accepted, t,
                                                     params)
             disposition == IF outcome.reason \in LimitedReasons
                            THEN "DeferredOrLimited"
                            ELSE "NoIntegratorConstraint"
             fb1 == MergeFeedbackForDemand(a.fb, pl.accepted, outcome.reason)
  <2>1. pl.accepted \in ActiveCommands /\ pl.accepted.sequence \in Nat
    BY <1>2, <1>10
    DEF Plans, Commands, ActiveCommands, Directions, ActiveDirections
  <2>2. params \in ValidSet
    BY <1>7, <1>10, ParamsType
  <2>3. SafeOutcome(outcome, phys, t, params)
    BY <1>1, <1>2, <1>3, <2>1, <2>2, DemandSafe
  <2> HIDE DEF outcome
  <2>4. fb1 \in FeedbackStates
    <3>1. disposition \in Dispositions
      BY DEF Dispositions
    <3>2. fb1 \in {a.fb, MergeFeedback(a.fb, pl.accepted.sequence, disposition)}
      BY DEF MergeFeedbackForDemand
    <3> HIDE DEF disposition, fb1
    <3> QED
      BY <1>1, <2>1, <3>1, <3>2, MergeFeedbackType
  <2>5. b = Demand(a, pl, t)
    BY <1>6, <1>10
  <2>6. /\ b.plan = outcome.plan /\ b.phys = outcome.phys
        /\ b.fb = fb1 /\ b.wd = a.wd
    BY <2>5 DEF Demand, outcome
  <2> HIDE DEF fb1
  <2>7. phys.direction # Idle => phys.onSince \in Nat
    BY <1>1 DEF Consistent, Owned, Outputs
  <2> QED
    BY <1>1, <2>3, <2>4, <2>6, <2>7 DEF DecisionSound, SafeOutcome, SafeStep, b
<1> QED
  BY <1>8, <1>9, <1>10

\* The fan bookkeeping after a decision leaves the invariant alone.
LEMMA ConsistentFan ==
  ASSUME NEW pl, NEW ph \in Outputs, NEW t, NEW p, Consistent(pl, ph, t, p)
  PROVE  Consistent(pl, UpdateOuterFan(ph, t), t, p)
<1> DEFINE r == UpdateOuterFan(ph, t)
<1>1. /\ r.direction = ph.direction /\ r.onSince = ph.onSince
      /\ r.offAt = ph.offAt /\ (ph.direction # Idle => r.outerFan)
  BY UpdateOuterFanEffect
<1> HIDE DEF r
<1> QED
  BY <1>1 DEF Consistent, AnchorsPast, WindowSound, Owned, r

\* What a step of the planner guarantees about the output.
StepSafe ==
  /\ phys'.direction \notin {Idle, phys.direction} =>
       phys.direction = Idle /\ Armed(phys, phys'.direction, now', params)
  /\ /\ phys.direction # Idle /\ phys'.direction = Idle /\ now' # now
     /\ now' - phys.onSince < params.minimumOn
     => result'.reason \in ImmediateStopReasons

-----------------------------------------------------------------------------
(* Steps *)

\* The planner starts off, with nothing planned.
LEMMA InitIInv == Init => IInv
<1> SUFFICES ASSUME Init PROVE IInv
  OBVIOUS
<1>1. plan \in Plans /\ plan.window = None
  BY ClearedPlanType DEF Init
<1>2. phys \in Outputs /\ phys.direction = Idle /\ AnchorsPast(phys, now)
  BY DEF Init, Outputs, Directions, AnchorsPast
<1>3. inner \in InnerFans /\ wd \in Watchdogs /\ fb \in FeedbackStates
  BY DEF Init, InnerFans, Watchdogs, FeedbackStates
<1>4. /\ now \in Timestamps
      /\ params \in ParameterSets \cup {UnconfiguredParameters}
  BY BoundsAssumption DEF Init
<1> QED
  BY <1>1, <1>2, <1>3, <1>4 DEF IInv, TypeOK, Consistent

\* A tick of any input, with its feedback kept or handed over at once.
LEMMA TickSound ==
  ASSUME IInv, NEW in \in TickInputs, NEW t \in Timestamps, now <= t,
         NEW a, a = RunPhaseA(in, t, EnterEpisode(in.controlled, t), fb,
                              params),
         NEW b, b = RunPhaseB(in, t, a), ApplyTick(in, t, a, b),
         fb' \in {b.fb, TakenFeedback(b.fb)}
  PROVE  IInv' /\ StepSafe
<1>1. /\ TypeOK /\ now \in Nat /\ t \in Nat
      /\ plan \in Plans /\ phys \in Outputs /\ inner \in InnerFans
      /\ wd \in Watchdogs /\ fb \in FeedbackStates /\ params \in Parameters
  BY BoundsAssumption, ParamsType DEF IInv, TypeOK
<1>2. in.controlled \in BOOLEAN
  BY DEF TickInputs
<1>3. EnterEpisode(in.controlled, t) \in Watchdogs
  <2> DEFINE since == IF in.controlled /\ wd.episode = None THEN t
                      ELSE wd.episode
  <2>1. since \in Nat \cup {None}
    BY <1>1 DEF Watchdogs
  <2>2. EnterEpisode(in.controlled, t) = [wd EXCEPT !.episode = since]
    BY DEF EnterEpisode
  <2> HIDE DEF since
  <2> QED
    BY <1>1, <2>1, <2>2 DEF Watchdogs
<1>4. Admission(a)
  BY <1>1, <1>3, RunPhaseAType
<1>5. Consistent(plan, phys, t, params)
  BY <1>1, ConsistentLater DEF IInv
<1>6. DecisionSound(b, t)
  BY <1>1, <1>4, <1>5, RunPhaseBSound
<1>7. /\ now' = t /\ plan' = b.plan /\ phys' = UpdateOuterFan(b.phys, t)
      /\ inner' = UpdateInnerFan(inner, t, params, in.controlled)
      /\ wd' = b.wd /\ params' = params
      /\ result'.reason = b.reason
  BY DEF ApplyTick
<1>8. fb' \in FeedbackStates
  BY <1>6 DEF DecisionSound, TakenFeedback, FeedbackStates
<1>9. phys' \in Outputs /\ phys'.direction = b.phys.direction
  BY <1>6, <1>7, UpdateOuterFanEffect DEF DecisionSound
<1>10. Consistent(plan', phys', now', params')
  BY <1>6, <1>7, ConsistentFan DEF DecisionSound
<1>11. inner' \in InnerFans
  BY <1>1, <1>2, <1>7, InnerFanType
<1>12. IInv'
  BY <1>1, <1>6, <1>7, <1>8, <1>9, <1>10, <1>11
  DEF IInv, TypeOK, DecisionSound
<1> QED
  BY <1>6, <1>7, <1>9, <1>12 DEF StepSafe, DecisionSound

\* A tick.
LEMMA TickStep ==
  ASSUME IInv, TickAny
  PROVE  IInv' /\ StepSafe
<1>1. PICK gap \in TickGaps :
        /\ now + gap <= TimestampMax
        /\ \E in \in InputsAt(now + gap) : Tick(in, now + gap)
  BY DEF TickAny
<1> DEFINE t == now + gap
<1>2. PICK in \in InputsAt(t) : Tick(in, t)
  BY <1>1
<1>3. TypeOK /\ t \in Timestamps /\ now <= t
  BY <1>1, BoundsAssumption DEF IInv, TypeOK
<1> HIDE DEF t
<1>4. in \in TickInputs
  <2>1. EvaluationsAt(t) \subseteq Evaluations
    BY <1>3, EvaluationsAtType
  <2> QED
    BY <1>2, <2>1, BoundsAssumption DEF InputsAt, TickInputs
<1> DEFINE a == RunPhaseA(in, t, EnterEpisode(in.controlled, t), fb, params)
           b == RunPhaseB(in, t, a)
<1>5. ApplyTick(in, t, a, b) /\ fb' = b.fb
  BY <1>2 DEF Tick
<1> QED
  BY <1>3, <1>4, <1>5, TickSound

\* A lifecycle boundary.
LEMMA LifecycleBoundaryStep ==
  ASSUME IInv, LifecycleBoundaryAny
  PROVE  IInv' /\ StepSafe
<1>1. PICK episodeOpen \in BOOLEAN, taken \in ParameterSets \cup {None} :
        LifecycleBoundary(episodeOpen, taken)
  BY DEF LifecycleBoundaryAny
<1>2. /\ TypeOK /\ now \in Timestamps /\ now \in Nat
      /\ plan \in Plans /\ phys \in Outputs /\ inner \in InnerFans
      /\ wd \in Watchdogs /\ fb \in FeedbackStates /\ params \in Parameters
      /\ AnchorsPast(phys, now)
  BY BoundsAssumption, ParamsType DEF IInv, TypeOK, Consistent
<1> DEFINE off == SetPhysicalDirection(phys, Idle, now, params)
<1>3. off \in Outputs /\ off.direction = Idle /\ AnchorsPast(off, now)
  <2>1. /\ off \in Outputs /\ off.direction = Idle
        /\ phys.direction = Idle => off = phys
        /\ phys.direction # Idle => off.onSince = None /\ off.offAt = now
    BY <1>2, SetPhysicalDirectionEffect DEF Directions
  <2> HIDE DEF off
  <2> QED
    BY <1>2, <2>1 DEF AnchorsPast
<1>4. /\ plan' = ClearedPlan /\ phys' = UpdateOuterFan(off, now)
      /\ inner' = UpdateInnerFan(InnerFanTeardown(inner, now, params), now,
                                 params, FALSE)
      /\ wd' = [wd EXCEPT !.episode = None, !.heartbeat = None]
      /\ fb' = TakenFeedback(StoppedFeedback(episodeOpen))
      /\ params' \in ParameterSets \cup {UnconfiguredParameters}
      /\ now' = now
  BY <1>1 DEF LifecycleBoundary
<1> HIDE DEF off
<1>5. /\ phys' \in Outputs /\ phys'.direction = Idle
      /\ phys'.onSince = off.onSince /\ phys'.offAt = off.offAt
  BY <1>3, <1>4, UpdateOuterFanEffect
<1>6. Consistent(plan', phys', now', params') /\ plan' \in Plans
  BY <1>2, <1>3, <1>4, <1>5, ClearedPlanTypes DEF Consistent, AnchorsPast
<1>7. inner' \in InnerFans
  BY <1>2, <1>4, InnerFanType
<1>8. wd' \in Watchdogs
  BY <1>2, <1>4 DEF Watchdogs
<1>9. fb' \in FeedbackStates
  <2> DEFINE rejected == MergeFeedback(fb, fb.subject, "Rejected")
  <2>1. fb.subject # None => rejected \in FeedbackStates
    BY <1>2, MergeFeedbackType DEF FeedbackStates, Dispositions
  <2>2. OpenFeedbackEpisode(None) \in FeedbackStates
    BY DEF OpenFeedbackEpisode, FeedbackStates
  <2>3. StoppedFeedback(episodeOpen) \in
          {IF fb.subject # None THEN [rejected EXCEPT !.subject = None]
           ELSE OpenFeedbackEpisode(None), OpenFeedbackEpisode(None)}
    BY DEF StoppedFeedback
  <2> HIDE DEF rejected
  <2>4. StoppedFeedback(episodeOpen) \in FeedbackStates
    BY <2>1, <2>2, <2>3 DEF FeedbackStates
  <2> QED
    BY <1>4, <2>4 DEF TakenFeedback, FeedbackStates
<1>10. IInv'
  BY <1>2, <1>4, <1>5, <1>6, <1>7, <1>8, <1>9 DEF IInv, TypeOK
<1> QED
  BY <1>4, <1>5, <1>10 DEF StepSafe

\* The operations that only touch the feedback or the watchdog latch.
LEMMA OtherSteps ==
  ASSUME IInv,
         \/ CloseFeedbackEpisode \/ TakeFeedbackUpdate
         \/ ApplyExternalWatchdogFaultReset \/ UNCHANGED vars
  PROVE  IInv' /\ StepSafe
<1>1. /\ now' = now /\ params' = params /\ plan' = plan /\ phys' = phys
      /\ inner' = inner
  BY DEF CloseFeedbackEpisode, TakeFeedbackUpdate,
         ApplyExternalWatchdogFaultReset, vars
<1>2. fb \in FeedbackStates /\ wd \in Watchdogs
  BY DEF IInv, TypeOK
<1>3. fb' \in {fb, TakenFeedback(fb), ClosedFeedbackEpisode(fb)}
  BY DEF CloseFeedbackEpisode, TakeFeedbackUpdate,
         ApplyExternalWatchdogFaultReset, vars
<1>4. wd' \in {wd, [wd EXCEPT !.fault = FALSE]}
  BY DEF CloseFeedbackEpisode, TakeFeedbackUpdate,
         ApplyExternalWatchdogFaultReset, vars
<1>5. fb' \in FeedbackStates
  <2>1. TakenFeedback(fb) \in FeedbackStates
    BY <1>2 DEF TakenFeedback, FeedbackStates
  <2>2. ClosedFeedbackEpisode(fb) \in FeedbackStates
    BY <1>2 DEF ClosedFeedbackEpisode, FeedbackStates
  <2> QED
    BY <1>2, <1>3, <2>1, <2>2
<1>6. wd' \in Watchdogs
  BY <1>2, <1>4 DEF Watchdogs
<1>7. IInv'
  BY <1>1, <1>5, <1>6 DEF IInv, TypeOK, Consistent
<1> QED
  BY <1>1, <1>7 DEF StepSafe

\* Every step of the planner preserves the invariant and is safe.
LEMMA NextIInv ==
  ASSUME IInv, [Next]_vars
  PROVE  IInv' /\ StepSafe
BY TickStep, LifecycleBoundaryStep, OtherSteps DEF Next

\* The invariant of the planner.
THEOREM PlannerInvariant == Spec => []IInv
<1>1. IInv /\ [Next]_vars => IInv'
  BY NextIInv
<1> QED
  BY InitIInv, <1>1, PTL DEF Spec

-----------------------------------------------------------------------------
(* The properties *)

\* The state keeps its declared shape, for every parameter snapshot, timing
\* and sequence of calls.
THEOREM PlannerTypeOK == Spec => []TypeOK
<1>1. IInv => TypeOK
  BY DEF IInv
<1> QED
  BY <1>1, PlannerInvariant, PTL

\* The invariant makes an active output belong to its window.
LEMMA OwnedByInvariant == IInv => OutputOwnedByWindow
<1> SUFFICES ASSUME IInv, phys.direction # Idle
             PROVE  /\ params # UnconfiguredParameters
                    /\ plan.window # None
                    /\ plan.window.direction = phys.direction
                    /\ plan.window.attempted
                    /\ plan.window.started
                    /\ phys.onSince # None
                    /\ phys.onSince + params.minimumOn
                         <= plan.window.start + plan.window.scheduledOn
                    /\ phys.outerFan
  BY DEF OutputOwnedByWindow
<1>1. ValidParameters(params)
  BY DEF IInv, Consistent, WindowSound
<1>2. params # UnconfiguredParameters
  BY <1>1 DEF ValidParameters, UnconfiguredParameters
<1> QED
  BY <1>2 DEF IInv, Consistent, Owned

\* An active leg always belongs to a started window of its own direction that
\* covers the minimum on time: no order of requests, late ticks, reversals,
\* stops and run changes leaves the output on without its window.
THEOREM PlannerOutputOwned == Spec => []OutputOwnedByWindow
BY OwnedByInvariant, PlannerInvariant, PTL

\* A leg is switched on only after the minimum off time and, after the other
\* direction, the polarity dead time, and never straight from the other
\* direction.
THEOREM PlannerSwitchOnSafe == Spec => SwitchOnSafe
<1>1. IInv /\ [Next]_vars =>
        [phys'.direction \notin {Idle, phys.direction} =>
           /\ phys.direction = Idle
           /\ phys.offAt # None =>
                /\ now' - phys.offAt >= params.minimumOff
                /\ phys.offDirection # phys'.direction =>
                     now' - phys.offAt >= params.polarityDeadTime]_vars
  BY NextIInv DEF StepSafe, Armed
<1> QED
  BY <1>1, PlannerInvariant, PTL DEF Spec, SwitchOnSafe

\* A tick cuts an on phase short of its minimum on time only for an immediate
\* stop reason of class I.
THEOREM PlannerMinimumOnKept == Spec => MinimumOnKept
<1>1. IInv /\ [Next]_vars =>
        [/\ phys.direction # Idle
         /\ phys'.direction = Idle
         /\ now' # now
         /\ now' - phys.onSince < params.minimumOn
         => result'.reason \in ImmediateStopReasons]_vars
  BY NextIInv DEF StepSafe
<1> QED
  BY <1>1, PlannerInvariant, PTL DEF Spec, MinimumOnKept

-----------------------------------------------------------------------------
(* The loop: planner and orchestrator, observed *)

LoopTypeOK ==
  /\ process \in [state: ProcessStates, revision: 0 .. MaxRevision]
  /\ snapshot \in ParameterSets \cup {None}
  /\ controller \in [next: Nat, window: Nat \cup {None}]
  /\ outstanding \in Evaluations \cup {None}
  /\ outstanding # None /\ outstanding.class \in DemandClasses =>
       outstanding.direction \in ActiveDirections
  /\ pendingFeedback \in Feedbacks \cup {None}

ObservedTypeOK ==
  obs \in [outerUntil: Nat, innerUntil: Nat, acceptedAt: Nat \cup {None},
           offDirection: ActiveDirections \cup {None}, asked: Directions,
           askedSince: Nat, proved: SUBSET ActiveDirections]

\* The output is on for a command taken at the last heartbeat, which the
\* observer saw, and which the watchdog still accepts.
Alive ==
  /\ wd.heartbeat # None => obs.acceptedAt = wd.heartbeat
  /\ plan.accepted # None => wd.heartbeat # None
  /\ phys.direction # Idle =>
       plan.accepted # None /\ now - wd.heartbeat < params.requestWatchdog

\* A fan that still has to run is on, and its deadline is no earlier than the
\* time it has to run to, as far as the clock goes.
Held(t, until, active, deadline) ==
  t < TimestampMax /\ t < until =>
    /\ active
    /\ deadline # None
    /\ deadline >= until \/ deadline >= TimestampMax

FansHeld ==
  /\ Held(now, obs.outerUntil, phys.outerFan, phys.outerFanDeadline)
  /\ Held(now, obs.innerUntil, inner.active, inner.deadline)

\* The planner's observation of the other direction is no older than the
\* demand for it, and a window in the other direction has been proved.
Watched ==
  /\ obs.asked = EligibleDirection(plan, params)
  /\ obs.askedSince <= now
  /\ plan.candidate # None =>
       /\ obs.asked = plan.candidate
       /\ obs.askedSince <= plan.observedSince
       /\ plan.observedSince <= now
  /\ plan.confirmed => plan.candidate # None
  /\ phys.direction = Idle => obs.offDirection = phys.offDirection
  /\ /\ phys.direction = Idle /\ plan.window # None
     /\ obs.offDirection \notin {None, plan.window.direction}
     => plan.window.direction \in obs.proved

LoopInv ==
  /\ IInv /\ LoopTypeOK /\ ObservedTypeOK
  /\ Alive /\ FansHeld /\ Watched

-----------------------------------------------------------------------------
(* The output: fan deadlines and the direction switched off last.          *)

\* What a change of the output from ph to r at time t leaves behind.
Kept(ph, r, t, p) ==
  /\ ph.outerFan => r.outerFan
  /\ ph.outerFanDeadline # None =>
       /\ r.outerFanDeadline # None
       /\ r.outerFanDeadline >= ph.outerFanDeadline
  /\ ph.direction # Idle /\ r.direction # ph.direction =>
       /\ r.outerFan /\ r.outerFanDeadline # None
       /\ \/ r.outerFanDeadline >= t + p.outerFanPostRun
          \/ r.outerFanDeadline >= TimestampMax
  /\ r.direction = Idle =>
       r.offDirection = IF ph.direction = Idle THEN ph.offDirection
                        ELSE ph.direction

\* An output that does not change.
LEMMA KeptSame ==
  ASSUME NEW ph \in Outputs, NEW t \in Timestamps, NEW p \in Parameters
  PROVE  Kept(ph, ph, t, p)
BY DEF Kept, Outputs

\* The later of two deadlines, where the new one ends with the clock.
LEMMA RetainedDeadline ==
  ASSUME NEW deadline \in Nat \cup {None}, NEW t \in Timestamps,
         NEW duration \in Nat
  PROVE  LET r == RetainLaterDeadline(deadline, SaturatingDeadline(t, duration))
         IN  /\ r \in Nat /\ r # None
             /\ deadline # None => r >= deadline
             /\ r >= t + duration \/ r >= TimestampMax
BY BoundsAssumption, NoneAssumption
DEF RetainLaterDeadline, SaturatingDeadline

\* setPhysicalDirection() keeps the promises of the outer fan.
LEMMA SetKept ==
  ASSUME NEW ph \in Outputs, NEW next \in Directions, NEW t \in Timestamps,
         NEW p \in Parameters
  PROVE  Kept(ph, SetPhysicalDirection(ph, next, t, p), t, p)
<1> DEFINE retained == RetainLaterDeadline(ph.outerFanDeadline,
                          SaturatingDeadline(t, p.outerFanPostRun))
           off == Deactivate(ph, t, p)
           r == SetPhysicalDirection(ph, next, t, p)
<1>1. /\ retained \in Nat /\ retained # None
      /\ ph.outerFanDeadline # None => retained >= ph.outerFanDeadline
      /\ retained >= t + p.outerFanPostRun \/ retained >= TimestampMax
  BY RetainedDeadline DEF Outputs, Parameters
<1>2. /\ off.outerFan /\ off.outerFanDeadline = retained
      /\ off.offDirection = ph.direction /\ off.direction = Idle
  BY DEF Deactivate, Outputs
<1> HIDE DEF retained
<1>3. ASSUME NEW o
      PROVE  LET s == [o EXCEPT !.direction = next, !.onSince = t,
                                !.outerFan = TRUE, !.outerFanRequestedAt = None]
             IN  o \in Outputs => /\ s.outerFan
                                  /\ s.outerFanDeadline = o.outerFanDeadline
                                  /\ s.direction = next
  BY DEF Outputs
<1>4. ph.direction # Idle => off \in Outputs
  <2>1. t \in Nat
    BY BoundsAssumption
  <2> QED
    BY <1>1, <2>1 DEF Deactivate, Outputs, Directions, ActiveDirections,
                      retained
<1> HIDE DEF off
<1>5. CASE ph.direction = next
  BY <1>5, KeptSame DEF SetPhysicalDirection
<1>6. CASE ph.direction # next /\ next = Idle
  <2>1. r = off
    BY <1>6 DEF SetPhysicalDirection, off
  <2> QED
    BY <2>1, <1>1, <1>2, <1>6 DEF Kept
<1>7. CASE ph.direction # next /\ next # Idle /\ ph.direction = Idle
  <2>1. r = Activate(ph, next, t)
    BY <1>7 DEF SetPhysicalDirection
  <2>2. /\ r.outerFan /\ r.outerFanDeadline = ph.outerFanDeadline
        /\ r.direction = next
    BY <2>1, <1>3 DEF Activate
  <2>3. ph.outerFanDeadline \in Nat \cup {None}
    BY DEF Outputs
  <2> HIDE DEF r
  <2> QED
    BY <2>2, <2>3, <1>7 DEF Kept, r
<1>8. CASE ph.direction # next /\ next # Idle /\ ph.direction # Idle
  <2>1. r = Activate(off, next, t)
    BY <1>8 DEF SetPhysicalDirection, off
  <2>2. /\ r.outerFan /\ r.outerFanDeadline = off.outerFanDeadline
        /\ r.direction = next
    BY <2>1, <1>3, <1>4, <1>8 DEF Activate
  <2> HIDE DEF r
  <2> QED
    BY <2>2, <1>1, <1>2, <1>8 DEF Kept, r
<1> QED
  BY <1>5, <1>6, <1>7, <1>8

\* Two changes in one tick, the first of which only switches off.
LEMMA KeptTwice ==
  ASSUME NEW ph \in Outputs, NEW q \in Outputs, NEW r \in Outputs,
         NEW t \in Timestamps, NEW p \in Parameters,
         Kept(ph, q, t, p), Kept(q, r, t, p), q = ph \/ q.direction = Idle
  PROVE  Kept(ph, r, t, p)
<1>1. /\ \A x \in {ph, q, r} : x.outerFanDeadline \in Nat \cup {None}
      /\ TimestampMax \in Nat /\ t \in Nat /\ p.outerFanPostRun \in Nat
  BY BoundsAssumption DEF Outputs, Parameters
<1>2. CASE q = ph
  BY <1>2
<1>3. CASE q.direction = Idle
  BY <1>1, <1>3 DEF Kept
<1> QED
  BY <1>2, <1>3

-----------------------------------------------------------------------------
(* The demand rules: what they leave of the observed direction.            *)

SameWatch(r, pl) ==
  /\ r.accepted = pl.accepted /\ r.candidate = pl.candidate
  /\ r.observedSince = pl.observedSince /\ r.confirmed = pl.confirmed

\* A result that goes on with the window there is, or drops it.
Continues(r, pl, ph, t, p) ==
  /\ r.plan \in Plans /\ r.phys \in Outputs
  /\ SameWatch(r.plan, pl)
  /\ r.plan.window # None =>
       /\ pl.window # None
       /\ r.plan.window.direction = pl.window.direction
  /\ Kept(ph, r.phys, t, p)

\* A new window leaves the observed direction alone.
LEMMA WindowReplaced ==
  ASSUME NEW pl \in Plans, NEW w \in Windows
  PROVE  LET r == [pl EXCEPT !.window = w]
         IN  r \in Plans /\ SameWatch(r, pl) /\ r.window = w
BY DEF Plans, SameWatch

\* Dropping the window leaves the observed direction alone.
LEMMA DropWindowWatch ==
  ASSUME NEW pl \in Plans
  PROVE  /\ DropWindow(pl) \in Plans /\ DropWindow(pl).window = None
         /\ SameWatch(DropWindow(pl), pl)
<1>1. SameWatch(DropWindow(pl), pl)
  BY DEF DropWindow, Plans, SameWatch
<1> QED
  BY <1>1, ClearedPlanTypes

\* Following the window there is, in each of the three rules that do so.
LEMMA FollowContinues ==
  ASSUME NEW pl \in Plans, NEW ph \in Outputs, NEW t \in Timestamps,
         NEW p \in ValidSet, Followable(pl, ph, t, p), NEW command
  PROVE  /\ Continues(RunWindow(pl, ph, command, t, p), pl, ph, t, p)
         /\ Continues(KeepOldWindow(pl, ph, t, p), pl, ph, t, p)
         /\ Continues(EndOldDirection(pl, ph, t, p), pl, ph, t, p)
<1> DEFINE w == pl.window
           tick == WindowPhysicalTick(w, ph, t, p)
           next == [pl EXCEPT !.window = tick.window]
           on == SetPhysicalDirection(ph, w.direction, t, p)
           off == SetPhysicalDirection(ph, Idle, t, p)
<1>1. /\ p \in Parameters /\ w.direction \in Directions /\ Idle \in Directions
      /\ w \in Windows /\ w.start <= t /\ (w.started => w.attempted)
      /\ w # None /\ t \in Nat
  BY BoundsAssumption, NoneAssumption
  DEF Followable, WindowSound, ValidSet, Windows, ActiveDirections, Directions
<1>2. tick.window \in Windows /\ tick.window.direction = w.direction
  BY <1>1, WindowPhysicalTickEffect
<1> HIDE DEF tick
<1>3. /\ next \in Plans /\ SameWatch(next, pl)
      /\ next.window # None => next.window.direction = pl.window.direction
  BY <1>2, WindowReplaced
<1>4. /\ on \in Outputs /\ Kept(ph, on, t, p)
      /\ off \in Outputs /\ Kept(ph, off, t, p)
      /\ Kept(ph, ph, t, p)
  BY <1>1, SetKept, KeptSame, SetPhysicalDirectionEffect
<1>5. ASSUME NEW r, r.plan = next, r.phys \in {ph, on, off}
      PROVE  Continues(r, pl, ph, t, p)
  BY <1>1, <1>3, <1>4, <1>5 DEF Continues
<1>6. /\ FollowWindow(pl, ph, t, p).plan = next
      /\ FollowWindow(pl, ph, t, p).phys \in {ph, on, off}
  BY DEF FollowWindow, tick
<1>7. Continues(RunWindow(pl, ph, command, t, p), pl, ph, t, p)
  <2>1. /\ RunWindow(pl, ph, command, t, p).plan
             = FollowWindow(pl, ph, t, p).plan
        /\ RunWindow(pl, ph, command, t, p).phys
             = FollowWindow(pl, ph, t, p).phys
    BY DEF RunWindow, FollowWindow
  <2> QED
    BY <2>1, <1>5, <1>6
<1>8. Continues(KeepOldWindow(pl, ph, t, p), pl, ph, t, p)
  <2>1. /\ KeepOldWindow(pl, ph, t, p).plan = FollowWindow(pl, ph, t, p).plan
        /\ KeepOldWindow(pl, ph, t, p).phys = FollowWindow(pl, ph, t, p).phys
    BY DEF KeepOldWindow, FollowWindow
  <2> QED
    BY <2>1, <1>5, <1>6
<1>9. Continues(EndOldDirection(pl, ph, t, p), pl, ph, t, p)
  <2>1. CASE MinimumOnOver(ph, t, p)
    <3>1. /\ EndOldDirection(pl, ph, t, p).plan = DropWindow(pl)
          /\ EndOldDirection(pl, ph, t, p).phys = off
      BY <2>1 DEF EndOldDirection
    <3> HIDE DEF off
    <3> QED
      BY <3>1, <1>4, DropWindowWatch DEF Continues
  <2>2. CASE ~MinimumOnOver(ph, t, p)
    <3>1. /\ EndOldDirection(pl, ph, t, p).plan = next
          /\ EndOldDirection(pl, ph, t, p).phys \in {ph, on, off}
      BY <2>2 DEF EndOldDirection, tick
    <3> QED
      BY <3>1, <1>5
  <2> QED
    BY <2>1, <2>2
<1> QED
  BY <1>7, <1>8, <1>9

\* The end of a window: renewed in its direction, dropped in the other.
LEMMA AdvanceContinues ==
  ASSUME NEW pl \in Plans, NEW ph \in Outputs, NEW command \in ActiveCommands,
         NEW t \in Timestamps, NEW p \in ValidSet,
         pl.window # None => pl.window.start <= t
  PROVE  LET r == AdvanceWindow(pl, ph, command, t, p)
         IN  /\ Continues(r, pl, ph, t, p)
             /\ r.phys = ph \/ r.phys.direction = Idle
<1> DEFINE w == pl.window
           r == AdvanceWindow(pl, ph, command, t, p)
           off == SetPhysicalDirection(ph, Idle, t, p)
<1>1. p \in Parameters /\ Idle \in Directions /\ t \in Nat
  BY BoundsAssumption DEF ValidSet, Directions
<1>2. /\ off \in Outputs /\ Kept(ph, off, t, p) /\ off.direction = Idle
      /\ Kept(ph, ph, t, p)
  BY <1>1, SetKept, KeptSame, SetPhysicalDirectionEffect
<1> HIDE DEF off
<1>3. CASE w = None \/ ~WindowExpired(w, t, p)
  <2>1. r.plan = pl /\ r.phys = ph
    BY <1>3 DEF AdvanceWindow
  <2> QED
    BY <2>1, <1>2 DEF Continues, SameWatch
<1>4. CASE /\ w # None /\ WindowExpired(w, t, p)
           /\ w.direction = command.direction
  <2> DEFINE start == RebasedStart(w, t, p)
             fresh == StartFreshWindow(pl, command, start, p)
  <2>1. w \in Windows
    BY <1>4 DEF Plans
  <2>2. start \in Nat
    BY <2>1, <1>1, <1>4, RebasedStartBounds
  <2>3. r.plan = fresh /\ r.phys = ph
    BY <1>4 DEF AdvanceWindow
  <2> HIDE DEF start, r
  <2>4. FreshWindow(fresh, pl, command, start, p)
    BY <2>2, StartFreshWindowEffect
  <2> HIDE DEF fresh
  <2> QED
    BY <2>3, <2>4, <1>2, <1>4 DEF Continues, SameWatch, FreshWindow, r
<1>5. CASE /\ w # None /\ WindowExpired(w, t, p)
           /\ w.direction # command.direction
  <2>1. r.plan = DropWindow(pl) /\ r.phys \in {ph, off}
    BY <1>5 DEF AdvanceWindow, off
  <2> HIDE DEF r
  <2> QED
    BY <2>1, <1>2, DropWindowWatch DEF Continues, r
<1> QED
  BY <1>3, <1>4, <1>5

\* The command asks for its direction strongly enough to be observed.
Eligible(command, p) ==
  command.class \in DemandClasses /\ command.quote >= p.quoteThreshold

\* The direction of this command has been observed for the whole time.
Confirmed(pl, command, t, p) ==
  /\ Eligible(command, p)
  /\ pl.candidate = command.direction
  /\ t - pl.observedSince >= p.confirmationDuration

\* The observation after a demand was looked at.
Observes(r, pl, command, t, p) ==
  /\ r.accepted = pl.accepted
  /\ r.candidate \in {None, command.direction}
  /\ r.confirmed => r.candidate # None
  /\ r.candidate # None =>
       /\ Eligible(command, p)
       /\ \/ r.observedSince = t
          \/ /\ pl.candidate = command.direction
             /\ r.observedSince = pl.observedSince

\* A direction is confirmed only after its whole observation time.
LEMMA TrackObserves ==
  ASSUME NEW pl \in Plans, NEW reference, NEW command \in ActiveCommands,
         NEW t \in Timestamps, NEW p \in ValidSet
  PROVE  LET r == TrackCounterDirection(pl, reference, command, t, p)
         IN  /\ r \in Plans /\ r.window = pl.window
             /\ Observes(r, pl, command, t, p)
             /\ r.confirmed => Confirmed(pl, command, t, p)
<1> DEFINE since == IF pl.candidate = command.direction
                    THEN pl.observedSince ELSE t
           reached == DeadlineReached(t, since, p.confirmationDuration)
           r == TrackCounterDirection(pl, reference, command, t, p)
           kept == [pl EXCEPT !.candidate = command.direction,
                              !.observedSince = since, !.confirmed = reached]
           eligible == /\ Eligible(command, p)
                       /\ \/ reference # Idle /\ reference # command.direction
                          \/ pl.candidate = command.direction
<1>1. /\ t \in Nat /\ p.confirmationDuration \in Nat
      /\ p.confirmationDuration > 0 /\ p \in Parameters
      /\ command.direction \in ActiveDirections
      /\ command.direction # None
  BY BoundsAssumption, NoneAssumption
  DEF ValidSet, Parameters, ValidParameters, ActiveCommands, Directions,
      ActiveDirections
<1>2. reached => pl.candidate = command.direction
                 /\ t - pl.observedSince >= p.confirmationDuration
  BY <1>1 DEF DeadlineReached
<1>3. r = IF eligible THEN kept ELSE ResetCandidate(pl)
  BY DEF TrackCounterDirection, Eligible
<1>4. r \in Plans /\ r.window = pl.window
  BY <1>1, TrackCounterDirectionEffect
<1> HIDE DEF r, reached
<1>5. CASE eligible
  <2>1. /\ r.accepted = pl.accepted /\ r.candidate = command.direction
        /\ r.observedSince = since /\ r.confirmed = reached
    BY <1>3, <1>5 DEF Plans
  <2> QED
    BY <2>1, <1>1, <1>2, <1>4, <1>5 DEF Observes, Confirmed, r
<1>6. CASE ~eligible
  <2>1. /\ r.accepted = pl.accepted /\ r.candidate = None /\ ~r.confirmed
    BY <1>3, <1>6 DEF ResetCandidate, Plans
  <2> QED
    BY <2>1, <1>4 DEF Observes, r
<1> QED
  BY <1>5, <1>6

\* The reason a window in the direction of the command may be opened.
MayOpen(pl, ph, command, t, p) ==
  \/ Confirmed(pl, command, t, p)
  \/ ReferenceDirection(pl, ph) \in {Idle, command.direction}

\* The outcome of the demand rules.
Outcome(r, pl, ph, command, t, p) ==
  /\ Observes(r.plan, pl, command, t, p)
  /\ Kept(ph, r.phys, t, p)
  /\ r.plan.window # None =>
       \/ /\ pl.window # None
          /\ r.plan.window.direction = pl.window.direction
       \/ /\ r.plan.window.direction = command.direction
          /\ MayOpen(pl, ph, command, t, p)

\* Opening a window with the plan pl and the output ph.
LEMMA OpenContinues ==
  ASSUME NEW pl \in Plans, NEW ph \in Outputs, NEW reference,
         NEW command \in ActiveCommands, NEW t \in Timestamps,
         NEW p \in ValidSet, AnchorsPast(ph, t), ph.direction = Idle,
         pl.window = None, pl.candidate \in {None, command.direction}
  PROVE  LET r == OpenWindow(pl, ph, reference, command, t, p)
         IN  /\ r.plan \in Plans /\ r.phys \in Outputs
             /\ Kept(ph, r.phys, t, p)
             /\ r.plan.accepted = pl.accepted
             /\ \/ r.plan.candidate = None /\ ~r.plan.confirmed
                \/ SameWatch(r.plan, pl)
             /\ r.plan.window # None =>
                  /\ r.plan.window.direction = command.direction
                  /\ pl.confirmed \/ reference \in {Idle, command.direction}
<1> DEFINE r == OpenWindow(pl, ph, reference, command, t, p)
           Fresh(base) == StartFreshWindow(base, command, t, p)
           Open(base) == RunWindow(Fresh(base), ph, command, t, p)
<1>1. t \in Nat /\ p \in Parameters
  BY BoundsAssumption DEF ValidSet
<1>2. ASSUME NEW base \in Plans
      PROVE  /\ Open(base).plan \in Plans /\ Open(base).phys \in Outputs
             /\ Kept(ph, Open(base).phys, t, p)
             /\ SameWatch(Open(base).plan, base)
             /\ Open(base).plan.window # None =>
                  Open(base).plan.window.direction = command.direction
  <2>1. FreshWindow(Fresh(base), base, command, t, p)
    BY <1>1, StartFreshWindowEffect
  <2> HIDE DEF Fresh
  <2>2. Fresh(base) \in Plans /\ Followable(Fresh(base), ph, t, p)
    BY <1>1, <2>1
    DEF FreshWindow, Followable, WindowSound, Owned, ValidSet
  <2>3. Continues(Open(base), Fresh(base), ph, t, p)
    BY <2>2, FollowContinues
  <2> HIDE DEF Open
  <2> QED
    BY <2>1, <2>3 DEF Continues, SameWatch, FreshWindow
<1> DEFINE reset == ResetCandidate(pl)
<1>3. /\ reset \in Plans /\ reset.accepted = pl.accepted
      /\ reset.candidate = None /\ ~reset.confirmed
  <2>1. reset \in Plans
    BY ClearedPlanTypes
  <2>2. /\ reset.accepted = pl.accepted
        /\ reset.candidate = None /\ ~reset.confirmed
    BY DEF ResetCandidate, Plans
  <2> QED
    BY <2>1, <2>2
<1>4. \/ r.plan = pl /\ r.phys = ph
      \/ r = Open(reset) /\ pl.confirmed
      \/ r = Open(pl) /\ reference \in {Idle, command.direction}
  BY DEF OpenWindow
<1>5. Kept(ph, ph, t, p)
  BY <1>1, KeptSame
<1> HIDE DEF r, Open, reset
<1>6. CASE r.plan = pl /\ r.phys = ph
  BY <1>5, <1>6 DEF SameWatch, r
<1>7. CASE r = Open(reset) /\ pl.confirmed
  <2>1. /\ r.plan \in Plans /\ r.phys \in Outputs /\ Kept(ph, r.phys, t, p)
        /\ SameWatch(r.plan, reset)
        /\ r.plan.window # None => r.plan.window.direction = command.direction
    BY <1>2, <1>3, <1>7
  <2>2. /\ r.plan.accepted = pl.accepted
        /\ r.plan.candidate = None /\ ~r.plan.confirmed
    BY <1>3, <2>1 DEF SameWatch
  <2> QED
    BY <1>7, <2>1, <2>2 DEF r
<1>8. CASE r = Open(pl) /\ reference \in {Idle, command.direction}
  BY <1>2, <1>8 DEF SameWatch, r
<1> QED
  BY <1>4, <1>6, <1>7, <1>8

\* The demand rules open a window only where MayOpen allows one.
LEMMA DemandOutcome ==
  ASSUME NEW pl0 \in Plans, NEW ph0 \in Outputs,
         NEW command \in ActiveCommands, NEW t \in Timestamps,
         NEW p \in ValidSet, Consistent(pl0, ph0, t, p)
  PROVE  Outcome(EvaluateHeatingCoolingDemand(pl0, ph0, command, t, p),
                 pl0, ph0, command, t, p)
<1> DEFINE reference == ReferenceDirection(pl0, ph0)
           advanced == AdvanceWindow(pl0, ph0, command, t, p)
           pl == TrackCounterDirection(advanced.plan, reference, command, t, p)
           ph == advanced.phys
           r == EvaluateHeatingCoolingDemand(pl0, ph0, command, t, p)
           foreign == /\ pl.window # None
                      /\ pl.window.direction # command.direction
<1>1. /\ Continues(advanced, pl0, ph0, t, p)
      /\ ph = ph0 \/ ph.direction = Idle
      /\ Governed(advanced.plan, ph, t, p)
      /\ advanced.plan \in Plans /\ ph \in Outputs
  <2>1. pl0.window # None => pl0.window.start <= t
    BY DEF Consistent, WindowSound
  <2> QED
    BY <2>1, AdvanceContinues, AdvanceWindowEffect
<1>2. p \in Parameters
  BY DEF ValidSet
<1> HIDE DEF advanced, reference
<1>3. /\ pl \in Plans /\ pl.window = advanced.plan.window
      /\ Observes(pl, advanced.plan, command, t, p)
      /\ pl.confirmed => Confirmed(advanced.plan, command, t, p)
  BY <1>1, TrackObserves
<1>4. r = IF foreign /\ ~pl.confirmed
          THEN KeepOldWindow(pl, ph, t, p)
          ELSE IF foreign /\ ph.direction = pl.window.direction
          THEN EndOldDirection(pl, ph, t, p)
          ELSE IF foreign
          THEN OpenWindow(DropWindow(pl), ph, reference, command, t, p)
          ELSE IF pl.window = None
          THEN OpenWindow(pl, ph, reference, command, t, p)
          ELSE RunWindow(pl, ph, command, t, p)
  BY DEF EvaluateHeatingCoolingDemand, advanced, reference
<1> HIDE DEF pl, r
<1>5. Governed(pl, ph, t, p)
  BY <1>1, <1>3 DEF Governed, Followable
<1>6. /\ Observes(pl, pl0, command, t, p)
      /\ pl.confirmed => Confirmed(pl0, command, t, p)
      /\ pl.window # None => /\ pl0.window # None
                             /\ pl.window.direction = pl0.window.direction
      /\ Kept(ph0, ph, t, p)
  BY <1>1, <1>3 DEF Continues, SameWatch, Observes, Confirmed
<1> HIDE DEF ph
<1>7. ASSUME Continues(r, pl, ph, t, p)
      PROVE  Outcome(r, pl0, ph0, command, t, p)
  <2>1. Kept(ph0, r.phys, t, p)
    BY <1>1, <1>2, <1>6, <1>7, KeptTwice DEF Continues
  <2>2. Observes(r.plan, pl0, command, t, p)
    BY <1>6, <1>7 DEF Continues, SameWatch, Observes
  <2> QED
    BY <2>1, <2>2, <1>6, <1>7 DEF Continues, Outcome
<1>8. ASSUME NEW base \in Plans, SameWatch(base, pl), base.window = None,
             ph.direction = Idle, AnchorsPast(ph, t),
             r = OpenWindow(base, ph, reference, command, t, p)
      PROVE  Outcome(r, pl0, ph0, command, t, p)
  <2>1. base.candidate \in {None, command.direction}
    BY <1>6, <1>8 DEF SameWatch, Observes
  <2>2. /\ r.plan \in Plans /\ r.phys \in Outputs
        /\ Kept(ph, r.phys, t, p)
        /\ r.plan.accepted = base.accepted
        /\ \/ r.plan.candidate = None /\ ~r.plan.confirmed
           \/ SameWatch(r.plan, base)
        /\ r.plan.window # None =>
             /\ r.plan.window.direction = command.direction
             /\ base.confirmed \/ reference \in {Idle, command.direction}
    BY <1>1, <1>8, <2>1, OpenContinues
  <2>3. Kept(ph0, r.phys, t, p)
    BY <1>1, <1>2, <1>6, <2>2, KeptTwice
  <2>4. r.plan.confirmed => r.plan.candidate # None
    BY <1>6, <1>8, <2>2 DEF SameWatch, Observes
  <2>5. Observes(r.plan, pl0, command, t, p)
    BY <1>6, <1>8, <2>2, <2>4 DEF SameWatch, Observes
  <2>6. base.confirmed \/ reference \in {Idle, command.direction} =>
          MayOpen(pl0, ph0, command, t, p)
    BY <1>6, <1>8 DEF SameWatch, MayOpen, reference
  <2> QED
    BY <2>2, <2>3, <2>5, <2>6 DEF Outcome
<1>9. CASE pl.window # None
  <2>1. Followable(pl, ph, t, p)
    BY <1>5, <1>9 DEF Governed
  <2>2. CASE foreign /\ pl.confirmed /\ ph.direction # pl.window.direction
    <3>1. ph.direction = Idle /\ AnchorsPast(ph, t)
      BY <2>1, <2>2 DEF Followable, Owned
    <3>2. r = OpenWindow(DropWindow(pl), ph, reference, command, t, p)
      BY <1>4, <2>2
    <3> QED
      BY <3>1, <3>2, <1>3, <1>8, DropWindowWatch DEF r
  <2>3. CASE ~(foreign /\ pl.confirmed /\ ph.direction # pl.window.direction)
    <3>1. r \in {KeepOldWindow(pl, ph, t, p), EndOldDirection(pl, ph, t, p),
                 RunWindow(pl, ph, command, t, p)}
      BY <1>4, <1>9, <2>3
    <3>2. Continues(r, pl, ph, t, p)
      BY <3>1, <2>1, <1>1, <1>3, FollowContinues
    <3> QED
      BY <3>2, <1>7 DEF r
  <2> QED
    BY <2>2, <2>3
<1>10. CASE pl.window = None
  <2>1. r = OpenWindow(pl, ph, reference, command, t, p)
    BY <1>4, <1>10
  <2>2. ph.direction = Idle /\ AnchorsPast(ph, t)
    BY <1>5, <1>10 DEF Governed
  <2>3. SameWatch(pl, pl)
    BY DEF SameWatch
  <2> QED
    BY <2>1, <2>2, <2>3, <1>3, <1>8, <1>10 DEF r
<1> QED
  BY <1>9, <1>10 DEF r

-----------------------------------------------------------------------------
(* What the observer notes in a step.                                      *)

\* The output ends, or changes its direction.
Ending == phys.direction # Idle /\ phys'.direction # phys.direction

\* A controlled phase is left with the inner fan running for it.
Leaving ==
  /\ Controlled(process.state) /\ process' # process
  /\ NeedsRuntimeReset(process.state, process'.state, FALSE, FALSE)
  /\ inner.active /\ inner.requestedAt = None

Noted ==
  /\ ObservedTypeOK'
  /\ obs'.asked = EligibleDirection(plan', params')
  /\ obs'.askedSince = IF obs'.asked = obs.asked THEN obs.askedSince ELSE now'
  /\ obs'.outerUntil = IF Ending THEN Later(obs.outerUntil,
                                            now' + params.outerFanPostRun)
                       ELSE obs.outerUntil
  /\ obs'.innerUntil = IF Leaving THEN Later(obs.innerUntil,
                                             now + params.innerFanPostRun)
                       ELSE obs.innerUntil
  /\ obs'.acceptedAt = IF /\ outstanding # None /\ outstanding' = None
                          /\ result'.admission = "Accepted"
                       THEN now' ELSE obs.acceptedAt
  /\ obs'.offDirection = IF Ending THEN phys.direction ELSE obs.offDirection
  /\ \A d \in ActiveDirections : phys'.direction \in {Idle, d} =>
       /\ d \in obs.proved => d \in obs'.proved
       /\ /\ d = obs'.asked
          /\ now' - obs'.askedSince >= params'.confirmationDuration
          => d \in obs'.proved

\* The observer's record of a step, field by field.
LEMMA ObserverNotes ==
  ASSUME TypeOK, TypeOK', ObservedTypeOK, ObsNext
  PROVE  Noted
<1>1. /\ now \in Nat /\ now' \in Nat /\ params \in Parameters
      /\ plan' \in Plans /\ phys \in Outputs /\ phys' \in Outputs
  BY BoundsAssumption, ParameterSetsAssumption
  DEF TypeOK, UnconfiguredParameters, Parameters
<1>2. params.outerFanPostRun \in Nat /\ params.innerFanPostRun \in Nat
  BY <1>1 DEF Parameters
<1> DEFINE asked == EligibleDirection(plan', params')
           since == IF asked = obs.asked THEN obs.askedSince ELSE now'
           outer == IF Ending THEN Later(obs.outerUntil,
                                         now' + params.outerFanPostRun)
                    ELSE obs.outerUntil
           inside == IF Leaving THEN Later(obs.innerUntil,
                                           now + params.innerFanPostRun)
                     ELSE obs.innerUntil
           accepted == IF /\ outstanding # None /\ outstanding' = None
                          /\ result'.admission = "Accepted"
                       THEN now' ELSE obs.acceptedAt
           off == IF Ending THEN phys.direction ELSE obs.offDirection
           proved == (obs.proved \cup
                        (IF /\ asked # Idle
                            /\ now' - since >= params'.confirmationDuration
                         THEN {asked} ELSE {}))
                     \ (IF phys'.direction = Idle THEN {}
                        ELSE ActiveDirections \ {phys'.direction})
<1>3. obs' = [outerUntil |-> outer, innerUntil |-> inside,
              acceptedAt |-> accepted, offDirection |-> off, asked |-> asked,
              askedSince |-> since, proved |-> proved]
  BY DEF ObsNext, Ending, Leaving
<1>4. asked \in Directions
  <2>1. plan'.accepted \in Commands \cup {None}
    BY <1>1 DEF Plans
  <2> QED
    BY <2>1 DEF EligibleDirection, Commands, Directions
<1>5. /\ obs.outerUntil \in Nat /\ obs.innerUntil \in Nat
      /\ obs.acceptedAt \in Nat \cup {None}
      /\ obs.offDirection \in ActiveDirections \cup {None}
      /\ obs.askedSince \in Nat /\ obs.proved \in SUBSET ActiveDirections
  BY DEF ObservedTypeOK
<1>6. /\ outer \in Nat /\ inside \in Nat /\ accepted \in Nat \cup {None}
      /\ since \in Nat
  BY <1>1, <1>2, <1>5 DEF Later
<1>7. off \in ActiveDirections \cup {None}
  BY <1>1, <1>5 DEF Ending, Outputs, Directions, ActiveDirections
<1>8. proved \in SUBSET ActiveDirections
  BY <1>4, <1>5 DEF Directions, ActiveDirections
<1>9. \A d \in ActiveDirections : phys'.direction \in {Idle, d} =>
         /\ d \in obs.proved => d \in proved
         /\ d = asked /\ now' - since >= params'.confirmationDuration
            => d \in proved
  BY DirectionsAssumption DEF ActiveDirections
<1> HIDE DEF asked, since, outer, inside, accepted, off, proved
<1>10. ObservedTypeOK'
  BY <1>3, <1>4, <1>6, <1>7, <1>8 DEF ObservedTypeOK
<1>11. /\ obs'.asked = asked /\ obs'.askedSince = since
       /\ obs'.outerUntil = outer /\ obs'.innerUntil = inside
       /\ obs'.acceptedAt = accepted /\ obs'.offDirection = off
       /\ obs'.proved = proved
  BY <1>3
<1> QED
  BY <1>9, <1>10, <1>11
  DEF Noted, asked, since, outer, inside, accepted, off

\* What a step does to the observation of a direction and to the window.
Turned ==
  /\ plan'.confirmed => plan'.candidate # None
  /\ plan'.candidate # None =>
       /\ EligibleDirection(plan', params') = plan'.candidate
       /\ \/ plan'.observedSince = now'
          \/ /\ plan.candidate = plan'.candidate
             /\ plan'.observedSince = plan.observedSince
  /\ plan'.window # None =>
       \/ /\ plan.window # None
          /\ plan'.window.direction = plan.window.direction
       \/ /\ EligibleDirection(plan', params') = plan'.window.direction
          /\ plan.candidate = plan'.window.direction
          /\ now' - plan.observedSince >= params'.confirmationDuration
       \/ /\ plan.window = None
          /\ phys.offDirection \in {None, plan'.window.direction}
  /\ phys'.direction = Idle =>
       phys'.offDirection = IF phys.direction = Idle THEN phys.offDirection
                            ELSE phys.direction

Reversing ==
  /\ phys'.direction \notin {Idle, phys.direction}
  /\ obs.offDirection \notin {None, phys'.direction}
  => phys'.direction \in obs'.proved

\* A step that turns the plan lawfully keeps the observer's evidence.
LEMMA WatchedStep ==
  ASSUME IInv, IInv', StepSafe, ObservedTypeOK, Watched, Noted, Turned,
         now <= now'
  PROVE  Watched' /\ Reversing
<1>1. /\ now \in Nat /\ now' \in Nat /\ plan \in Plans /\ plan' \in Plans
      /\ phys \in Outputs /\ phys' \in Outputs
      /\ params' \in Parameters /\ params'.confirmationDuration \in Nat
  BY BoundsAssumption, ParameterSetsAssumption
  DEF IInv, TypeOK, UnconfiguredParameters, Parameters
<1>2. /\ plan.observedSince \in Nat /\ plan'.observedSince \in Nat
      /\ obs.askedSince \in Nat
      /\ plan.candidate \in ActiveDirections \cup {None}
      /\ plan'.candidate \in ActiveDirections \cup {None}
      /\ plan.window \in Windows \cup {None}
      /\ plan'.window \in Windows \cup {None}
      /\ None \notin Directions
  BY <1>1, NoneAssumption DEF Plans, ObservedTypeOK
<1>3. /\ obs'.asked = EligibleDirection(plan', params')
      /\ obs'.askedSince = IF obs'.asked = obs.asked THEN obs.askedSince
                           ELSE now'
      /\ obs'.offDirection = IF Ending THEN phys.direction
                             ELSE obs.offDirection
  BY DEF Noted
<1>4. obs'.askedSince <= now'
  BY <1>1, <1>2, <1>3 DEF Watched
<1>5. ASSUME plan'.candidate # None
      PROVE  /\ obs'.asked = plan'.candidate
             /\ obs'.askedSince <= plan'.observedSince
             /\ plan'.observedSince <= now'
  <2>1. obs'.asked = plan'.candidate
    BY <1>3, <1>5 DEF Turned
  <2>2. CASE plan'.observedSince = now'
    BY <2>1, <2>2, <1>1, <1>4
  <2>3. CASE plan.candidate = plan'.candidate
             /\ plan'.observedSince = plan.observedSince
    BY <2>1, <2>3, <1>1, <1>2, <1>3, <1>5 DEF Watched
  <2> QED
    BY <2>1, <2>2, <2>3, <1>5 DEF Turned
<1>6. ASSUME phys'.direction = Idle
      PROVE  obs'.offDirection = phys'.offDirection
  BY <1>3, <1>6 DEF Watched, Turned, Ending
<1>7. ASSUME plan'.window # None,
             phys'.direction \in {Idle, plan'.window.direction},
             phys.direction = Idle =>
               obs.offDirection \notin {None, plan'.window.direction},
             phys.direction # Idle =>
               phys.direction # plan'.window.direction
      PROVE  plan'.window.direction \in obs'.proved
  <2>1. plan'.window.direction \in ActiveDirections
    BY <1>2, <1>7 DEF Windows
  <2>2. CASE plan.window # None
             /\ plan'.window.direction = plan.window.direction
    <3>1. phys.direction = Idle
      BY <2>2, <1>7 DEF IInv, Consistent, Owned
    <3>2. plan.window.direction \in obs.proved
      BY <3>1, <2>2, <1>7 DEF Watched
    <3> QED
      BY <3>2, <2>1, <2>2, <1>7 DEF Noted
  <2>3. CASE /\ EligibleDirection(plan', params') = plan'.window.direction
             /\ plan.candidate = plan'.window.direction
             /\ now' - plan.observedSince >= params'.confirmationDuration
    <3>1. plan.candidate # None
      BY <2>1, <2>3, <1>2 DEF Directions, ActiveDirections
    <3>2. obs'.asked = plan'.window.direction /\ obs'.asked = obs.asked
      BY <3>1, <2>3, <1>3 DEF Watched
    <3>3. obs'.askedSince <= plan.observedSince /\ obs'.askedSince \in Nat
      BY <3>1, <3>2, <1>2, <1>3 DEF Watched
    <3>4. now' - obs'.askedSince >= params'.confirmationDuration
      BY <3>3, <2>3, <1>1, <1>2
    <3> QED
      BY <3>2, <3>4, <2>1, <1>7 DEF Noted
  <2>4. CASE plan.window = None
             /\ phys.offDirection \in {None, plan'.window.direction}
    <3>1. phys.direction = Idle
      BY <2>4 DEF IInv, Consistent
    <3> QED
      BY <3>1, <2>4, <1>7 DEF Watched
  <2> QED
    BY <2>2, <2>3, <2>4, <1>7 DEF Turned
<1>8. ASSUME phys'.direction = Idle, plan'.window # None,
             obs'.offDirection \notin {None, plan'.window.direction}
      PROVE  plan'.window.direction \in obs'.proved
  <2>1. phys.direction = Idle =>
          obs.offDirection \notin {None, plan'.window.direction}
    BY <1>3, <1>8 DEF Ending
  <2>2. phys.direction # Idle => phys.direction # plan'.window.direction
    BY <1>3, <1>8 DEF Ending
  <2> QED
    BY <2>1, <2>2, <1>7, <1>8
<1>9. Watched'
  BY <1>3, <1>4, <1>5, <1>6, <1>8 DEF Watched, Turned
<1>10. Reversing
  <2> SUFFICES ASSUME phys'.direction \notin {Idle, phys.direction},
                      obs.offDirection \notin {None, phys'.direction}
               PROVE  phys'.direction \in obs'.proved
    BY DEF Reversing
  <2>1. phys.direction = Idle
    BY DEF StepSafe
  <2>2. plan'.window # None /\ plan'.window.direction = phys'.direction
    BY DEF IInv, Consistent, Owned
  <2> QED
    BY <2>1, <2>2, <1>7
<1> QED
  BY <1>9, <1>10

-----------------------------------------------------------------------------
(* A tick of the loop: admission, taking over and the physical decision.   *)

\* What the admission phase does to the watchdog and what it admits.
Admitted(a, in, t, w) ==
  /\ a.wd.episode = w.episode
  /\ a.outcome = "Accepted" => in.evaluation # None /\ a.wd.heartbeat = t
  /\ a.outcome # "Accepted" =>
       a.candidate = None /\ a.wd.heartbeat = w.heartbeat
  /\ a.candidate # None =>
       /\ a.candidate.context = in.context
       /\ a.candidate.class \in DemandClasses =>
            a.candidate.direction \in ActiveDirections
       /\ a.candidate.class \in OffClasses \cup DemandClasses
            \cup {"NoValidRequest"}

\* Only an accepted evaluation moves the heartbeat or yields a command.
LEMMA RunPhaseAAdmits ==
  ASSUME NEW in \in TickInputs, NEW t \in Timestamps, NEW w \in Watchdogs,
         NEW f, NEW p,
         /\ in.evaluation # None /\ in.evaluation.class \in DemandClasses
         => in.evaluation.direction \in ActiveDirections
  PROVE  Admitted(RunPhaseA(in, t, w, f, p), in, t, w)
<1> DEFINE e == in.evaluation
           a == RunPhaseA(in, t, w, f, p)
<1>1. \A n : LET x == [w EXCEPT !.highWatermark = n]
                 y == [w EXCEPT !.highWatermark = n, !.heartbeat = t]
                 z == [w EXCEPT !.heartbeat = t]
             IN  /\ x.episode = w.episode /\ x.heartbeat = w.heartbeat
                 /\ y.episode = w.episode /\ y.heartbeat = t
                 /\ z.episode = w.episode /\ z.heartbeat = t
  BY DEF Watchdogs
<1>2. CASE e = None
  BY <1>2 DEF RunPhaseA, Admitted
<1>3. CASE e # None /\ e.class = "Malformed"
  BY <1>3 DEF RunPhaseA, Admitted
<1>4. CASE e # None /\ e.class = "NoValidRequest"
  <2>1. /\ a.outcome = "Accepted" /\ a.candidate = NoRequestCommand(in.context)
        /\ a.wd = [w EXCEPT !.heartbeat = t]
    BY <1>4 DEF RunPhaseA
  <2>2. /\ a.candidate.context = in.context
        /\ a.candidate.class = "NoValidRequest"
    BY <2>1 DEF NoRequestCommand
  <2> HIDE DEF a
  <2> QED
    BY <2>1, <2>2, <1>1, <1>4 DEF Admitted, DemandClasses, a
<1>5. CASE e # None /\ e.class \notin {"Malformed", "NoValidRequest"}
  <2> DEFINE subject == IF e.class \in DemandClasses THEN e.sequence ELSE None
             accepted ==
               [outcome |-> "Accepted", candidate |-> CommandOf(e),
                wd |-> [w EXCEPT !.highWatermark = e.sequence, !.heartbeat = t],
                fb |-> OpenFeedbackEpisode(subject)]
             unchanged ==
               [outcome |-> "DuplicateOrOldSequence", candidate |-> None,
                wd |-> w, fb |-> f]
  <2>1. e.class \in OffClasses \cup DemandClasses
    BY <1>5 DEF TickInputs, Evaluations
  <2>2. CASE a = accepted /\ e.context = in.context
    <3>1. /\ a.outcome = "Accepted" /\ a.candidate = CommandOf(e)
          /\ a.wd = [w EXCEPT !.highWatermark = e.sequence, !.heartbeat = t]
      BY <2>2
    <3>2. /\ a.candidate.context = in.context
          /\ a.candidate.class = e.class
          /\ e.class \in DemandClasses => a.candidate.direction = e.direction
      BY <3>1, <2>2 DEF CommandOf
    <3> HIDE DEF a
    <3> QED
      BY <3>1, <3>2, <2>1, <1>1, <1>5 DEF Admitted, a
  <2>3. CASE a = unchanged
    BY <2>3 DEF Admitted
  <2>4. ASSUME NEW outcome \in {"StaleOnArrivalWatchdog",
                                "StaleOnArrivalContext"},
               a = StaleOnArrival(w, e, outcome)
        PROVE  Admitted(a, in, t, w)
    <3>1. /\ a.outcome # "Accepted" /\ a.candidate = None
          /\ a.wd = [w EXCEPT !.highWatermark = e.sequence]
      BY <2>4 DEF StaleOnArrival
    <3> HIDE DEF a
    <3> QED
      BY <3>1, <1>1 DEF Admitted
  <2>5. \/ a = accepted /\ e.context = in.context
        \/ a = unchanged
        \/ a = StaleOnArrival(w, e, "StaleOnArrivalWatchdog")
        \/ a = StaleOnArrival(w, e, "StaleOnArrivalContext")
    BY <1>5 DEF RunPhaseA
  <2> QED
    BY <2>2, <2>3, <2>4, <2>5
<1> QED
  BY <1>2, <1>3, <1>4, <1>5

\* What taking over the candidate leaves of the observed direction.
TakenOver(r, pl, candidate) ==
  /\ r \in Plans /\ r.window = pl.window
  /\ r.accepted = IF candidate = None THEN pl.accepted ELSE candidate
  /\ candidate # None /\ candidate.class \in OffClasses =>
       r.candidate = None /\ ~r.confirmed
  /\ ~(candidate # None /\ candidate.class \in OffClasses) =>
       /\ r.candidate = pl.candidate /\ r.observedSince = pl.observedSince
       /\ r.confirmed = pl.confirmed

\* Only an off command interrupts the observation of a direction.
LEMMA TakeOverWatch ==
  ASSUME NEW pl \in Plans, NEW candidate \in Commands \cup {None}
  PROVE  TakenOver(TakeOverCandidate(pl, candidate), pl, candidate)
<1> DEFINE taken == [pl EXCEPT !.accepted = candidate]
           interrupted == IF candidate.class \in OffClasses
                          THEN ResetCandidate(taken) ELSE taken
           emptied == [interrupted EXCEPT !.accumulator = EmptyAccumulator]
           r == TakeOverCandidate(pl, candidate)
<1>1. r \in Plans /\ r.window = pl.window
  BY TakeOverCandidateEffect
<1>2. CASE candidate = None
  BY <1>1, <1>2 DEF TakeOverCandidate, TakenOver
<1>3. CASE candidate # None
  <2>1. r \in {interrupted, emptied}
    BY <1>3 DEF TakeOverCandidate
  <2>2. /\ taken \in Plans /\ taken.accepted = candidate
        /\ taken.candidate = pl.candidate
        /\ taken.observedSince = pl.observedSince
        /\ taken.confirmed = pl.confirmed
    BY DEF Plans
  <2> HIDE DEF taken
  <2>3. /\ ResetCandidate(taken) \in Plans
        /\ ResetCandidate(taken).accepted = candidate
        /\ ResetCandidate(taken).candidate = None
        /\ ~ResetCandidate(taken).confirmed
    <3>1. ResetCandidate(taken) \in Plans
      BY <2>2, ClearedPlanTypes
    <3> QED
      BY <3>1, <2>2 DEF ResetCandidate, Plans
  <2>4. /\ interrupted \in Plans /\ interrupted.accepted = candidate
        /\ candidate.class \in OffClasses =>
             interrupted.candidate = None /\ ~interrupted.confirmed
        /\ candidate.class \notin OffClasses => interrupted = taken
    BY <2>2, <2>3
  <2> HIDE DEF interrupted
  <2>5. SameWatch(emptied, interrupted)
    BY <2>4 DEF SameWatch, Plans
  <2> HIDE DEF emptied, r
  <2> QED
    BY <1>1, <1>3, <2>1, <2>2, <2>4, <2>5 DEF TakenOver, SameWatch, r
<1> QED
  BY <1>2, <1>3

\* What the plan r, decided on at time t, makes of the observed direction
\* and the window.
Turns(r, t) ==
  /\ r.confirmed => r.candidate # None
  /\ r.candidate # None =>
       /\ EligibleDirection(r, params) = r.candidate
       /\ \/ r.observedSince = t
          \/ /\ plan.candidate = r.candidate
             /\ r.observedSince = plan.observedSince
  /\ r.window # None =>
       \/ /\ plan.window # None
          /\ r.window.direction = plan.window.direction
       \/ /\ EligibleDirection(r, params) = r.window.direction
          /\ plan.candidate = r.window.direction
          /\ t - plan.observedSince >= params.confirmationDuration
       \/ /\ plan.window = None
          /\ phys.offDirection \in {None, r.window.direction}

\* The physical decision b after the admission a.
Decided(b, a, in, t) ==
  /\ b.wd.heartbeat = a.wd.heartbeat
  /\ b.plan.accepted # None => b.wd.heartbeat # None
  /\ b.phys.direction # Idle =>
       /\ b.plan.accepted # None
       /\ b.plan.accepted.context = in.context
       /\ t - b.wd.heartbeat < params.requestWatchdog
  /\ Kept(phys, b.phys, t, params)
  /\ Turns(b.plan, t)

\* A cleared plan observes nothing and has no window.
LEMMA ClearedTurns ==
  ASSUME NEW t
  PROVE  /\ Turns(ClearedPlan, t) /\ ClearedPlan.accepted = None
         /\ ClearedPlan.window = None /\ ClearedPlan.candidate = None
         /\ ~ClearedPlan.confirmed
BY DEF ClearedPlan, Turns

\* A tick that gets past the stop rules has a live watchdog and a command of
\* the committed context.
LEMMA PastStopRules ==
  ASSUME TypeOK, NEW in, NEW t \in Timestamps, NEW a, a.wd \in Watchdogs,
         ImmediateStopReason(in, t, a) = None,
         in.gate \in {"Unresolved", "Allowed", "ImmediateStop"},
         in.gate = "Allowed" => in.controlled,
         in.controlled => a.wd.episode # None
  PROVE  /\ params \in ValidSet
         /\ a.wd.heartbeat # None =>
              t - a.wd.heartbeat < params.requestWatchdog
         /\ a.candidate # None => a.candidate.class # "NoValidRequest"
         /\ a.candidate = None /\ plan.accepted # None =>
              plan.accepted.context = in.context
<1>1. \A s \in ImmediateStopReasons : s # None
  BY NoneAssumption
<1>2. /\ params # UnconfiguredParameters
      /\ in.gate \notin {"Unresolved", "ImmediateStop"}
      /\ ~RunningWatchdogTripped(in, t, a.wd, params)
      /\ ~(a.candidate # None /\ a.candidate.class = "NoValidRequest")
      /\ ~(/\ a.candidate = None /\ plan.accepted # None
           /\ plan.accepted.context # in.context)
  BY <1>1 DEF ImmediateStopReason, ImmediateStopReasons
<1>3. params \in ValidSet
  BY <1>2, ParamsType
<1>4. ASSUME a.wd.heartbeat # None
      PROVE  t - a.wd.heartbeat < params.requestWatchdog
  <2>1. /\ a.wd.heartbeat \in Nat /\ t \in Nat
        /\ params.requestWatchdog \in Nat /\ params.requestWatchdog > 0
    BY <1>3, <1>4, BoundsAssumption
    DEF Watchdogs, ValidSet, Parameters, ValidParameters
  <2>2. ~DeadlineReached(t, a.wd.heartbeat, params.requestWatchdog)
    BY <1>2, <1>4 DEF RunningWatchdogTripped
  <2> QED
    BY <2>1, <2>2 DEF DeadlineReached
<1> QED
  BY <1>2, <1>3, <1>4

\* Every outcome of the physical decision: stop, tear down, hold, demand.
LEMMA RunPhaseBDecides ==
  ASSUME TypeOK, ObservedTypeOK, Alive, Watched, NEW in, NEW t \in Timestamps,
         Consistent(plan, phys, t, params), NEW a, Admission(a),
         NEW w, w.heartbeat = wd.heartbeat, Admitted(a, in, t, w),
         in.gate \in {"Unresolved", "Allowed", "ImmediateStop"},
         in.gate = "Allowed" => in.controlled,
         in.controlled => w.episode # None
  PROVE  Decided(RunPhaseB(in, t, a), a, in, t)
<1> DEFINE stop == ImmediateStopReason(in, t, a)
           pl == TakeOverCandidate(plan, a.candidate)
           b == RunPhaseB(in, t, a)
           off == SetPhysicalDirection(phys, Idle, t, params)
<1>1. /\ t \in Nat /\ t # None /\ params \in Parameters
      /\ plan \in Plans /\ phys \in Outputs /\ a.wd \in Watchdogs
      /\ a.candidate \in Commands \cup {None}
  BY BoundsAssumption, NoneAssumption, ParamsType DEF TypeOK, Admission
<1>2. TakenOver(pl, plan, a.candidate)
  BY <1>1, TakeOverWatch
<1>3. /\ off.direction = Idle /\ Kept(phys, off, t, params)
      /\ Kept(phys, phys, t, params)
  BY <1>1, SetKept, KeptSame, SetPhysicalDirectionEffect DEF Directions
<1>4. b = IF stop # None THEN RejectToIdle(a, t, stop)
          ELSE IF pl.accepted = None \/ pl.accepted.direction = Idle
          THEN Teardown(a, pl, t)
          ELSE Demand(a, pl, t)
  BY DEF RunPhaseB
<1> HIDE DEF pl, b, off, stop
<1>5. pl.accepted # None => a.wd.heartbeat # None
  BY <1>1, <1>2 DEF TakenOver, Admitted, Alive
<1>6. stop = None =>
        /\ params \in ValidSet
        /\ a.wd.heartbeat # None =>
             t - a.wd.heartbeat < params.requestWatchdog
        /\ pl.accepted # None => pl.accepted.context = in.context
        /\ a.candidate # None => a.candidate.class # "NoValidRequest"
  BY <1>1, <1>2, PastStopRules DEF Admitted, TakenOver, stop
<1>7. ASSUME b.plan = ClearedPlan, b.phys = off,
             b.wd.heartbeat = a.wd.heartbeat
      PROVE  Decided(b, a, in, t)
  BY <1>3, <1>7, ClearedTurns DEF Decided
<1>8. CASE stop # None
  <2>1. b = RejectToIdle(a, t, stop)
    BY <1>4, <1>8
  <2>2. b.plan = ClearedPlan /\ b.phys = off
    BY <2>1 DEF RejectToIdle, off
  <2>3. b.wd.heartbeat = a.wd.heartbeat
    BY <2>1, <1>1 DEF RejectToIdle, Watchdogs
  <2> QED
    BY <2>2, <2>3, <1>7 DEF b
<1>9. CASE stop = None /\ (pl.accepted = None \/ pl.accepted.direction = Idle)
  <2>1. b = Teardown(a, pl, t)
    BY <1>4, <1>9
  <2>2. CASE phys.direction # Idle /\ ~MinimumOnOver(phys, t, params)
    <3>1. b.plan = pl /\ b.phys = phys /\ b.wd = a.wd
      BY <2>1, <2>2 DEF Teardown
    <3>2. pl.accepted # None
      BY <2>2, <1>2 DEF Alive, TakenOver
    <3>3. pl.candidate = None /\ ~pl.confirmed
      <4>1. CASE a.candidate = None
        <5>1. plan.accepted # None /\ plan.accepted.direction = Idle
          BY <4>1, <3>2, <1>2, <1>9 DEF TakenOver
        <5>2. EligibleDirection(plan, params) = Idle
          BY <5>1 DEF EligibleDirection
        <5>3. plan.candidate \in ActiveDirections \cup {None}
          BY <1>1 DEF Plans
        <5>4. plan.candidate = None
          BY <5>2, <5>3, DirectionsAssumption DEF Watched, ActiveDirections
        <5> QED
          BY <4>1, <5>4, <1>2 DEF Watched, TakenOver
      <4>2. CASE a.candidate # None
        <5>1. a.candidate.class \in OffClasses
          BY <4>2, <1>2, <1>6, <1>9, DirectionsAssumption
          DEF Admitted, TakenOver, ActiveDirections
        <5> QED
          BY <4>2, <5>1, <1>2 DEF TakenOver
      <4> QED
        BY <4>1, <4>2
    <3>4. Turns(pl, t)
      BY <3>3, <1>2 DEF Turns, TakenOver
    <3> QED
      BY <3>1, <3>2, <3>4, <1>3, <1>5, <1>6, <1>9 DEF Decided, b
  <2>3. CASE ~(phys.direction # Idle /\ ~MinimumOnOver(phys, t, params))
    <3>1. b.plan = ClearedPlan /\ b.phys = off /\ b.wd = a.wd
      BY <2>1, <2>3 DEF Teardown, off
    <3> QED
      BY <3>1, <1>7 DEF b
  <2> QED
    BY <2>2, <2>3
<1>10. CASE stop = None /\ ~(pl.accepted = None \/ pl.accepted.direction = Idle)
  <2> DEFINE command == pl.accepted
             r == EvaluateHeatingCoolingDemand(pl, phys, command, t, params)
  <2>1. /\ command \in ActiveCommands /\ command.direction \in ActiveDirections
        /\ pl \in Plans /\ pl.window = plan.window /\ command # None
    BY <1>2, <1>10
    DEF TakenOver, Plans, Commands, ActiveCommands, Directions,
        ActiveDirections
  <2>2. Consistent(pl, phys, t, params)
    BY <2>1 DEF Consistent
  <2>3. Outcome(r, pl, phys, command, t, params)
    BY <1>1, <1>6, <1>10, <2>1, <2>2, DemandOutcome
  <2>4. b.plan = r.plan /\ b.phys = r.phys /\ b.wd = a.wd
    BY <1>4, <1>10 DEF Demand
  <2> HIDE DEF r
  <2>5. r.plan.accepted = command
    BY <2>3 DEF Outcome, Observes
  <2>6. Eligible(command, params) =>
          EligibleDirection(r.plan, params) = command.direction
    BY <2>1, <2>5 DEF Eligible, EligibleDirection
  <2>7. command.direction # None /\ command.direction # Idle
    BY <2>1, NoneAssumption, DirectionsAssumption
    DEF Directions, ActiveDirections
  <2>8. pl.candidate = command.direction =>
          /\ plan.candidate = command.direction
          /\ plan.observedSince = pl.observedSince
    BY <2>7, <1>2 DEF TakenOver
  <2>9. ASSUME r.plan.window # None
        PROVE  \/ /\ plan.window # None
                  /\ r.plan.window.direction = plan.window.direction
               \/ /\ EligibleDirection(r.plan, params) = r.plan.window.direction
                  /\ plan.candidate = r.plan.window.direction
                  /\ t - plan.observedSince >= params.confirmationDuration
               \/ /\ plan.window = None
                  /\ phys.offDirection \in {None, r.plan.window.direction}
    <3>1. CASE /\ plan.window # None
               /\ r.plan.window.direction = plan.window.direction
      BY <3>1
    <3>2. CASE /\ r.plan.window.direction = command.direction
               /\ Confirmed(pl, command, t, params)
      BY <3>2, <2>6, <2>8 DEF Confirmed
    <3>3. CASE /\ r.plan.window.direction = command.direction
               /\ ReferenceDirection(pl, phys) \in {Idle, command.direction}
      <4>1. /\ plan.window # None => plan.window.direction \in ActiveDirections
            /\ phys.offDirection \in ActiveDirections \cup {None}
        BY <1>1 DEF Plans, Windows, Outputs
      <4>2. plan.window = None => phys.direction = Idle
        BY DEF Consistent
      <4> QED
        BY <3>3, <4>1, <4>2, <2>1, DirectionsAssumption
        DEF ReferenceDirection, ActiveDirections
    <3> QED
      BY <2>1, <2>3, <2>9, <3>1, <3>2, <3>3 DEF Outcome, MayOpen
  <2>10. Turns(r.plan, t)
    BY <2>3, <2>6, <2>7, <2>8, <2>9 DEF Outcome, Observes, Turns
  <2> QED
    BY <2>1, <2>3, <2>4, <2>5, <2>10, <1>5, <1>6, <1>10
    DEF Decided, Outcome, b
<1> QED
  BY <1>8, <1>9, <1>10

-----------------------------------------------------------------------------
(* The fans                                                                *)

\* The outer fan covers the post-run of an output that ends, and every
\* earlier one.
LEMMA OuterFanHeld ==
  ASSUME NEW ph \in Outputs, NEW q \in Outputs, NEW s \in Timestamps,
         NEW t \in Timestamps, s <= t, NEW p \in Parameters, NEW until \in Nat,
         Held(s, until, ph.outerFan, ph.outerFanDeadline), Kept(ph, q, t, p)
  PROVE  LET r == UpdateOuterFan(q, t)
             next == IF ph.direction # Idle /\ r.direction # ph.direction
                     THEN Later(until, t + p.outerFanPostRun) ELSE until
         IN  Held(t, next, r.outerFan, r.outerFanDeadline)
<1> DEFINE r == UpdateOuterFan(q, t)
           next == IF ph.direction # Idle /\ r.direction # ph.direction
                   THEN Later(until, t + p.outerFanPostRun) ELSE until
<1>1. /\ s \in Nat /\ t \in Nat /\ p.outerFanPostRun \in Nat
      /\ TimestampMax \in Nat
      /\ ph.outerFanDeadline \in Nat \cup {None}
      /\ q.outerFanDeadline \in Nat \cup {None}
  BY BoundsAssumption DEF Parameters, Outputs
<1>2. r.direction = q.direction
  BY UpdateOuterFanEffect
<1>3. \/ r.outerFan /\ r.outerFanDeadline = q.outerFanDeadline
      \/ r.outerFan = q.outerFan /\ r.outerFanDeadline = q.outerFanDeadline
      \/ q.outerFanDeadline # None /\ t >= q.outerFanDeadline
  BY DEF UpdateOuterFan, Outputs
<1> HIDE DEF r
<1> SUFFICES ASSUME t < TimestampMax, t < next
             PROVE  /\ r.outerFan /\ r.outerFanDeadline # None
                    /\ \/ r.outerFanDeadline >= next
                       \/ r.outerFanDeadline >= TimestampMax
  BY DEF Held, r
<1>4. ASSUME t < until
      PROVE  /\ q.outerFan /\ q.outerFanDeadline # None
             /\ \/ q.outerFanDeadline >= until
                \/ q.outerFanDeadline >= TimestampMax
  BY <1>1, <1>4 DEF Held, Kept
<1>5. ASSUME ph.direction # Idle /\ r.direction # ph.direction
      PROVE  /\ q.outerFan /\ q.outerFanDeadline # None
             /\ \/ q.outerFanDeadline >= t + p.outerFanPostRun
                \/ q.outerFanDeadline >= TimestampMax
  BY <1>2, <1>5 DEF Kept
<1>6. /\ q.outerFan /\ q.outerFanDeadline # None
      /\ q.outerFanDeadline >= next \/ q.outerFanDeadline >= TimestampMax
  BY <1>1, <1>4, <1>5 DEF Later
<1> HIDE DEF next
<1>7. next \in Int
  BY <1>1 DEF next, Later
<1>8. q.outerFanDeadline \in Nat /\ ~(t >= q.outerFanDeadline)
  BY <1>1, <1>6, <1>7
<1>9. r.outerFan /\ r.outerFanDeadline = q.outerFanDeadline
  BY <1>3, <1>6, <1>8
<1> QED
  BY <1>6, <1>9

\* Leaving a controlled phase gives the inner fan its post-run deadline.
LEMMA TeardownHeld ==
  ASSUME NEW f \in InnerFans, NEW t \in Timestamps, NEW p \in Parameters
  PROVE  LET g == InnerFanTeardown(f, t, p)
         IN  /\ g \in InnerFans /\ g.active = f.active
             /\ f.deadline # None => g.deadline # None
                                     /\ g.deadline >= f.deadline
             /\ f.active /\ f.requestedAt = None =>
                  /\ g.deadline # None
                  /\ \/ g.deadline >= t + p.innerFanPostRun
                     \/ g.deadline >= TimestampMax
<1> DEFINE retained == RetainLaterDeadline(f.deadline,
                          SaturatingDeadline(t, p.innerFanPostRun))
           g == InnerFanTeardown(f, t, p)
<1>1. /\ retained \in Nat /\ retained # None
      /\ f.deadline # None => retained >= f.deadline
      /\ retained >= t + p.innerFanPostRun \/ retained >= TimestampMax
  BY RetainedDeadline DEF InnerFans, Parameters
<1>2. g \in InnerFans
  BY InnerFanType
<1>3. /\ g.active = f.active
      /\ IF f.active /\ f.requestedAt = None THEN g.deadline = retained
         ELSE g.deadline = f.deadline
  BY DEF InnerFanTeardown, InnerFans
<1>4. f.deadline \in Nat \cup {None}
  BY DEF InnerFans
<1> HIDE DEF retained, g
<1> QED
  BY <1>1, <1>2, <1>3, <1>4 DEF g

\* The fan bookkeeping of a tick keeps the inner fan running to its deadline.
LEMMA InnerFanHeld ==
  ASSUME NEW f \in InnerFans, NEW t \in Timestamps, NEW p \in Parameters,
         NEW controlled \in BOOLEAN, NEW until \in Nat,
         Held(t, until, f.active, f.deadline)
  PROVE  LET r == UpdateInnerFan(f, t, p, controlled)
         IN  Held(t, until, r.active, r.deadline)
<1> DEFINE g == InnerFanTeardown(f, t, p)
           r == UpdateInnerFan(f, t, p, controlled)
<1>1. /\ t \in Nat /\ TimestampMax \in Nat
      /\ f.deadline \in Nat \cup {None}
  BY BoundsAssumption DEF InnerFans
<1>2. /\ g \in InnerFans /\ g.active = f.active
      /\ f.deadline # None => g.deadline # None /\ g.deadline >= f.deadline
  BY TeardownHeld
<1>3. g.deadline \in Nat \cup {None}
  BY <1>2 DEF InnerFans
<1>4. r = IF controlled THEN [f EXCEPT !.active = TRUE, !.requestedAt = None]
          ELSE IF g.active /\ g.deadline # None /\ t >= g.deadline
               THEN [g EXCEPT !.active = FALSE, !.deadline = None]
               ELSE g
  BY DEF UpdateInnerFan
<1> HIDE DEF g, r
<1>5. \/ r.active /\ r.deadline = f.deadline
      \/ r = g
      \/ g.deadline # None /\ t >= g.deadline
  BY <1>4 DEF InnerFans
<1> SUFFICES ASSUME t < TimestampMax, t < until
             PROVE  /\ r.active /\ r.deadline # None
                    /\ r.deadline >= until \/ r.deadline >= TimestampMax
  BY DEF Held, r
<1>6. /\ f.active /\ f.deadline # None
      /\ f.deadline >= until \/ f.deadline >= TimestampMax
  BY DEF Held
<1>7. /\ g.deadline # None /\ ~(t >= g.deadline)
      /\ g.deadline >= until \/ g.deadline >= TimestampMax
  BY <1>1, <1>2, <1>3, <1>6
<1> QED
  BY <1>2, <1>5, <1>6, <1>7

-----------------------------------------------------------------------------
(* Steps of the loop                                                       *)

\* After a tick an active output serves the committed context.
Serving ==
  now' # now /\ phys'.direction # Idle =>
    plan'.accepted.context = process.revision

\* What every step of the loop guarantees.
LoopStepSound == LoopInv' /\ StepSafe /\ Reversing /\ Serving

\* A tick's input as the orchestrator builds it.
LEMMA TickInputType ==
  ASSUME LoopTypeOK, NEW gate \in Gates
  PROVE  LET in == TickInput(gate)
         IN  /\ in \in TickInputs
             /\ in.evaluation = outstanding /\ in.context = process.revision
             /\ in.gate \in {"Unresolved", "Allowed", "ImmediateStop"}
             /\ in.gate = "Allowed" => in.controlled
<1>1. /\ process.revision \in Contexts
      /\ outstanding \in Evaluations \cup {None}
      /\ gate \in {"Unresolved", "Allowed", "ImmediateStop"}
  BY ProcessStatesAssumption, BoundsAssumption DEF LoopTypeOK
<1>2. Controlled(process.state) \in BOOLEAN
  BY DEF Controlled
<1> QED
  BY <1>1, <1>2 DEF TickInput, TickInputs

\* The phases of a tick, put together.
LEMMA TickPhases ==
  ASSUME IInv, LoopTypeOK, ObservedTypeOK, Alive, Watched,
         NEW gate \in Gates, NEW t \in Timestamps, now <= t,
         NEW in, in = TickInput(gate),
         NEW a, a = RunPhaseA(in, t, EnterEpisode(in.controlled, t), fb,
                              params),
         NEW b, b = RunPhaseB(in, t, a)
  PROVE  /\ DecisionSound(b, t) /\ Decided(b, a, in, t)
         /\ a.outcome = "Accepted" =>
              outstanding # None /\ a.wd.heartbeat = t
         /\ a.outcome # "Accepted" => a.wd.heartbeat = wd.heartbeat
<1> DEFINE w == EnterEpisode(in.controlled, t)
<1>1. /\ TypeOK /\ now \in Nat /\ t \in Nat
      /\ plan \in Plans /\ phys \in Outputs /\ inner \in InnerFans
      /\ wd \in Watchdogs /\ fb \in FeedbackStates /\ params \in Parameters
  BY BoundsAssumption, ParamsType DEF IInv, TypeOK
<1>2. /\ in \in TickInputs /\ in.evaluation = outstanding
      /\ in.gate \in {"Unresolved", "Allowed", "ImmediateStop"}
      /\ in.gate = "Allowed" => in.controlled
  BY TickInputType
<1>3. /\ w \in Watchdogs /\ w.heartbeat = wd.heartbeat
      /\ in.controlled => w.episode # None
  <2> DEFINE since == IF in.controlled /\ wd.episode = None THEN t
                      ELSE wd.episode
  <2>1. /\ since \in Nat \cup {None} /\ t # None
        /\ in.controlled => since # None
    BY <1>1, NoneAssumption DEF Watchdogs
  <2>2. w = [wd EXCEPT !.episode = since]
    BY DEF EnterEpisode
  <2> HIDE DEF since, w
  <2> QED
    BY <1>1, <2>1, <2>2 DEF Watchdogs
<1> HIDE DEF w
<1>4. a = RunPhaseA(in, t, w, fb, params)
  BY DEF w
<1>5. Admission(a)
  BY <1>1, <1>2, <1>3, <1>4, RunPhaseAType
<1>6. Admitted(a, in, t, w)
  BY <1>1, <1>2, <1>3, <1>4, RunPhaseAAdmits DEF LoopTypeOK
<1>7. Consistent(plan, phys, t, params)
  BY <1>1, ConsistentLater DEF IInv
<1>8. DecisionSound(b, t)
  BY <1>1, <1>5, <1>7, RunPhaseBSound
<1>9. Decided(b, a, in, t)
  BY <1>1, <1>2, <1>3, <1>5, <1>6, <1>7, RunPhaseBDecides
<1> QED
  BY <1>2, <1>3, <1>6, <1>8, <1>9 DEF Admitted

\* tickActuatorPlan()
LEMMA TickLoopStep ==
  ASSUME LoopInv, TickAnyPlan, ObsNext
  PROVE  LoopStepSound
<1>1. PICK gap \in TickGaps, gate \in Gates :
        /\ now + gap <= TimestampMax
        /\ TickActuatorPlan(TickInput(gate), now + gap)
  BY DEF TickAnyPlan
<1> DEFINE t == now + gap
           in == TickInput(gate)
           a == RunPhaseA(in, t, EnterEpisode(in.controlled, t), fb, params)
           b == RunPhaseB(in, t, a)
<1>2. /\ TypeOK /\ now \in Timestamps /\ t \in Timestamps /\ now <= t
      /\ now \in Nat /\ t \in Nat
  BY <1>1, BoundsAssumption DEF LoopInv, IInv, TypeOK
<1>3. /\ ApplyTick(in, t, a, b)
      /\ fb' = TakenFeedback(b.fb)
      /\ pendingFeedback' = IF b.fb.available THEN b.fb.pending
                            ELSE pendingFeedback
      /\ outstanding' = None
      /\ UNCHANGED <<process, snapshot, controller>>
  BY <1>1 DEF TickActuatorPlan
<1>4. /\ in \in TickInputs /\ in.context = process.revision
      /\ in.controlled \in BOOLEAN
  BY TickInputType DEF LoopInv, TickInputs
<1> HIDE DEF t
<1>5. /\ DecisionSound(b, t) /\ Decided(b, a, in, t)
      /\ a.outcome = "Accepted" => outstanding # None /\ a.wd.heartbeat = t
      /\ a.outcome # "Accepted" => a.wd.heartbeat = wd.heartbeat
  BY <1>2, TickPhases DEF LoopInv
<1> HIDE DEF in
<1>6. IInv' /\ StepSafe
  BY <1>2, <1>3, <1>4, TickSound DEF LoopInv
<1> HIDE DEF a, b
<1>7. /\ now' = t /\ plan' = b.plan /\ phys' = UpdateOuterFan(b.phys, t)
      /\ inner' = UpdateInnerFan(inner, t, params, in.controlled)
      /\ wd' = b.wd /\ params' = params /\ result'.admission = a.outcome
  BY <1>3 DEF ApplyTick
<1>8. Noted
  BY <1>6, ObserverNotes DEF LoopInv, IInv
<1>9. phys'.direction = b.phys.direction
      /\ phys'.offDirection = b.phys.offDirection
  BY <1>5, <1>7, UpdateOuterFanEffect DEF DecisionSound
<1>10. Turned
  BY <1>5, <1>7, <1>9 DEF Decided, Turns, Turned, Kept
<1>11. Watched' /\ Reversing
  BY <1>2, <1>6, <1>7, <1>8, <1>10, WatchedStep DEF LoopInv
<1>12. Alive'
  <2>1. wd'.heartbeat # None => obs'.acceptedAt = wd'.heartbeat
    BY <1>3, <1>5, <1>7, <1>8 DEF LoopInv, Alive, Decided, Noted
  <2> QED
    BY <2>1, <1>5, <1>7, <1>9 DEF Alive, Decided
<1>13. FansHeld'
  <2>1. /\ params \in Parameters /\ phys \in Outputs /\ inner \in InnerFans
        /\ b.phys \in Outputs
        /\ obs.outerUntil \in Nat /\ obs.innerUntil \in Nat
        /\ Kept(phys, b.phys, t, params)
    BY <1>2, <1>5, ParamsType
    DEF LoopInv, TypeOK, ObservedTypeOK, DecisionSound, Decided
  <2>2. Held(t, obs'.outerUntil, phys'.outerFan, phys'.outerFanDeadline)
    <3>1. Held(now, obs.outerUntil, phys.outerFan, phys.outerFanDeadline)
      BY DEF LoopInv, FansHeld
    <3> DEFINE r == UpdateOuterFan(b.phys, t)
               next == IF phys.direction # Idle /\ r.direction # phys.direction
                       THEN Later(obs.outerUntil, t + params.outerFanPostRun)
                       ELSE obs.outerUntil
    <3>2. Held(t, next, r.outerFan, r.outerFanDeadline)
      BY <2>1, <3>1, <1>2, OuterFanHeld
    <3>3. obs'.outerUntil = next
      BY <1>7, <1>8 DEF Noted, Ending
    <3> QED
      BY <3>2, <3>3, <1>7
  <2>3. Held(t, obs'.innerUntil, inner'.active, inner'.deadline)
    <3>1. Held(t, obs.innerUntil, inner.active, inner.deadline)
      <4>1. Held(now, obs.innerUntil, inner.active, inner.deadline)
        BY DEF LoopInv, FansHeld
      <4> QED
        BY <4>1, <2>1, <1>2, BoundsAssumption DEF Held
    <3>2. obs'.innerUntil = obs.innerUntil
      BY <1>3, <1>8 DEF Noted, Leaving
    <3> QED
      BY <3>1, <3>2, <2>1, <1>2, <1>4, <1>7, InnerFanHeld
  <2> QED
    BY <2>2, <2>3, <1>7 DEF FansHeld
<1>14. LoopTypeOK'
  <2>1. b.fb.pending \in Feedbacks \cup {None}
    BY <1>5 DEF DecisionSound, FeedbackStates
  <2>2. pendingFeedback' \in Feedbacks \cup {None}
    BY <2>1, <1>3 DEF LoopInv, LoopTypeOK
  <2> QED
    BY <2>2, <1>3 DEF LoopInv, LoopTypeOK
<1>15. Serving
  BY <1>4, <1>5, <1>7, <1>9 DEF Serving, Decided
<1>16. LoopInv'
  BY <1>6, <1>8, <1>11, <1>12, <1>13, <1>14 DEF LoopInv, Noted
<1> QED
  BY <1>6, <1>11, <1>15, <1>16 DEF LoopStepSound

\* A boundary at which the orchestrator stops the planner and the controller.
LEMMA BoundaryLoopStep ==
  ASSUME LoopInv, ResetAtBoundary, ObsNext, LoopTypeOK'
  PROVE  LoopStepSound
<1>1. /\ TypeOK /\ now \in Timestamps /\ params \in Parameters
      /\ phys \in Outputs /\ inner \in InnerFans /\ wd \in Watchdogs
      /\ obs.outerUntil \in Nat /\ obs.innerUntil \in Nat /\ now \in Nat
      /\ params.innerFanPostRun \in Nat /\ TimestampMax \in Nat
  BY ParamsType, BoundsAssumption
  DEF LoopInv, IInv, TypeOK, ObservedTypeOK, Parameters
<1> DEFINE off == SetPhysicalDirection(phys, Idle, now, params)
           f == InnerFanTeardown(inner, now, params)
<1>2. /\ now' = now /\ plan' = ClearedPlan /\ phys' = UpdateOuterFan(off, now)
      /\ inner' = UpdateInnerFan(f, now, params, FALSE)
      /\ wd' = [wd EXCEPT !.episode = None, !.heartbeat = None]
      /\ result'.admission = "NoCandidate"
  BY DEF ResetAtBoundary, LifecycleBoundary
<1>3. IInv' /\ StepSafe
  <2>1. LifecycleBoundaryAny
    <3>1. /\ snapshot' \in ParameterSets \cup {None}
          /\ (outstanding = None) \in BOOLEAN
      BY DEF LoopTypeOK
    <3> QED
      BY <3>1 DEF ResetAtBoundary, LifecycleBoundaryAny
  <2> QED
    BY <2>1, LifecycleBoundaryStep DEF LoopInv
<1>4. Noted
  BY <1>1, <1>3, ObserverNotes DEF LoopInv, IInv
<1>5. /\ off \in Outputs /\ off.direction = Idle
      /\ Kept(phys, off, now, params)
  BY <1>1, SetPhysicalDirectionEffect, SetKept DEF Directions
<1>6. /\ f \in InnerFans /\ f.active = inner.active
      /\ inner.deadline # None =>
           f.deadline # None /\ f.deadline >= inner.deadline
      /\ inner.active /\ inner.requestedAt = None =>
           /\ f.deadline # None
           /\ \/ f.deadline >= now + params.innerFanPostRun
              \/ f.deadline >= TimestampMax
  BY <1>1, TeardownHeld
<1> HIDE DEF off, f
<1>7. phys'.direction = Idle /\ phys'.offDirection = off.offDirection
  BY <1>2, <1>5, UpdateOuterFanEffect
<1>8. Turned
  BY <1>2, <1>5, <1>7, ClearedTurns DEF Turned, Kept
<1>9. Watched' /\ Reversing
  BY <1>1, <1>2, <1>3, <1>4, <1>8, WatchedStep DEF LoopInv
<1>10. Alive'
  <2>1. wd'.heartbeat = None
    BY <1>1, <1>2 DEF Watchdogs
  <2> QED
    BY <2>1, <1>2, <1>7, ClearedTurns DEF Alive
<1>11. FansHeld'
  <2>1. Held(now, obs'.outerUntil, phys'.outerFan, phys'.outerFanDeadline)
    <3>1. Held(now, obs.outerUntil, phys.outerFan, phys.outerFanDeadline)
      BY DEF LoopInv, FansHeld
    <3> DEFINE r == UpdateOuterFan(off, now)
               next == IF phys.direction # Idle /\ r.direction # phys.direction
                       THEN Later(obs.outerUntil, now + params.outerFanPostRun)
                       ELSE obs.outerUntil
    <3>2. Held(now, next, r.outerFan, r.outerFanDeadline)
      BY <1>1, <1>5, <3>1, OuterFanHeld
    <3>3. obs'.outerUntil = next
      BY <1>2, <1>4 DEF Noted, Ending
    <3> QED
      BY <3>2, <3>3, <1>2
  <2>2. Held(now, obs'.innerUntil, inner'.active, inner'.deadline)
    <3>1. Held(now, obs.innerUntil, inner.active, inner.deadline)
      BY DEF LoopInv, FansHeld
    <3>2. /\ inner.deadline \in Nat \cup {None}
          /\ f.deadline \in Nat \cup {None}
          /\ obs'.innerUntil \in Nat
      BY <1>1, <1>4, <1>6 DEF InnerFans, Noted, ObservedTypeOK
    <3>3. Held(now, obs.innerUntil, f.active, f.deadline)
      BY <3>1, <3>2, <1>1, <1>6 DEF Held
    <3>4. Held(now, obs'.innerUntil, f.active, f.deadline)
      <4>1. CASE ~Leaving
        BY <4>1, <3>3, <1>4 DEF Noted
      <4>2. CASE Leaving
        <5>1. /\ inner.active /\ inner.requestedAt = None
              /\ obs'.innerUntil = Later(obs.innerUntil,
                                         now + params.innerFanPostRun)
          BY <4>2, <1>4 DEF Noted, Leaving
        <5>2. /\ f.active /\ f.deadline # None
              /\ \/ f.deadline >= now + params.innerFanPostRun
                 \/ f.deadline >= TimestampMax
          BY <5>1, <1>6
        <5> QED
          BY <5>1, <5>2, <3>2, <3>3, <1>1 DEF Held, Later
      <4> QED
        BY <4>1, <4>2
    <3> QED
      BY <3>2, <3>4, <1>1, <1>2, <1>6, InnerFanHeld
  <2> QED
    BY <2>1, <2>2, <1>2 DEF FansHeld
<1>12. LoopInv'
  BY <1>3, <1>4, <1>9, <1>10, <1>11 DEF LoopInv, Noted
<1> QED
  BY <1>2, <1>3, <1>9, <1>12 DEF LoopStepSound, Serving

\* A step that leaves the plan, the output and the clock alone.
LEMMA QuietLoopStep ==
  ASSUME LoopInv, IInv', StepSafe, LoopTypeOK', ObsNext,
         now' = now, params' = params, plan' = plan, phys' = phys,
         inner' = inner, wd'.heartbeat = wd.heartbeat, ~Leaving,
         outstanding = None \/ outstanding' # None
  PROVE  LoopStepSound
<1>1. Noted
  BY ObserverNotes DEF LoopInv, IInv
<1>2. Turned
  BY DEF LoopInv, Watched, Turned
<1>3. now <= now'
  BY BoundsAssumption DEF LoopInv, IInv, TypeOK
<1>4. Watched' /\ Reversing
  BY <1>1, <1>2, <1>3, WatchedStep DEF LoopInv
<1>5. Alive'
  BY <1>1 DEF LoopInv, Alive, Noted
<1>6. FansHeld'
  BY <1>1 DEF LoopInv, FansHeld, Noted, Ending
<1>7. LoopInv'
  BY <1>1, <1>4, <1>5, <1>6 DEF LoopInv, Noted
<1> QED
  BY <1>4, <1>7 DEF LoopStepSound, Serving

\* Registering an evaluation.
LEMMA RegisterLoopStep ==
  ASSUME LoopInv, ObsNext, NEW e \in Evaluations, Register(e),
         e.class \in DemandClasses => e.direction \in ActiveDirections,
         controller' \in [next: Nat, window: Nat \cup {None}],
         pendingFeedback' \in {None, pendingFeedback}
  PROVE  LoopStepSound
<1>1. /\ outstanding = None /\ outstanding' = e
      /\ UNCHANGED <<now, params, plan, phys, inner, wd, process, snapshot>>
      /\ CloseFeedbackEpisode
  BY DEF Register, CloseFeedbackEpisode
<1>2. IInv' /\ StepSafe
  BY <1>1, OtherSteps DEF LoopInv
<1>3. LoopTypeOK'
  BY <1>1 DEF LoopInv, LoopTypeOK
<1>4. ~Leaving
  BY <1>1 DEF Leaving
<1> QED
  BY <1>1, <1>2, <1>3, <1>4, QuietLoopStep

\* evaluateTemperatureControl()
LEMMA EvaluateLoopStep ==
  ASSUME LoopInv, ObsNext,
         \/ EvaluateOutsideControl \/ EvaluateFailClosed
         \/ EvaluateOff \/ EvaluateDemand
  PROVE  LoopStepSound
<1>1. /\ now \in Nat /\ process.revision \in Contexts
      /\ controller.next \in Nat
      /\ controller \in [next: Nat, window: Nat \cup {None}]
  BY BoundsAssumption, ProcessStatesAssumption
  DEF LoopInv, IInv, TypeOK, LoopTypeOK
<1>2. CASE EvaluateOutsideControl \/ EvaluateFailClosed
  <2>1. /\ InvalidEvaluation \in Evaluations
        /\ InvalidEvaluation.class \notin DemandClasses
    BY <1>1
    DEF InvalidEvaluation, Evaluations, Directions, QuoteScale, DemandClasses
  <2>2. /\ Register(InvalidEvaluation)
        /\ controller' = [controller EXCEPT !.window = None]
        /\ pendingFeedback' \in {None, pendingFeedback}
    BY <1>2 DEF EvaluateOutsideControl, EvaluateFailClosed
  <2>3. controller' \in [next: Nat, window: Nat \cup {None}]
    BY <2>2, <1>1
  <2> HIDE DEF InvalidEvaluation
  <2> QED
    BY <2>1, <2>2, <2>3, RegisterLoopStep
<1>3. ASSUME NEW class \in OffClasses \cup DemandClasses,
             NEW direction \in Directions, NEW quote \in 0 .. QuoteScale,
             NEW age \in CreationAges, age <= now,
             class \in DemandClasses => direction \in ActiveDirections,
             Register(Produced(class, direction, quote, age)),
             controller' \in [next: Nat, window: Nat \cup {None}],
             pendingFeedback' = None
      PROVE  LoopStepSound
  <2> DEFINE e == Produced(class, direction, quote, age)
  <2>1. now - age \in Nat
    BY <1>1, <1>3, BoundsAssumption
  <2>2. e \in Evaluations /\ e.class = class /\ e.direction = direction
    BY <2>1, <1>1, <1>3 DEF Produced, Evaluations
  <2> HIDE DEF e
  <2> QED
    BY <2>2, <1>3, RegisterLoopStep DEF e
<1>4. CASE EvaluateOff
  <2>1. PICK class \in EvaluationClasses \cap OffClasses,
             age \in {a \in CreationAges : a <= now} :
               Register(Produced(class, Idle, 0, age))
    BY <1>4 DEF EvaluateOff
  <2>2. /\ pendingFeedback' = None
        /\ controller' \in [next: Nat, window: Nat \cup {None}]
    BY <1>1, <1>4 DEF EvaluateOff
  <2>3. /\ Idle \in Directions /\ 0 \in 0 .. QuoteScale
        /\ class \notin DemandClasses
    BY DEF Directions, QuoteScale, OffClasses, DemandClasses
  <2> QED
    BY <2>1, <2>2, <2>3, <1>3
<1>5. CASE EvaluateDemand
  <2>1. PICK class \in EvaluationClasses \cap DemandClasses,
             direction \in ActiveDirections, quote \in Quotes,
             age \in {a \in CreationAges : a <= now} :
               Register(Produced(class, direction, quote, age))
    BY <1>5 DEF EvaluateDemand
  <2>2. /\ pendingFeedback' = None
        /\ controller' \in [next: Nat, window: Nat \cup {None}]
    BY <1>1, <1>5 DEF EvaluateDemand
  <2>3. direction \in Directions /\ quote \in 0 .. QuoteScale
    BY BoundsAssumption DEF Directions, ActiveDirections, QuoteScale
  <2> QED
    BY <2>1, <2>2, <2>3, <1>3
<1> QED
  BY <1>2, <1>4, <1>5

\* complete(): a committed process change.
LEMMA CompleteLoopStep ==
  ASSUME LoopInv, ObsNext, NEW after \in ProcessStates,
         NEW recoveryBoundary \in BOOLEAN, NEW newActiveRun \in BOOLEAN,
         Complete(after, recoveryBoundary, newActiveRun),
         snapshot' \in ParameterSets \cup {None}
  PROVE  LoopStepSound
<1> DEFINE reset == NeedsRuntimeReset(process.state, after, recoveryBoundary,
                                      newActiveRun)
<1>1. /\ process.revision < MaxRevision
      /\ process' = [state |-> after, revision |-> process.revision + 1]
      /\ IF reset THEN ResetAtBoundary
         ELSE UNCHANGED <<vars, controller, outstanding, pendingFeedback>>
  BY DEF Complete
<1>2. process' \in [state: ProcessStates, revision: 0 .. MaxRevision]
  BY <1>1, ProcessStatesAssumption DEF LoopInv, LoopTypeOK
<1>3. CASE reset
  <2>1. ResetAtBoundary
    BY <1>1, <1>3
  <2>2. LoopTypeOK'
    BY <2>1, <1>2 DEF ResetAtBoundary, LoopInv, LoopTypeOK
  <2> QED
    BY <2>1, <2>2, BoundaryLoopStep
<1>4. CASE ~reset
  <2>1. UNCHANGED <<vars, controller, outstanding, pendingFeedback>>
    BY <1>1, <1>4
  <2>2. LoopTypeOK'
    BY <2>1, <1>2 DEF LoopInv, LoopTypeOK
  <2>3. ~Leaving
    BY <1>1, <1>4 DEF Leaving, NeedsRuntimeReset
  <2>4. IInv' /\ StepSafe
    BY <2>1, OtherSteps DEF LoopInv
  <2>5. /\ now' = now /\ params' = params /\ plan' = plan /\ phys' = phys
        /\ inner' = inner /\ wd' = wd /\ outstanding' = outstanding
    BY <2>1 DEF vars
  <2> QED
    BY <2>2, <2>3, <2>4, <2>5, QuietLoopStep
<1> QED
  BY <1>3, <1>4

\* Every step of the loop.
LEMMA LoopNextSound ==
  ASSUME LoopInv, LoopNext, ObsNext
  PROVE  LoopStepSound
<1>1. CASE \/ EvaluateOutsideControl \/ EvaluateFailClosed
           \/ EvaluateOff \/ EvaluateDemand
  BY <1>1, EvaluateLoopStep
<1>2. CASE TickAnyPlan
  BY <1>2, TickLoopStep
<1>3. CASE StartRun \/ ActivateRecovery
  BY <1>3, CompleteLoopStep DEF StartRun, ActivateRecovery
<1>4. CASE CommitTransition
  <2>1. PICK after \in ProcessStates :
          /\ snapshot' = IF after = "Standby" THEN None ELSE snapshot
          /\ Complete(after, FALSE, FALSE)
    BY <1>4 DEF CommitTransition
  <2>2. snapshot' \in ParameterSets \cup {None}
    BY <2>1 DEF LoopInv, LoopTypeOK
  <2> QED
    BY <2>1, <2>2, CompleteLoopStep
<1>5. CASE ResetRequestWatchdog
  <2>1. ApplyExternalWatchdogFaultReset /\ UNCHANGED loopVars
    BY <1>5 DEF ResetRequestWatchdog
  <2>2. IInv' /\ StepSafe
    BY <2>1, OtherSteps DEF LoopInv
  <2>3. /\ now' = now /\ params' = params /\ plan' = plan /\ phys' = phys
        /\ inner' = inner /\ outstanding' = outstanding /\ process' = process
        /\ wd' = [wd EXCEPT !.fault = FALSE]
    BY <2>1 DEF ApplyExternalWatchdogFaultReset, loopVars
  <2>4. LoopTypeOK' /\ ~Leaving
    BY <2>1, <2>3 DEF LoopInv, LoopTypeOK, Leaving, loopVars
  <2>5. wd'.heartbeat = wd.heartbeat
    BY <2>3 DEF LoopInv, IInv, TypeOK, Watchdogs
  <2> QED
    BY <2>2, <2>3, <2>4, <2>5, QuietLoopStep
<1> QED
  BY <1>1, <1>2, <1>3, <1>4, <1>5 DEF LoopNext

\* The loop starts with nothing planned and nothing observed.
LEMMA LoopInitInv == MCInit => LoopInv
<1> SUFFICES ASSUME MCInit PROVE LoopInv
  OBVIOUS
<1>1. IInv
  BY InitIInv DEF MCInit, LoopInit
<1>2. /\ process = [state |-> "Standby", revision |-> 0] /\ snapshot = None
      /\ controller = [next |-> 1, window |-> None] /\ outstanding = None
      /\ pendingFeedback = None
  BY DEF MCInit, LoopInit
<1>3. LoopTypeOK
  BY <1>2, ProcessStatesAssumption DEF LoopTypeOK
<1>4. /\ now = 0 /\ plan = ClearedPlan /\ phys.direction = Idle
      /\ phys.offDirection = None /\ wd.heartbeat = None
  BY DEF MCInit, LoopInit, Init
<1>5. obs = [outerUntil |-> 0, innerUntil |-> 0, acceptedAt |-> None,
             offDirection |-> None, asked |-> Idle, askedSince |-> 0,
             proved |-> {}]
  BY DEF MCInit, ObsInit
<1>6. ObservedTypeOK
  BY <1>5 DEF ObservedTypeOK, Directions
<1>7. Alive
  BY <1>4, ClearedTurns DEF Alive
<1>8. FansHeld
  BY <1>4, <1>5 DEF FansHeld, Held
<1>9. Watched
  BY <1>4, <1>5, ClearedTurns DEF Watched, EligibleDirection
<1> QED
  BY <1>1, <1>3, <1>6, <1>7, <1>8, <1>9 DEF LoopInv

\* Nothing changes in a stuttering step.
LEMMA LoopStutter ==
  ASSUME LoopInv, UNCHANGED mcVars
  PROVE  LoopInv'
BY DEF LoopInv, IInv, TypeOK, LoopTypeOK, ObservedTypeOK, Alive, FansHeld,
       Watched, mcVars, vars, loopVars

\* The invariant of the control loop with its observer.
THEOREM LoopInvariant == MCSpec => []LoopInv
<1>1. LoopInv /\ [LoopNext /\ ObsNext]_mcVars => LoopInv'
  BY LoopNextSound, LoopStutter DEF LoopStepSound
<1> QED
  BY LoopInitInv, <1>1, PTL DEF MCSpec

-----------------------------------------------------------------------------
(* The properties                                                          *)

\* However evaluations, ticks, process changes and resets interleave, an
\* active leg belongs to a started window of its own direction.
THEOREM LoopOutputOwned == MCSpec => []OutputOwnedByWindow
<1>1. LoopInv => OutputOwnedByWindow
  BY OwnedByInvariant DEF LoopInv
<1> QED
  BY <1>1, LoopInvariant, PTL

\* The output is never active on a request older than the watchdog time of
\* the run, counted from the tick the observer saw it accepted in.
THEOREM LoopOutputLive == MCSpec => []OutputHasLiveRequest
<1>1. LoopInv => OutputHasLiveRequest
  BY DEF LoopInv, Alive, OutputHasLiveRequest
<1> QED
  BY <1>1, LoopInvariant, PTL

\* Both fans run on for the post-run times in force when the output or the
\* controlled phase ended, as long as the clock has not reached its last
\* value, at which the saturating deadlines end.
THEOREM LoopFansCover ==
  MCSpec => [](now < TimestampMax => FansCoverPostRun)
<1>1. LoopInv => (now < TimestampMax => FansCoverPostRun)
  BY DEF LoopInv, FansHeld, Held, FansCoverPostRun
<1> QED
  BY <1>1, LoopInvariant, PTL

\* Across every boundary and run a leg is switched on only after the minimum
\* off time and the polarity dead time.
THEOREM LoopSwitchOnSafe == MCSpec => SwitchOnSafe
<1>1. LoopInv /\ [LoopNext /\ ObsNext]_mcVars =>
        [phys'.direction \notin {Idle, phys.direction} =>
           /\ phys.direction = Idle
           /\ phys.offAt # None =>
                /\ now' - phys.offAt >= params.minimumOff
                /\ phys.offDirection # phys'.direction =>
                     now' - phys.offAt >= params.polarityDeadTime]_vars
  BY LoopNextSound DEF LoopStepSound, StepSafe, Armed, mcVars
<1> QED
  BY <1>1, LoopInvariant, PTL DEF MCSpec, SwitchOnSafe

\* A tick of the loop ends an on phase before its minimum on time only for an
\* immediate stop reason of class I.
THEOREM LoopMinimumOnKept == MCSpec => MinimumOnKept
<1>1. LoopInv /\ [LoopNext /\ ObsNext]_mcVars =>
        [/\ phys.direction # Idle
         /\ phys'.direction = Idle
         /\ now' # now
         /\ now' - phys.onSince < params.minimumOn
         => result'.reason \in ImmediateStopReasons]_vars
  BY LoopNextSound DEF LoopStepSound, StepSafe, mcVars
<1> QED
  BY <1>1, LoopInvariant, PTL DEF MCSpec, MinimumOnKept

\* A direction is left for the other one only after an uninterrupted demand
\* for it over the confirmation time, whatever windows, stops, boundaries and
\* parameter changes lie in between.
THEOREM LoopReversalConfirmed == MCSpec => ReversalConfirmed
<1>1. LoopInv /\ [LoopNext /\ ObsNext]_mcVars =>
        [/\ phys'.direction \notin {Idle, phys.direction}
         /\ obs.offDirection \notin {None, phys'.direction}
         => phys'.direction \in obs'.proved]_mcVars
  BY LoopNextSound DEF LoopStepSound, Reversing
<1> QED
  BY <1>1, LoopInvariant, PTL DEF MCSpec, ReversalConfirmed

\* After a tick an active output serves a request of the process context that
\* is committed then: a request of an earlier context never drives it.
THEOREM LoopServesContext == MCSpec => OutputServesCurrentContext
<1>1. LoopInv /\ [LoopNext /\ ObsNext]_mcVars =>
        [now' # now /\ phys'.direction # Idle =>
           plan'.accepted.context = process.revision]_<<vars, loopVars>>
  BY LoopNextSound DEF LoopStepSound, Serving, mcVars
<1> QED
  BY <1>1, LoopInvariant, PTL DEF MCSpec, OutputServesCurrentContext

-----------------------------------------------------------------------------
(***************************************************************************)
(* The output stage, for every set of unconfirmed outputs and every        *)
(* pattern of failing writes.                                              *)
(*                                                                         *)
(* A leg is raised only by a bridge that is ready and does not count the   *)
(* other leg as driven.  That this excludes both legs rests on what the    *)
(* marks of the bridge say about the outputs (Marked): as long as the      *)
(* bridge has not faulted, a leg whose output is on is marked, and after a *)
(* fault no leg is raised again.                                           *)
(***************************************************************************)

PinStates == [state: {"NotStarted", "Unconfirmed", "Ready", "Faulted"},
              on: BOOLEAN]

\* An output is on only after it was begun, and never both legs are on.
Boards ==
  {p \in [Pins -> PinStates] :
     /\ \A q \in Pins : p[q].on => p[q].state \in {"Ready", "Faulted"}
     /\ ~(p["forward"].on /\ p["reverse"].on)}

\* Only a bridge that is ready counts a leg as driven, and never both.
Bridges ==
  {b \in [state: {"NotStarted", "Ready", "Faulted"},
          forward: BOOLEAN, reverse: BOOLEAN] :
     /\ b.state # "Ready" => ~b.forward /\ ~b.reverse
     /\ ~(b.forward /\ b.reverse)}

SafeLevels == {l \in [Pins -> BOOLEAN] : ~(l["forward"] /\ l["reverse"])}

Frames == [pin: Boards, bridge: Bridges, trace: Seq(SafeLevels), ok: BOOLEAN]

\* Unless the bridge has faulted, it counts every leg that is on.
Marked(p, b) ==
  b.state # "Faulted" =>
    /\ p["forward"].on => b.forward
    /\ p["reverse"].on => b.reverse

\* An output that the hardware refused to switch off.
Stuck(p) == \E q \in BridgePins : p[q].state = "Faulted" /\ p[q].on

\* The leg is without power, or an output is stuck.
LegOff(p, leg) == p["enable"].on /\ p[leg].on => Stuck(p)

-----------------------------------------------------------------------------
(* A single output *)

\* The outputs agree except for the one that was written.
SameBut(p, r, q) == \A o \in Pins \ {q} : r[o] = p[o]

\* A write changes one output; the levels after it are safe when the board is.
LEMMA WrittenEffect ==
  ASSUME NEW s \in Frames, NEW q \in Pins, NEW after \in PinStates,
         NEW ok \in BOOLEAN,
         after.on => after.state \in {"Ready", "Faulted"},
         after.on /\ q \in Legs => ~s.pin[Other(q)].on
  PROVE  LET r == Written(s, q, after, ok)
         IN  /\ r \in Frames /\ r.bridge = s.bridge /\ r.ok = ok
             /\ r.pin[q] = after /\ SameBut(s.pin, r.pin, q)
<1> DEFINE p == [s.pin EXCEPT ![q] = after]
           r == Written(s, q, after, ok)
<1>1. /\ p \in [Pins -> PinStates] /\ p[q] = after
      /\ SameBut(s.pin, p, q)
  BY DEF Frames, Boards, SameBut
<1>2. ~(p["forward"].on /\ p["reverse"].on)
  BY <1>1 DEF Frames, Boards, SameBut, Other, Legs, Pins, BridgePins
<1>3. p \in Boards
  BY <1>1, <1>2 DEF Frames, Boards, SameBut
<1>4. Levels(p) \in SafeLevels
  BY <1>3 DEF Levels, SafeLevels, Boards, PinStates, Pins, BridgePins, Legs
<1>5. Append(s.trace, Levels(p)) \in Seq(SafeLevels)
  BY <1>4 DEF Frames
<1>6. r = [s EXCEPT !.pin = p, !.trace = Append(s.trace, Levels(p)), !.ok = ok]
  BY DEF Written
<1> HIDE DEF p, r
<1>7. ASSUME NEW u \in Seq(SafeLevels),
             r = [s EXCEPT !.pin = p, !.trace = u, !.ok = ok]
      PROVE  r \in Frames /\ r.bridge = s.bridge /\ r.ok = ok /\ r.pin = p
  BY <1>3, <1>7 DEF Frames
<1> QED
  BY <1>1, <1>5, <1>6, <1>7 DEF r

\* begin() of an output never switches it on.
LEMMA BeginOutputEffect ==
  ASSUME NEW s \in Frames, NEW q \in Pins, NEW mood \in Moods
  PROVE  LET r == BeginOutput(s, q, mood)
         IN  /\ r \in Frames /\ r.bridge = s.bridge
             /\ SameBut(s.pin, r.pin, q)
             /\ r.pin[q].on => s.pin[q].on
             /\ s.pin[q].state = "NotStarted" => ~r.pin[q].on
             /\ r.pin[q].state # "NotStarted"
<1> DEFINE begun == s.pin[q].state # "NotStarted"
           lost == [state |-> "Unconfirmed", on |-> s.pin[q].on]
           ready == [state |-> "Ready", on |-> FALSE]
           faulted == [state |-> "Faulted", on |-> s.pin[q].on]
<1>1. CASE begun
  BY <1>1 DEF BeginOutput, Frames, Boards, SameBut
<1>2. CASE ~begun
  <2>1. /\ ~s.pin[q].on
        /\ lost \in PinStates /\ ready \in PinStates /\ faulted \in PinStates
    BY <1>2 DEF Frames, Boards, PinStates
  <2>2. PICK a \in {lost, ready, faulted}, ok \in BOOLEAN :
          BeginOutput(s, q, mood) = Written(s, q, a, ok)
    BY <1>2 DEF BeginOutput
  <2>3. ~a.on /\ a \in PinStates /\ a.state # "NotStarted"
    <3>1. CASE a = lost
      BY <2>1, <3>1
    <3>2. CASE a = ready
      BY <2>1, <3>2
    <3>3. CASE a = faulted
      BY <2>1, <3>3
    <3> QED
      BY <2>2, <3>1, <3>2, <3>3
  <2> QED
    BY <2>1, <2>2, <2>3, WrittenEffect
<1> QED
  BY <1>1, <1>2

\* Nothing stands against switching the output on.
Free(s, q) == q \in Legs => ~s.pin[Other(q)].on

\* The write concerned one output; on success it has the level asked for.
Switched(s, r, q, enabled) ==
  /\ r \in Frames /\ r.bridge = s.bridge
  /\ SameBut(s.pin, r.pin, q)
  /\ ~enabled /\ r.pin[q].on => s.pin[q].on /\ r.pin[q].state = "Faulted"
  /\ r.ok => (r.pin[q].on <=> enabled)

\* setEnabled(): what is switched off stays on only where a write failed, and
\* then the output has faulted; a write that worked left its level.
LEMMA SetEnabledEffect ==
  ASSUME NEW s \in Frames, NEW q \in Pins, NEW enabled \in BOOLEAN,
         NEW mood \in Moods, enabled => Free(s, q)
  PROVE  Switched(s, SetEnabled(s, q, enabled, mood), q, enabled)
<1> DEFINE before == s.pin[q]
           faulted == [state |-> "Faulted", on |-> before.on /\ mood = "stuck"]
           set == [before EXCEPT !.on = enabled]
<1>1. /\ before \in PinStates
      /\ before.on => before.state \in {"Ready", "Faulted"}
  BY DEF Frames, Boards
<1>2. faulted \in PinStates /\ (faulted.on => before.on)
  BY <1>1 DEF PinStates
<1>3. /\ set \in PinStates /\ set.on = enabled /\ set.state = before.state
  BY <1>1 DEF PinStates
<1>4. q \in Legs /\ before.on => ~s.pin[Other(q)].on
  BY DEF Frames, Boards, Legs, Other
<1>5. CASE before.state = "Ready" /\ mood = "ok"
  <2>1. SetEnabled(s, q, enabled, mood) = Written(s, q, set, TRUE)
    BY <1>5 DEF SetEnabled
  <2>2. set.on => set.state \in {"Ready", "Faulted"}
    BY <1>3, <1>5
  <2>3. LET r == Written(s, q, set, TRUE)
        IN  /\ r \in Frames /\ r.bridge = s.bridge /\ r.ok = TRUE
            /\ r.pin[q] = set /\ SameBut(s.pin, r.pin, q)
    <3> HIDE DEF set
    <3> QED
      BY <1>3, <2>2, WrittenEffect DEF Free
  <2> HIDE DEF set
  <2> QED
    BY <1>3, <2>1, <2>3 DEF Switched
<1>6. CASE /\ ~(before.state = "Ready" /\ mood = "ok")
           /\ before.state = "Ready" \/ (before.state = "Faulted" /\ ~enabled)
  <2>1. SetEnabled(s, q, enabled, mood) = Written(s, q, faulted, FALSE)
    BY <1>6 DEF SetEnabled
  <2>2. faulted.state = "Faulted"
    OBVIOUS
  <2> HIDE DEF faulted
  <2>3. LET r == Written(s, q, faulted, FALSE)
        IN  /\ r \in Frames /\ r.bridge = s.bridge /\ r.ok = FALSE
            /\ r.pin[q] = faulted /\ SameBut(s.pin, r.pin, q)
    BY <1>2, <1>4, <2>2, WrittenEffect
  <2> QED
    BY <1>2, <2>1, <2>2, <2>3 DEF Switched
<1>7. CASE ~(before.state = "Ready" \/ (before.state = "Faulted" /\ ~enabled))
  <2>1. SetEnabled(s, q, enabled, mood) = [s EXCEPT !.ok = FALSE]
    BY <1>7 DEF SetEnabled
  <2> QED
    BY <1>1, <1>7, <2>1 DEF Frames, SameBut, Switched
<1> QED
  BY <1>5, <1>6, <1>7

\* Switching off, for every output.
LEMMA SwitchOffEffect ==
  ASSUME NEW s \in Frames, NEW q \in Pins, NEW mood \in Moods
  PROVE  Switched(s, SetEnabled(s, q, FALSE, mood), q, FALSE)
BY SetEnabledEffect, ZenonT(30)

\* Switching on, a leg only beside a leg that is off.
LEMMA SwitchOnEffect ==
  ASSUME NEW s \in Frames, NEW q \in Pins, NEW mood \in Moods, Free(s, q)
  PROVE  Switched(s, SetEnabled(s, q, TRUE, mood), q, TRUE)
BY SetEnabledEffect, ZenonT(30)

-----------------------------------------------------------------------------
(* The bridge *)

MoodMaps == [Pins -> Moods]

\* What is still on was on before and has faulted; the fan is left alone.
Lowered(s, r) ==
  /\ r \in Frames
  /\ r.pin["outerFan"] = s.pin["outerFan"]
  /\ \A q \in BridgePins :
       r.pin[q].on => s.pin[q].on /\ r.pin[q].state = "Faulted"

\* Both legs are without power then, up to a stuck output.
LEMMA LoweredLegsOff ==
  ASSUME NEW s, NEW r, Lowered(s, r)
  PROVE  \A leg \in Legs : LegOff(r.pin, leg)
BY DEF Lowered, LegOff, Stuck, BridgePins, Legs

\* setAllOff() switches the three outputs off, or they have faulted.
LEMMA AllOffEffect ==
  ASSUME NEW s \in Frames, NEW moods \in MoodMaps
  PROVE  LET r == AllOff(s, moods)
         IN  /\ Lowered(s, r) /\ r.bridge = s.bridge
             /\ r.ok => \A q \in BridgePins : ~r.pin[q].on
<1> DEFINE e == SetEnabled(s, "enable", FALSE, moods["enable"])
           f == SetEnabled(e, "forward", FALSE, moods["forward"])
           r == SetEnabled(f, "reverse", FALSE, moods["reverse"])
<1>1. \A q \in BridgePins : q \in Pins /\ moods[q] \in Moods
  BY DEF MoodMaps, Pins
<1>2. /\ e \in Frames /\ e.bridge = s.bridge /\ SameBut(s.pin, e.pin, "enable")
      /\ e.pin["enable"].on =>
           s.pin["enable"].on /\ e.pin["enable"].state = "Faulted"
      /\ e.ok => ~e.pin["enable"].on
  <2>1. Switched(s, e, "enable", FALSE)
    BY <1>1, SwitchOffEffect DEF BridgePins, Legs
  <2> HIDE DEF e
  <2> QED
    BY <2>1 DEF Switched
<1> HIDE DEF e
<1>3. /\ f \in Frames /\ f.bridge = e.bridge /\ SameBut(e.pin, f.pin, "forward")
      /\ f.pin["forward"].on =>
           e.pin["forward"].on /\ f.pin["forward"].state = "Faulted"
      /\ f.ok => ~f.pin["forward"].on
  <2>1. Switched(e, f, "forward", FALSE)
    BY <1>1, <1>2, SwitchOffEffect DEF BridgePins, Legs
  <2> HIDE DEF f
  <2> QED
    BY <2>1 DEF Switched
<1> HIDE DEF f
<1>4. /\ r \in Frames /\ r.bridge = f.bridge /\ SameBut(f.pin, r.pin, "reverse")
      /\ r.pin["reverse"].on =>
           f.pin["reverse"].on /\ r.pin["reverse"].state = "Faulted"
      /\ r.ok => ~r.pin["reverse"].on
  <2>1. Switched(f, r, "reverse", FALSE)
    BY <1>1, <1>3, SwitchOffEffect DEF BridgePins, Legs
  <2> HIDE DEF r
  <2> QED
    BY <2>1 DEF Switched
<1> HIDE DEF r
<1>5. /\ r.pin["outerFan"] = s.pin["outerFan"]
      /\ r.pin["enable"] = e.pin["enable"]
      /\ r.pin["forward"] = f.pin["forward"]
      /\ e.pin["forward"] = s.pin["forward"]
      /\ f.pin["reverse"] = s.pin["reverse"]
  BY <1>2, <1>3, <1>4 DEF SameBut, Pins, BridgePins, Legs
<1>6. AllOff(s, moods) = [r EXCEPT !.ok = e.ok /\ f.ok /\ r.ok]
  BY DEF AllOff, e, f, r
<1>7. LET a == [r EXCEPT !.ok = e.ok /\ f.ok /\ r.ok]
      IN  /\ a \in Frames /\ a.bridge = r.bridge /\ a.pin = r.pin
          /\ a.ok => e.ok /\ f.ok /\ r.ok
  BY <1>2, <1>3, <1>4 DEF Frames
<1> QED
  BY <1>2, <1>3, <1>4, <1>5, <1>6, <1>7 DEF Lowered, BridgePins, Legs

\* After shutdown() the bridge is faulted for good.
LEMMA ShutdownEffect ==
  ASSUME NEW s \in Frames, NEW moods \in MoodMaps
  PROVE  LET r == Shutdown(s, moods)
         IN  Lowered(s, r) /\ r.bridge.state = "Faulted"
<1> DEFINE off == AllOff(s, moods)
           b == [state |-> "Faulted", forward |-> FALSE, reverse |-> FALSE]
<1>1. Lowered(s, off)
  BY AllOffEffect
<1>2. b \in Bridges /\ b.state = "Faulted"
  BY DEF Bridges
<1>3. Shutdown(s, moods) = [off EXCEPT !.bridge = b]
  BY DEF Shutdown
<1> HIDE DEF off, b
<1> QED
  BY <1>1, <1>2, <1>3 DEF Lowered, Frames

\* The frame is sound between two calls of the bridge.
Settled(s) == s \in Frames /\ Marked(s.pin, s.bridge)

\* A frame whose outputs were lowered is settled with the marks it had.
LEMMA LoweredSettled ==
  ASSUME NEW s, NEW r, Settled(s), Lowered(s, r),
         r.bridge = s.bridge \/ r.bridge.state = "Faulted"
  PROVE  Settled(r)
BY DEF Settled, Lowered, Marked, BridgePins, Legs

\* begin() of the bridge leaves it settled and without power.
LEMMA BeginBridgeEffect ==
  ASSUME NEW s, Settled(s), NEW moods \in MoodMaps
  PROVE  LET r == BeginBridge(s, moods)
         IN  /\ Settled(r)
             /\ r.pin["enable"].on => s.pin["enable"].on
<1> DEFINE off == AllOff(s, moods)
           down == Shutdown(off, moods)
           up == [off EXCEPT !.bridge.state = "Ready"]
<1>1. /\ Lowered(s, off) /\ off.bridge = s.bridge
      /\ off.ok => \A q \in BridgePins : ~off.pin[q].on
  BY AllOffEffect DEF Settled
<1>2. Settled(off)
  BY <1>1, LoweredSettled
<1>3. Lowered(off, down) /\ down.bridge.state = "Faulted"
  BY <1>2, ShutdownEffect DEF Settled
<1>4. Settled(down)
  BY <1>2, <1>3, LoweredSettled
<1>5. BeginBridge(s, moods) = IF s.bridge.state # "NotStarted" THEN s
                              ELSE IF off.ok THEN up ELSE down
  BY DEF BeginBridge
<1>6. ASSUME off.ok, s.bridge.state = "NotStarted"
      PROVE  Settled(up) /\ up.pin = off.pin
  <2> DEFINE b == [off.bridge EXCEPT !.state = "Ready"]
  <2>1. b \in Bridges
    BY <1>1, <1>2, <1>6 DEF Settled, Frames, Bridges
  <2>2. up = [off EXCEPT !.bridge = b]
    OBVIOUS
  <2> HIDE DEF off, up, b
  <2>3. up \in Frames /\ up.pin = off.pin
    BY <1>2, <2>1, <2>2 DEF Settled, Frames
  <2> QED
    BY <1>1, <1>6, <2>3 DEF Settled, Marked, BridgePins, Legs
<1> HIDE DEF off, down, up
<1>7. /\ off.pin["enable"].on => s.pin["enable"].on
      /\ down.pin["enable"].on => off.pin["enable"].on
  BY <1>1, <1>3 DEF Lowered, BridgePins
<1> QED
  BY <1>4, <1>5, <1>6, <1>7

\* turnLegOn(): a leg is raised beside a leg that is off.
LEMMA TurnLegOnEffect ==
  ASSUME NEW s, Settled(s), NEW leg \in Legs, NEW moods \in MoodMaps,
         s.bridge.state = "Ready", ~s.bridge[Other(leg)]
  PROVE  LET r == TurnLegOn(s, leg, moods)
         IN  Settled(r) /\ r.pin["outerFan"] = s.pin["outerFan"]
<1> DEFINE raised == SetEnabled(s, leg, TRUE, moods[leg])
           marked == [raised EXCEPT !.bridge[leg] = TRUE]
           powered == SetEnabled(marked, "enable", TRUE, moods["enable"])
<1>1. /\ leg \in Pins /\ moods[leg] \in Moods /\ moods["enable"] \in Moods
      /\ "enable" \in Pins /\ "enable" \notin Legs
      /\ "outerFan" \in Pins \ {"enable", leg}
      /\ Other(leg) \in Pins \ {leg, "enable"} /\ leg # "enable"
  BY DEF MoodMaps, Pins, BridgePins, Legs, Other
<1>2. ~s.pin[Other(leg)].on
  BY DEF Settled, Marked, Legs, Other
<1>3. Free(s, leg)
  BY <1>2 DEF Free
<1>4. /\ raised \in Frames /\ raised.bridge = s.bridge
      /\ SameBut(s.pin, raised.pin, leg)
  BY <1>1, <1>3, SwitchOnEffect DEF Settled, Switched
<1> HIDE DEF raised
<1>5. /\ marked \in Frames /\ marked.pin = raised.pin
      /\ marked.bridge = [s.bridge EXCEPT ![leg] = TRUE]
  <2> DEFINE b == [s.bridge EXCEPT ![leg] = TRUE]
  <2>1. b \in Bridges
    <3>1. CASE leg = "forward"
      BY <3>1 DEF Settled, Frames, Bridges, Other
    <3>2. CASE leg = "reverse"
      BY <3>2 DEF Settled, Frames, Bridges, Other
    <3> QED
      BY <3>1, <3>2 DEF Legs
  <2>2. marked = [raised EXCEPT !.bridge = b]
    BY <1>4
  <2> HIDE DEF marked, b
  <2>3. marked \in Frames /\ marked.pin = raised.pin /\ marked.bridge = b
    BY <1>4, <2>1, <2>2 DEF Frames
  <2> QED
    BY <2>3 DEF b
<1> HIDE DEF marked
<1>6. Free(marked, "enable")
  BY <1>1 DEF Free
<1>7. /\ powered \in Frames /\ powered.bridge = marked.bridge
      /\ SameBut(marked.pin, powered.pin, "enable")
  <2>1. Switched(marked, powered, "enable", TRUE)
    BY <1>1, <1>5, <1>6, SwitchOnEffect
  <2> QED
    BY <2>1 DEF Switched
<1> HIDE DEF powered
<1>8. /\ raised.pin["outerFan"] = s.pin["outerFan"]
      /\ powered.pin["outerFan"] = s.pin["outerFan"]
      /\ powered.pin[Other(leg)] = s.pin[Other(leg)]
  BY <1>1, <1>4, <1>5, <1>7 DEF SameBut
<1>9. Settled(powered)
  <2>1. CASE leg = "forward"
    BY <1>2, <1>5, <1>7, <1>8, <2>1 DEF Settled, Marked, Other, Frames, Bridges
  <2>2. CASE leg = "reverse"
    BY <1>2, <1>5, <1>7, <1>8, <2>2 DEF Settled, Marked, Other, Frames, Bridges
  <2> QED
    BY <2>1, <2>2 DEF Legs
<1>10. ASSUME NEW x \in Frames, x.pin["outerFan"] = s.pin["outerFan"]
      PROVE  LET r == Shutdown(x, moods)
             IN  Settled(r) /\ r.pin["outerFan"] = s.pin["outerFan"]
  BY <1>10, ShutdownEffect DEF Lowered, Settled, Marked
<1>11. TurnLegOn(s, leg, moods) \in
        {Shutdown(raised, moods), Shutdown(powered, moods), powered}
  BY DEF TurnLegOn, raised, marked, powered
<1> QED
  BY <1>4, <1>7, <1>8, <1>9, <1>10, <1>11

\* turnLegOff() takes the shared enable first: afterwards no leg has power, up
\* to a stuck output.
LEMMA TurnLegOffEffect ==
  ASSUME NEW s, Settled(s), NEW leg \in Legs, NEW moods \in MoodMaps
  PROVE  LET r == TurnLegOff(s, leg, moods)
         IN  /\ Settled(r) /\ r.pin["outerFan"] = s.pin["outerFan"]
             /\ \A l \in Legs : LegOff(r.pin, l)
<1> DEFINE gated == SetEnabled(s, "enable", FALSE, moods["enable"])
           lowered == SetEnabled(gated, leg, FALSE, moods[leg])
           marked == [lowered EXCEPT !.bridge[leg] = FALSE]
<1>1. /\ leg \in Pins /\ moods[leg] \in Moods /\ moods["enable"] \in Moods
      /\ "enable" \in Pins /\ "outerFan" \in Pins \ {"enable", leg}
      /\ Other(leg) \in Pins \ {leg, "enable"} /\ leg # "enable"
  BY DEF MoodMaps, Pins, BridgePins, Legs, Other
<1>2. Switched(s, gated, "enable", FALSE)
  BY <1>1, SwitchOffEffect DEF Settled
<1> HIDE DEF gated
<1>3. Switched(gated, lowered, leg, FALSE)
  <2>1. gated \in Frames
    BY <1>2 DEF Switched
  <2> QED
    BY <1>1, <2>1, SwitchOffEffect
<1> HIDE DEF lowered
<1>4. /\ lowered \in Frames /\ lowered.bridge = s.bridge
      /\ lowered.pin["outerFan"] = s.pin["outerFan"]
      /\ lowered.pin["enable"] = gated.pin["enable"]
      /\ lowered.pin[Other(leg)] = s.pin[Other(leg)]
  BY <1>1, <1>2, <1>3 DEF Switched, SameBut
<1>5. /\ marked \in Frames /\ marked.pin = lowered.pin
      /\ marked.bridge = [s.bridge EXCEPT ![leg] = FALSE]
  <2> DEFINE b == [s.bridge EXCEPT ![leg] = FALSE]
  <2>1. b \in Bridges
    <3>1. CASE leg = "forward"
      BY <3>1 DEF Settled, Frames, Bridges
    <3>2. CASE leg = "reverse"
      BY <3>2 DEF Settled, Frames, Bridges
    <3> QED
      BY <3>1, <3>2 DEF Legs
  <2>2. marked = [lowered EXCEPT !.bridge = b]
    BY <1>4
  <2> HIDE DEF marked, b
  <2>3. marked \in Frames /\ marked.pin = lowered.pin /\ marked.bridge = b
    BY <1>4, <2>1, <2>2 DEF Frames
  <2> QED
    BY <2>3 DEF b
<1> HIDE DEF marked
<1>6. CASE gated.ok /\ lowered.ok
  <2>1. ~marked.pin["enable"].on /\ ~marked.pin[leg].on
    BY <1>2, <1>3, <1>4, <1>5, <1>6 DEF Switched
  <2>2. TurnLegOff(s, leg, moods) = marked
    BY <1>6 DEF TurnLegOff, gated, lowered, marked
  <2>3. Settled(marked)
    <3>1. CASE leg = "forward"
      BY <1>4, <1>5, <2>1, <3>1 DEF Settled, Marked, Other, Frames, Bridges
    <3>2. CASE leg = "reverse"
      BY <1>4, <1>5, <2>1, <3>2 DEF Settled, Marked, Other, Frames, Bridges
    <3> QED
      BY <3>1, <3>2 DEF Legs
  <2> QED
    BY <1>4, <1>5, <2>1, <2>2, <2>3 DEF LegOff
<1>7. CASE ~(gated.ok /\ lowered.ok)
  <2>1. TurnLegOff(s, leg, moods) = Shutdown(marked, moods)
    BY <1>7 DEF TurnLegOff, gated, lowered, marked
  <2>2. LET r == Shutdown(marked, moods)
        IN  Lowered(marked, r) /\ r.bridge.state = "Faulted"
    BY <1>5, ShutdownEffect
  <2> QED
    BY <1>4, <1>5, <2>1, <2>2, LoweredLegsOff DEF Lowered, Settled, Marked
<1> QED
  BY <1>6, <1>7

\* setLeg() keeps the bridge settled; switching a leg off takes its power and
\* gives none to the other.
LEMMA SetLegEffect ==
  ASSUME NEW s, Settled(s), NEW leg \in Legs, NEW enabled \in BOOLEAN,
         NEW moods \in MoodMaps
  PROVE  LET r == SetLeg(s, leg, enabled, moods)
         IN  /\ Settled(r) /\ r.pin["outerFan"] = s.pin["outerFan"]
             /\ ~enabled => LegOff(r.pin, leg)
             /\ ~enabled /\ LegOff(s.pin, Other(leg)) =>
                  LegOff(r.pin, Other(leg))
<1> DEFINE r == SetLeg(s, leg, enabled, moods)
           down == Shutdown(s, moods)
<1>1. Other(leg) \in Legs
  BY DEF Other, Legs
<1>2. /\ Settled(down) /\ down.pin["outerFan"] = s.pin["outerFan"]
      /\ \A l \in Legs : LegOff(down.pin, l)
  <2>1. Lowered(s, down) /\ down.bridge.state = "Faulted"
    BY ShutdownEffect DEF Settled
  <2> QED
    BY <2>1, LoweredSettled, LoweredLegsOff DEF Lowered
<1> HIDE DEF down
<1>3. s.bridge.state \in {"NotStarted", "Ready", "Faulted"}
  BY DEF Settled, Frames, Bridges
<1>4. CASE s.bridge.state = "NotStarted"
  <2>1. r = s
    BY <1>4 DEF SetLeg
  <2>2. ~s.pin[leg].on
    BY <1>4 DEF Settled, Marked, Frames, Bridges, Legs
  <2> HIDE DEF r
  <2> QED
    BY <2>1, <2>2 DEF LegOff, r
<1>5. CASE s.bridge.state = "Faulted"
  <2>1. r = IF enabled THEN s ELSE down
    BY <1>5 DEF SetLeg, down
  <2> HIDE DEF r
  <2> QED
    BY <1>1, <1>2, <2>1 DEF r
<1>6. CASE s.bridge.state = "Ready" /\ enabled
  <2>1. r = IF s.bridge[Other(leg)] THEN down
            ELSE IF s.bridge[leg] THEN s ELSE TurnLegOn(s, leg, moods)
    BY <1>6 DEF SetLeg, down
  <2> HIDE DEF r
  <2> QED
    BY <1>2, <1>6, <2>1, TurnLegOnEffect DEF r
<1>7. CASE s.bridge.state = "Ready" /\ ~enabled
  <2>1. r = IF s.bridge[leg] THEN TurnLegOff(s, leg, moods) ELSE s
    BY <1>7 DEF SetLeg
  <2>2. ~s.bridge[leg] => ~s.pin[leg].on
    BY <1>7 DEF Settled, Marked, Legs
  <2> HIDE DEF r
  <2>3. CASE s.bridge[leg]
    BY <1>1, <2>1, <2>3, TurnLegOffEffect DEF r
  <2>4. CASE ~s.bridge[leg]
    BY <2>1, <2>2, <2>4 DEF LegOff, r
  <2> QED
    BY <2>3, <2>4
<1> QED
  BY <1>3, <1>4, <1>5, <1>6, <1>7

\* The leg off and the leg on, as the driver asks for them.
LEMMA SetLegOnOff ==
  ASSUME NEW s, Settled(s), NEW leg \in Legs, NEW moods \in MoodMaps
  PROVE  /\ LET r == SetLeg(s, leg, FALSE, moods)
            IN  /\ Settled(r) /\ r.pin["outerFan"] = s.pin["outerFan"]
                /\ LegOff(r.pin, leg)
                /\ LegOff(s.pin, Other(leg)) => LegOff(r.pin, Other(leg))
         /\ LET r == SetLeg(s, leg, TRUE, moods)
            IN  Settled(r) /\ r.pin["outerFan"] = s.pin["outerFan"]
BY SetLegEffect, ZenonT(30)

-----------------------------------------------------------------------------
(* The driver *)

\* The element is without power, or with the outer fan, or an output is stuck.
Cooled(p) ==
  p["outerFan"].on \/ \A leg \in Legs : LegOff(p, leg)

\* Switching a fan leaves the bridge and its outputs alone.
LEMMA FanEffect ==
  ASSUME NEW s, NEW r, NEW fan \in {"outerFan", "innerFan"}, NEW enabled,
         Settled(s), Switched(s, r, fan, enabled)
  PROVE  /\ Settled(r)
         /\ \A leg \in Legs : LegOff(s.pin, leg) => LegOff(r.pin, leg)
         /\ fan = "innerFan" => r.pin["outerFan"] = s.pin["outerFan"]
BY DEF Settled, Switched, SameBut, Marked, LegOff, Stuck, Pins, BridgePins, Legs

\* Switching a fan to either level.
LEMMA SetFanEffect ==
  ASSUME NEW s, NEW fan \in {"outerFan", "innerFan"}, NEW enabled \in BOOLEAN,
         NEW mood \in Moods, Settled(s)
  PROVE  Switched(s, SetEnabled(s, fan, enabled, mood), fan, enabled)
<1>1. fan \in Pins /\ Free(s, fan)
  BY DEF Free, Pins, BridgePins, Legs
<1> QED
  BY <1>1, SetEnabledEffect DEF Settled

\* The element off: no leg has power, up to a stuck output.
LEMMA PeltierOffEffect ==
  ASSUME NEW s, Settled(s), NEW moods \in MoodMaps
  PROVE  LET r == PeltierOff(s, moods)
         IN  Settled(r) /\ \A leg \in Legs : LegOff(r.pin, leg)
<1> DEFINE a == SetLeg(s, "forward", FALSE, moods)
           b == SetLeg(a, "reverse", FALSE, moods)
<1>1. Settled(a) /\ LegOff(a.pin, "forward")
  BY SetLegOnOff DEF Legs
<1> HIDE DEF a
<1>2. /\ Settled(b) /\ LegOff(b.pin, "reverse")
      /\ LegOff(a.pin, "forward") => LegOff(b.pin, "forward")
  <2>1. Other("reverse") = "forward" /\ "reverse" \in Legs
    BY DEF Other, Legs
  <2> QED
    BY <1>1, <2>1, SetLegOnOff
<1> QED
  BY <1>1, <1>2 DEF PeltierOff, a, Legs

\* A direction on: only with the outer fan, or not at all.
LEMMA DriveEffect ==
  ASSUME NEW s, Settled(s), NEW leg \in Legs, NEW moods \in MoodMaps
  PROVE  LET r == Drive(s, leg, moods)
         IN  Settled(r) /\ Cooled(r.pin)
<1> DEFINE cleared == SetLeg(s, Other(leg), FALSE, moods)
           cooled == SetEnabled(cleared, "outerFan", TRUE, moods["outerFan"])
           on == SetLeg(cooled, leg, TRUE, moods)
           off == PeltierOff(cooled, moods)
<1>1. Settled(cleared)
  <2>1. Other(leg) \in Legs
    BY DEF Other, Legs
  <2> QED
    BY <2>1, SetLegOnOff
<1> HIDE DEF cleared
<1>2. Switched(cleared, cooled, "outerFan", TRUE)
  <2>1. moods["outerFan"] \in Moods
    BY DEF MoodMaps, Pins
  <2> QED
    BY <1>1, <2>1, SetFanEffect, ZenonT(30)
<1>3. Settled(cooled) /\ (cooled.ok => cooled.pin["outerFan"].on)
  <2>1. Settled(cooled)
    BY <1>1, <1>2, FanEffect
  <2> QED
    BY <1>2, <2>1 DEF Switched
<1> HIDE DEF cooled
<1>4. Settled(on) /\ on.pin["outerFan"] = cooled.pin["outerFan"]
  BY <1>3, SetLegOnOff
<1>5. Settled(off) /\ \A l \in Legs : LegOff(off.pin, l)
  BY <1>3, PeltierOffEffect
<1>6. Drive(s, leg, moods) = IF cooled.ok THEN on ELSE off
  BY DEF Drive, cleared, cooled
<1> HIDE DEF on, off
<1> QED
  BY <1>3, <1>4, <1>5, <1>6 DEF Cooled

\* apply() of a plan leaves the element cooled or off.
LEMMA ApplyEffect ==
  ASSUME NEW s, Settled(s), NEW direction \in {"Heating", "Cooling", "Idle"},
         NEW outerFan \in BOOLEAN, NEW innerFan \in BOOLEAN,
         NEW moods \in MoodMaps
  PROVE  LET r == ApplyResult(s, direction, outerFan, innerFan, moods)
         IN  Settled(r) /\ Cooled(r.pin)
<1> DEFINE off == PeltierOff(s, moods)
           idle == SetEnabled(off, "outerFan", outerFan, moods["outerFan"])
           driven ==
             CASE direction = "Heating" -> Drive(s, "forward", moods)
               [] direction = "Cooling" -> Drive(s, "reverse", moods)
               [] direction = "Idle" -> idle
           r == SetEnabled(driven, "innerFan", innerFan, moods["innerFan"])
<1>1. moods["outerFan"] \in Moods /\ moods["innerFan"] \in Moods
  BY DEF MoodMaps, Pins
<1>2. Settled(off) /\ \A leg \in Legs : LegOff(off.pin, leg)
  BY PeltierOffEffect
<1> HIDE DEF off
<1>3. Settled(idle) /\ Cooled(idle.pin)
  <2>1. Switched(off, idle, "outerFan", outerFan)
    BY <1>1, <1>2, SetFanEffect
  <2> HIDE DEF idle
  <2> QED
    BY <1>2, <2>1, FanEffect DEF Cooled
<1> HIDE DEF idle
<1>4. Settled(driven) /\ Cooled(driven.pin)
  <2>1. CASE direction = "Heating"
    BY <2>1, DriveEffect DEF Legs
  <2>2. CASE direction = "Cooling"
    BY <2>2, DriveEffect DEF Legs
  <2>3. CASE direction = "Idle"
    BY <1>3, <2>3
  <2> QED
    BY <2>1, <2>2, <2>3
<1>5. ApplyResult(s, direction, outerFan, innerFan, moods) = r
  BY DEF ApplyResult, idle, off
<1> HIDE DEF driven
<1>6. Switched(driven, r, "innerFan", innerFan)
  BY <1>1, <1>4, SetFanEffect
<1> HIDE DEF r
<1>7. Settled(r) /\ Cooled(r.pin)
  BY <1>4, <1>6, FanEffect DEF Cooled
<1> QED
  BY <1>5, <1>7

-----------------------------------------------------------------------------
(* The calls *)

\* The inductive invariant, true between two calls.
Sound ==
  /\ pin \in Boards /\ bridge \in Bridges /\ trace \in Seq(SafeLevels)
  /\ Marked(pin, bridge)
  /\ Cooled(pin)

\* A call starts from a settled frame.
LEMMA BeforeSettled ==
  ASSUME Sound
  PROVE  Settled(Before) /\ Before.pin = pin
<1>1. Levels(pin) \in SafeLevels
  BY DEF Sound, Levels, SafeLevels, Boards, PinStates, Pins, BridgePins, Legs
<1>2. <<Levels(pin)>> \in Seq(SafeLevels)
  BY <1>1
<1> QED
  BY <1>2 DEF Sound, Before, Settled, Frames

\* A call that leaves a settled and cooled frame keeps the invariant.
LEMMA LeaveSound ==
  ASSUME NEW s, Settled(s), Cooled(s.pin), Leave(s)
  PROVE  Sound'
<1>1. pin' = s.pin /\ bridge' = s.bridge /\ trace' = s.trace
  BY DEF Leave
<1>2. s.pin \in Boards /\ s.bridge \in Bridges /\ s.trace \in Seq(SafeLevels)
  BY DEF Settled, Frames
<1>3. Marked(pin', bridge') /\ Cooled(pin')
  BY <1>1 DEF Settled
<1> QED
  BY <1>1, <1>2, <1>3 DEF Sound, Marked, Cooled, LegOff, Stuck

\* begin() of a fan output.
LEMMA BeginFanSound ==
  ASSUME Sound, NEW moods \in MoodMaps, BeginFan(moods)
  PROVE  Sound'
<1>1. PICK q \in {"outerFan", "innerFan"} :
        /\ pin[q].state = "NotStarted"
        /\ Leave(BeginOutput(Before, q, moods[q]))
  BY DEF BeginFan
<1> DEFINE r == BeginOutput(Before, q, moods[q])
<1>2. q \in Pins /\ q \notin BridgePins /\ moods[q] \in Moods
  BY DEF Pins, BridgePins, Legs, MoodMaps
<1>3. Settled(Before) /\ Before.pin = pin
  BY BeforeSettled
<1>4. /\ r \in Frames /\ r.bridge = Before.bridge /\ SameBut(pin, r.pin, q)
      /\ ~r.pin[q].on
  BY <1>1, <1>2, <1>3, BeginOutputEffect DEF Settled
<1> HIDE DEF r
<1>5. \A o \in BridgePins : r.pin[o] = pin[o]
  BY <1>2, <1>4 DEF SameBut, Pins
<1>6. Settled(r)
  BY <1>3, <1>4, <1>5 DEF Settled, Marked, BridgePins, Legs
<1>7. \A leg \in Legs : LegOff(pin, leg) => LegOff(r.pin, leg)
  BY <1>5 DEF LegOff, Stuck, BridgePins, Legs
<1>8. Cooled(r.pin)
  <2>1. CASE q = "outerFan"
    <3>1. ~pin["outerFan"].on
      BY <1>1, <2>1 DEF Sound, Boards, Pins
    <3> QED
      BY <1>7, <3>1 DEF Sound, Cooled
  <2>2. CASE q = "innerFan"
    <3>1. r.pin["outerFan"] = pin["outerFan"]
      BY <1>4, <2>2 DEF SameBut, Pins
    <3> QED
      BY <1>7, <3>1 DEF Sound, Cooled
  <2> QED
    BY <2>1, <2>2
<1> QED
  BY <1>1, <1>6, <1>8, LeaveSound DEF r

\* begin() of the three outputs of the bridge and of the bridge.
LEMMA BeginSharedEnableBridgeSound ==
  ASSUME Sound, NEW moods \in MoodMaps, BeginSharedEnableBridge(moods)
  PROVE  Sound'
<1> DEFINE e == BeginOutput(Before, "enable", moods["enable"])
           f == BeginOutput(e, "forward", moods["forward"])
           r == BeginOutput(f, "reverse", moods["reverse"])
           up == BeginBridge(r, moods)
           off == AllOff(r, moods)
<1>1. \A q \in BridgePins : q \in Pins /\ moods[q] \in Moods
  BY DEF MoodMaps, Pins
<1>2. Settled(Before) /\ Before.pin = pin /\ pin["enable"].state = "NotStarted"
  BY BeforeSettled DEF BeginSharedEnableBridge
<1>3. /\ e \in Frames /\ e.bridge = Before.bridge
      /\ SameBut(pin, e.pin, "enable") /\ ~e.pin["enable"].on
  BY <1>1, <1>2, BeginOutputEffect DEF BridgePins, Settled
<1> HIDE DEF e
<1>4. /\ f \in Frames /\ f.bridge = e.bridge
      /\ SameBut(e.pin, f.pin, "forward")
      /\ f.pin["forward"].on => e.pin["forward"].on
  BY <1>1, <1>3, BeginOutputEffect DEF BridgePins, Legs
<1> HIDE DEF f
<1>5. /\ r \in Frames /\ r.bridge = f.bridge
      /\ SameBut(f.pin, r.pin, "reverse")
      /\ r.pin["reverse"].on => f.pin["reverse"].on
  BY <1>1, <1>4, BeginOutputEffect DEF BridgePins, Legs
<1>6. Leave(up) \/ Leave(off)
  BY DEF BeginSharedEnableBridge, e, f
<1> HIDE DEF r
<1>7. /\ r.pin["forward"].on => pin["forward"].on
      /\ r.pin["reverse"].on => pin["reverse"].on
      /\ ~r.pin["enable"].on
  BY <1>3, <1>4, <1>5 DEF SameBut, Pins, BridgePins, Legs
<1>8. Settled(r)
  BY <1>2, <1>3, <1>4, <1>5, <1>7 DEF Settled, Marked
<1>9. Settled(up) /\ ~up.pin["enable"].on
  BY <1>7, <1>8, BeginBridgeEffect
<1>10. Settled(off) /\ ~off.pin["enable"].on
  <2>1. Lowered(r, off) /\ off.bridge = r.bridge
    BY <1>5, AllOffEffect
  <2>2. Settled(off)
    BY <1>8, <2>1, LoweredSettled
  <2> QED
    BY <1>7, <2>1, <2>2 DEF Lowered, BridgePins
<1> HIDE DEF up, off
<1>11. Cooled(up.pin) /\ Cooled(off.pin)
  BY <1>9, <1>10 DEF Cooled, LegOff
<1> QED
  BY <1>6, <1>9, <1>10, <1>11, LeaveSound

\* Every call keeps the invariant.
LEMMA NextSound ==
  ASSUME Sound, [OutputsNext]_outputsVars
  PROVE  Sound'
<1>1. ASSUME NEW moods \in FailureMoods
      PROVE  moods \in MoodMaps
  BY DEF FailureMoods, MoodMaps
<1>2. ASSUME NEW moods \in FailureMoods, BeginFan(moods)
      PROVE  Sound'
  BY <1>1, <1>2, BeginFanSound
<1>3. ASSUME NEW moods \in FailureMoods, BeginSharedEnableBridge(moods)
      PROVE  Sound'
  BY <1>1, <1>3, BeginSharedEnableBridgeSound
<1>4. ASSUME NEW moods \in FailureMoods, Apply(moods)
      PROVE  Sound'
  <2>1. PICK direction \in {"Heating", "Cooling", "Idle"},
             outerFan \in BOOLEAN, innerFan \in BOOLEAN :
          Leave(ApplyResult(Before, direction, outerFan, innerFan, moods))
    BY <1>4 DEF Apply
  <2>2. LET r == ApplyResult(Before, direction, outerFan, innerFan, moods)
        IN  Settled(r) /\ Cooled(r.pin)
    BY <1>1, BeforeSettled, ApplyEffect
  <2> QED
    BY <2>1, <2>2, LeaveSound
<1>5. CASE UNCHANGED outputsVars
  BY <1>5 DEF outputsVars, Sound, Marked, Cooled, LegOff, Stuck
<1> QED
  BY <1>2, <1>3, <1>4, <1>5 DEF OutputsNext

-----------------------------------------------------------------------------
(* Theorems *)

\* Between calls the marks of the bridge cover every leg that is on, every
\* trace is safe and the element is powered only with its fan, whatever
\* outputs are unconfirmed and whatever writes fail.
THEOREM OutputsInvariant == OutputsSpec => []Sound
<1>1. OutputsInit => Sound
  <2> SUFFICES ASSUME OutputsInit PROVE Sound
    OBVIOUS
  <2>1. pin \in Boards /\ \A q \in Pins : ~pin[q].on
    BY DEF OutputsInit, Boards, PinStates, Pins, BridgePins, Legs
  <2>2. bridge \in Bridges
    BY DEF OutputsInit, Bridges
  <2>3. Levels(pin) \in SafeLevels
    BY <2>1 DEF Levels, SafeLevels, Boards, PinStates, Pins, BridgePins, Legs
  <2>4. trace \in Seq(SafeLevels)
    BY <2>3 DEF OutputsInit
  <2> QED
    BY <2>1, <2>2, <2>4
    DEF Sound, Marked, Cooled, LegOff, Pins, BridgePins, Legs
<1>2. Sound /\ [OutputsNext]_outputsVars => Sound'
  BY NextSound
<1> QED
  BY <1>1, <1>2, PTL DEF OutputsSpec

\* The outputs and the bridge keep their shape, and only a bridge that is ready
\* counts a leg as driven (SharedEnableBridgeSink).
THEOREM OutputsTypesKept == OutputsSpec => []OutputsTypeOK
<1>1. Sound => OutputsTypeOK
  BY DEF Sound, OutputsTypeOK, Boards, Bridges, PinStates, SafeLevels
<1> QED
  BY <1>1, OutputsInvariant, PTL

\* At no instant of any call are both legs of the H-bridge driven, whatever
\* outputs are unconfirmed and whatever writes fail (setLeg(), shutdown()).
THEOREM OutputsNeverBothLegs == OutputsSpec => []NeverBothLegsPowered
<1>1. Sound => NeverBothLegsPowered
  <2> SUFFICES ASSUME Sound, NEW i \in DOMAIN trace
               PROVE  ~(trace[i]["forward"] /\ trace[i]["reverse"])
    BY DEF NeverBothLegsPowered, Powered
  <2>1. trace[i] \in SafeLevels
    BY DEF Sound
  <2> QED
    BY <2>1 DEF SafeLevels
<1> QED
  BY <1>1, OutputsInvariant, PTL

\* When a call has ended, the element is powered only with the outer fan on,
\* except for an output the hardware refused to switch off
\* (ActuatorPlanSinkDriver).  Between two writes of one call it may be powered
\* without the fan: while a refused fan is answered by switching a leg off.
THEOREM OutputsPowerWithFan == OutputsSpec => []PowerOnlyWithOuterFan
<1>1. Sound => PowerOnlyWithOuterFan
  BY DEF Sound, PowerOnlyWithOuterFan, Powered, Levels, Cooled, LegOff, Stuck,
         Pins, BridgePins, Legs
<1> QED
  BY <1>1, OutputsInvariant, PTL

=============================================================================
