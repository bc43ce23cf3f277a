--------------------------- MODULE ActuatorOutputs ---------------------------
(***************************************************************************)
(* The output stage below the planner: ActuatorPlanSinkDriver::apply(),    *)
(* SharedEnableBridgeSink, EspIdfSharedEnableBridge and the five           *)
(* EspIdfBinaryOutputSink GPIO outputs, with failing GPIO writes.          *)
(*                                                                         *)
(* One call is one step; trace keeps the levels after every single write   *)
(* of the last call, so that properties can speak of the instants between  *)
(* two writes.                                                             *)
(***************************************************************************)
EXTENDS Integers, Sequences, FiniteSets

CONSTANT
  UnconfirmedOutputs,  \* outputs configured with OutputPolarity::Unconfirmed
  MaxFailing           \* bound on outputs whose GPIO writes fail in one call

Legs == {"forward", "reverse"}
BridgePins == {"enable"} \cup Legs
Pins == BridgePins \cup {"outerFan", "innerFan"}

\* How the GPIO driver answers during one call: every write works, the first
\* write to the output fails, or every write to it fails.
Moods == {"ok", "once", "stuck"}

ASSUME OutputsAssumption ==
  /\ UnconfirmedOutputs \subseteq SUBSET Pins
  /\ MaxFailing \in Nat

VARIABLES
  pin,         \* per output: state_ of the sink and whether its load is on
  bridge,      \* SharedEnableBridgeSink
  trace,       \* levels before the last call and after each of its writes
  unconfirmed  \* outputs of this board without a confirmed polarity

outputsVars == <<pin, bridge, trace, unconfirmed>>

Levels(p) == [q \in Pins |-> p[q].on]

OutputsInit ==
  /\ pin = [q \in Pins |-> [state |-> "NotStarted", on |-> FALSE]]
  /\ bridge = [state |-> "NotStarted", forward |-> FALSE, reverse |-> FALSE]
  /\ trace = <<Levels(pin)>>
  /\ unconfirmed \in UnconfirmedOutputs

-----------------------------------------------------------------------------
(* EspIdfBinaryOutputSink.  Operators thread a record                      *)
(* [pin, bridge, trace, ok]; ok is the result of the last write.           *)

Written(s, q, after, ok) ==
  LET p == [s.pin EXCEPT ![q] = after]
  IN  [s EXCEPT !.pin = p, !.trace = Append(@, Levels(p)), !.ok = ok]

BeginOutput(s, q, mood) ==
  IF s.pin[q].state # "NotStarted"
  THEN [s EXCEPT !.ok = s.pin[q].state = "Ready"]
  ELSE IF q \in unconfirmed
  THEN Written(s, q, [state |-> "Unconfirmed", on |-> s.pin[q].on], FALSE)
  ELSE IF mood = "ok"
  THEN Written(s, q, [state |-> "Ready", on |-> FALSE], TRUE)
  ELSE Written(s, q, [state |-> "Faulted", on |-> s.pin[q].on], FALSE)

SetEnabled(s, q, enabled, mood) ==
  LET before == s.pin[q]
      faulted == [state |-> "Faulted", on |-> before.on /\ mood = "stuck"]
  IN  IF before.state = "Ready" /\ mood = "ok"
      THEN Written(s, q, [before EXCEPT !.on = enabled], TRUE)
      ELSE IF before.state = "Ready" \/ (before.state = "Faulted" /\ ~enabled)
      THEN Written(s, q, faulted, FALSE)
      ELSE [s EXCEPT !.ok = FALSE]

-----------------------------------------------------------------------------
(* SharedEnableBridgeSink *)

AllOff(s, moods) ==
  LET e == SetEnabled(s, "enable", FALSE, moods["enable"])
      f == SetEnabled(e, "forward", FALSE, moods["forward"])
      r == SetEnabled(f, "reverse", FALSE, moods["reverse"])
  IN  [r EXCEPT !.ok = e.ok /\ f.ok /\ r.ok]

Shutdown(s, moods) ==
  [AllOff(s, moods) EXCEPT
     !.bridge = [state |-> "Faulted", forward |-> FALSE, reverse |-> FALSE]]

BeginBridge(s, moods) ==
  LET off == AllOff(s, moods)
  IN  IF s.bridge.state # "NotStarted" THEN s
      ELSE IF off.ok THEN [off EXCEPT !.bridge.state = "Ready"]
      ELSE Shutdown(off, moods)

Other(leg) == IF leg = "forward" THEN "reverse" ELSE "forward"

TurnLegOn(s, leg, moods) ==
  LET raised == SetEnabled(s, leg, TRUE, moods[leg])
      marked == [raised EXCEPT !.bridge[leg] = TRUE]
      powered == SetEnabled(marked, "enable", TRUE, moods["enable"])
  IN  IF ~raised.ok THEN Shutdown(raised, moods)
      ELSE IF ~powered.ok THEN Shutdown(powered, moods)
      ELSE powered

\* A mutant: a failed write is not noticed.
TurnLegOffUnchecked(s, leg, moods) ==
  LET gated == SetEnabled(s, "enable", FALSE, moods["enable"])
      lowered == SetEnabled(gated, leg, FALSE, moods[leg])
  IN  [lowered EXCEPT !.bridge[leg] = FALSE]

TurnLegOff(s, leg, moods) ==
  LET gated == SetEnabled(s, "enable", FALSE, moods["enable"])
      lowered == SetEnabled(gated, leg, FALSE, moods[leg])
      marked == [lowered EXCEPT !.bridge[leg] = FALSE]
  IN  IF gated.ok /\ lowered.ok THEN marked ELSE Shutdown(marked, moods)

SetLeg(s, leg, enabled, moods) ==
  CASE s.bridge.state = "NotStarted" -> s
    [] s.bridge.state = "Faulted" -> IF enabled THEN s ELSE Shutdown(s, moods)
    [] s.bridge.state = "Ready" ->
         IF enabled
         THEN IF s.bridge[Other(leg)] THEN Shutdown(s, moods)
              ELSE IF s.bridge[leg] THEN s
              ELSE TurnLegOn(s, leg, moods)
         ELSE IF s.bridge[leg] THEN TurnLegOff(s, leg, moods)
              ELSE s

-----------------------------------------------------------------------------
(* ActuatorPlanSinkDriver *)

PeltierOff(s, moods) ==
  SetLeg(SetLeg(s, "forward", FALSE, moods), "reverse", FALSE, moods)

\* A mutant: the leg is switched on although the outer fan refused.
DriveUncooled(s, leg, moods) ==
  SetLeg(SetEnabled(SetLeg(s, Other(leg), FALSE, moods), "outerFan", TRUE,
                    moods["outerFan"]), leg, TRUE, moods)

\* A direction on: the opposite leg off, the outer fan on, then the leg; a
\* refused outer fan switches the element off instead.
Drive(s, leg, moods) ==
  LET cleared == SetLeg(s, Other(leg), FALSE, moods)
      cooled == SetEnabled(cleared, "outerFan", TRUE, moods["outerFan"])
  IN  IF cooled.ok THEN SetLeg(cooled, leg, TRUE, moods)
      ELSE PeltierOff(cooled, moods)

ApplyResult(s, direction, outerFan, innerFan, moods) ==
  LET driven ==
        CASE direction = "Heating" -> Drive(s, "forward", moods)
          [] direction = "Cooling" -> Drive(s, "reverse", moods)
          [] direction = "Idle" ->
               SetEnabled(PeltierOff(s, moods), "outerFan", outerFan,
                          moods["outerFan"])
  IN  SetEnabled(driven, "innerFan", innerFan, moods["innerFan"])

-----------------------------------------------------------------------------
(* Operations *)

FailureMoods ==
  {m \in [Pins -> Moods] :
     Cardinality({q \in Pins : m[q] # "ok"}) <= MaxFailing}

Before == [pin |-> pin, bridge |-> bridge, trace |-> <<Levels(pin)>>,
           ok |-> TRUE]

Leave(s) ==
  /\ pin' = s.pin
  /\ bridge' = s.bridge
  /\ trace' = s.trace
  /\ UNCHANGED unconfirmed

\* EspIdfBinaryOutputSink::begin() of a fan output
BeginFan(moods) ==
  \E q \in {"outerFan", "innerFan"} :
    /\ pin[q].state = "NotStarted"
    /\ Leave(BeginOutput(Before, q, moods[q]))

\* EspIdfSharedEnableBridge::begin()
BeginSharedEnableBridge(moods) ==
  LET e == BeginOutput(Before, "enable", moods["enable"])
      f == BeginOutput(e, "forward", moods["forward"])
      r == BeginOutput(f, "reverse", moods["reverse"])
  IN  /\ pin["enable"].state = "NotStarted"
      /\ Leave(IF e.ok /\ f.ok /\ r.ok THEN BeginBridge(r, moods)
               ELSE AllOff(r, moods))

\* ActuatorPlanSinkDriver::apply(); a driven direction never reads the outer fan
\* of the result.
Apply(moods) ==
  \E direction \in {"Heating", "Cooling", "Idle"}, innerFan \in BOOLEAN :
  \E outerFan \in (IF direction = "Idle" THEN BOOLEAN ELSE {TRUE}) :
    Leave(ApplyResult(Before, direction, outerFan, innerFan, moods))

OutputsNext ==
  \E moods \in FailureMoods :
    \/ BeginFan(moods)
    \/ BeginSharedEnableBridge(moods)
    \/ Apply(moods)

OutputsSpec == OutputsInit /\ [][OutputsNext]_outputsVars

-----------------------------------------------------------------------------
(* Properties *)

\* The outputs and the bridge have their declared shape, and only a bridge
\* that is ready counts a leg as driven.
OutputsTypeOK ==
  /\ pin \in [Pins -> [state: {"NotStarted", "Unconfirmed", "Ready", "Faulted"},
                       on: BOOLEAN]]
  /\ bridge \in [state: {"NotStarted", "Ready", "Faulted"},
                 forward: BOOLEAN, reverse: BOOLEAN]
  /\ bridge.state # "Ready" => ~bridge.forward /\ ~bridge.reverse
  /\ trace \in Seq([Pins -> BOOLEAN])

Powered(levels, leg) == levels["enable"] /\ levels[leg]

\* At no instant, between any two writes and whatever writes fail, are both
\* legs of the H-bridge driven with the shared enable on.
NeverBothLegsPowered ==
  \A i \in DOMAIN trace :
    ~(Powered(trace[i], "forward") /\ Powered(trace[i], "reverse"))

\* When a call has ended, the Peltier element is powered only with the outer
\* fan on, except for an output the hardware refused to switch off.  Nothing
\* is said of the instants within a call: when the fan's write is refused while
\* a leg is on, the leg is only switched off by the writes that follow.
PowerOnlyWithOuterFan ==
  (\E leg \in Legs : Powered(Levels(pin), leg)) =>
    \/ pin["outerFan"].on
    \/ \E q \in BridgePins : pin[q].state = "Faulted" /\ pin[q].on

=============================================================================
