----------------------- MODULE MCProcessStateMachine -----------------------
(***************************************************************************)
(* ProcessStateMachine for TLC: six kinds of run, and a view that leaves   *)
(* out the transition sequence where it does not count.                    *)
(***************************************************************************)
EXTENDS ProcessStateMachine

CONSTANT Modelled   \* names of the run snapshots below to explore

Run(kind, preheat, mode, fermentation) ==
  [kind |-> kind, preheat |-> preheat, mode |-> mode, reach |-> 1,
   wait |-> IF preheat THEN 1 ELSE None, fermentation |-> fermentation,
   hold |-> IF mode = "CoolAndHoldForDuration" THEN 1 ELSE None]

AllRuns ==
  [preheated |-> Run("Timed", TRUE, "CoolAndHoldForDuration", 1),
   plain     |-> Run("Timed", FALSE, "FinishWithoutCooling", 1),
   longer    |-> Run("Timed", FALSE, "FinishWithoutCooling", 2),
   cooled    |-> Run("Timed", FALSE, "CoolThenFinish", 1),
   kept      |-> Run("Timed", FALSE, "CoolAndHoldUntilManualStop", 1),
   manual    |-> Run("ManualHolding", TRUE, "FinishWithoutCooling", None)]

MCSnapshots == {AllRuns[name] : name \in Modelled}

\* A decision of an earlier transition sequence cannot be applied again; only
\* its place among the waiting ones counts.  The sequence itself counts near
\* its end only.
Ahead(n) == IF SequenceMax - n <= 3 THEN n ELSE 0

View ==
  LET dead == {p \in pending : p.decision.before.sequence # runtime.sequence}
      live == pending \ dead
  IN  <<now, [runtime EXCEPT !.sequence = Ahead(@)],
        snapshot, prior,
        IF anchor = None THEN None ELSE [anchor EXCEPT !.sequence = 0],
        loaded, Cardinality(dead),
        {<<[p.decision.before EXCEPT !.sequence = 0],
           [p.decision.after EXCEPT !.sequence = 0],
           p.decision.reason, p.decision.time, p.decision.messages,
           p.snapshot>> : p \in live}>>

\* What the documentation promises of a critical fault: it never fails on the
\* context of the run, so a fault that is decided can also be made durable.
\* persistTransition() leaves the tag of the time of earlier boots as it is,
\* and the checkpoint refuses a tag of another phase than the one entered.
FaultStored ==
  CanFault /\ snapshot # None =>
    Committable(FaultDecision(runtime, snapshot, now), runtime, snapshot,
                prior, anchor)

=============================================================================
