------------------------- MODULE MCSensorSelection -------------------------
(***************************************************************************)
(* Checks SensorSelection for every program, with sensors that come and    *)
(* go, a user, one trouble (a failed write or a power loss) and a few      *)
(* revisions.                                                              *)
(***************************************************************************)
EXTENDS SensorSelection

\* The runtime can be decided on: validRuntimeCombination() accepts it and a
\* revision is left.  A runtime it rejects is a defect of the code, not of the
\* model: RecheckProduct in AirFallbackActive keeps productReArmPending, after
\* which every decision is refused and a loss no longer blocks.
Decidable == ValidRuntime(rt) /\ revision < RevisionMax

Unsensed == ~FixedUsable \/ (mode = "Product" /\ ~valid["product"])

\* Provided a control cycle runs (AssumedCycle): a sensor the run relies on
\* stays away, and the Peltier permission is taken back, whatever phase the
\* automaton is in and whatever decision, command or write fails on the way
\* (evaluatePhase(), persistSensorSelection()).  Exempt is a runtime that
\* cannot be decided on: there the code does not block.
LossBlocks ==
  (life = "Running" /\ rt.perm = "Allowed" /\ Unsensed)
    ~> (rt.perm = "Blocked" \/ ~Unsensed \/ life # "Running" \/ ~Decidable)

\* Provided a control cycle runs (AssumedCycle): a product sensor that stays
\* away for the delay of the program brings the run onto air (or into
\* SafeLocked); it does not wait for ever
\* (evaluateProductFailureDetected()).
FallbackHappens ==
  rt.phase = "ProductFailureDetected"
    ~> (rt.phase # "ProductFailureDetected" \/ valid["product"] \/ life # "Running"
        \/ revision = RevisionMax)

\* What the last checkpoint holds can be resumed once every sensor is usable:
\* no sequence of fallbacks and returns stores a mode its own provenance or
\* program contradicts (computeRestartSensorSelection()).
RestartResumable == flash # None => RestartAllowed(flash, [r \in Roles |-> TRUE])

=============================================================================
