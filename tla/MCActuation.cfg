CONSTANTS
 Heating = Heating
 Cooling = Cooling
 Idle = Idle
 None = None
 MaxRevision = 60
 Contexts <- MCContexts
 ProcessStates = {"Standby", "RecoveryEvaluation", "ReachingTarget"}
 ParameterSets <- BothSets
 TimestampMax = 1000
 TickGaps = {1}
 Quotes = {1, 4}
 CreationAges = {0, 3}
 EvaluationClasses = {"NormalDemand", "NeutralOff", "AirLimitBlockedOff"}
 Gates = {"Allowed", "ImmediateStop"}
 ControlledPhases = {TRUE}
 UnconfirmedOutputs = {{}, {"reverse"}}
 MaxFailing = 2
SPECIFICATION ActuationSpec
SYMMETRY Symmetry
VIEW ActuationView
INVARIANTS OutputOwnedByWindow OutputHasLiveRequest FansCoverPostRun NeverBothLegsPowered PowerOnlyWithOuterFan
PROPERTIES SwitchOnSafe MinimumOnKept ReversalConfirmed OutputServesCurrentContext
