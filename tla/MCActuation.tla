----------------------------- MODULE MCActuation -----------------------------
(***************************************************************************)
(* The two halves of actuation in one run of TLC: the planner below its    *)
(* orchestrator (MCControlLoop), and the bridge and fan outputs below the  *)
(* plan sink driver (ActuatorOutputs).  What passes between them is one    *)
(* call of ActuatorPlanSinkDriver::apply() per tick, and ActuatorOutputs   *)
(* takes every result that call may be given: a behaviour moves one half,  *)
(* the other one stays at its start.                                       *)
(***************************************************************************)
EXTENDS MCControlLoop, ActuatorOutputs

VARIABLE half   \* the half of actuation this behaviour is about

actuationVars == <<mcVars, outputsVars, half>>

ActuationInit ==
  /\ MCInit
  /\ OutputsInit
  /\ half \in {"planning", "outputs"}
  /\ half = "planning" => unconfirmed = {}

Planning ==
  /\ half = "planning"
  /\ LoopNext /\ ObsNext
  /\ UNCHANGED <<outputsVars, half>>

Driving ==
  /\ half = "outputs"
  /\ OutputsNext
  /\ UNCHANGED <<mcVars, half>>

ActuationSpec ==
  ActuationInit /\ [][Planning \/ Driving]_actuationVars

ActuationView == <<LoopView, outputsVars, half>>
=============================================================================
