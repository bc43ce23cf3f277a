----------------------- MODULE ConfigurationRegister -----------------------
(***************************************************************************)
(* What the configuration store promises: one durable configuration, which *)
(* a confirmed change replaces in a single step or not at all, whatever    *)
(* fails and whenever the power goes.  A configuration is given out only   *)
(* while it is the durable one and no change is under way.                 *)
(***************************************************************************)
CONSTANTS
  None,           \* no configuration
  Configurations  \* complete configurations: one content per document

VARIABLES
  value,    \* the configuration a restart would load
  runtime,  \* the configuration given out to the application, or None
  proposed  \* the confirmed change that is being committed, or None

vars == <<value, runtime, proposed>>

Init ==
  /\ value \in Configurations
  /\ runtime = None
  /\ proposed = None

Boot ==
  /\ runtime = None /\ proposed = None
  /\ runtime' = value
  /\ UNCHANGED <<value, proposed>>

\* No configuration is given out while a change is committed.
Propose ==
  /\ runtime # None
  /\ proposed' \in Configurations \ {value}
  /\ runtime' = None
  /\ UNCHANGED value

TakeEffect ==
  /\ proposed # None
  /\ value' = proposed
  /\ UNCHANGED <<runtime, proposed>>

Publish ==
  /\ proposed # None /\ value = proposed
  /\ runtime' = value
  /\ proposed' = None
  /\ UNCHANGED value

\* A change may only be called failed while it has not taken effect.
Abandon ==
  /\ proposed # None /\ value # proposed
  /\ runtime' = value
  /\ proposed' = None
  /\ UNCHANGED value

FailClosed ==
  /\ runtime' = None
  /\ UNCHANGED <<value, proposed>>

\* The write that was under way may have become durable.
PowerLoss ==
  /\ value' \in {value} \cup (IF proposed = None THEN {} ELSE {proposed})
  /\ runtime' = None
  /\ proposed' = None

Next ==
  Boot \/ Propose \/ TakeEffect \/ Publish \/ Abandon \/ FailClosed \/ PowerLoss

Spec == Init /\ [][Next]_vars
=============================================================================
