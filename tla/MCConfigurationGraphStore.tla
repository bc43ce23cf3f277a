--------------------- MODULE MCConfigurationGraphStore ---------------------
(***************************************************************************)
(* Instances of the configuration store for TLC, and the properties that   *)
(* compare what a restart would load before and after a step.              *)
(***************************************************************************)
EXTENDS ConfigurationGraphStore

\* Two of the three documents: one commit may write one or both of them.
MCDocumentOrder == <<"user", "program">>

VARIABLES
  restart,  \* the graph that a restart would load
  kept,     \* the configuration of that graph while no record was lost
  spare     \* no record without a spare was lost

mcVars == <<vars, restart, kept, spare>>

Loaded(graphOrNone) ==
  IF graphOrNone = None THEN None ELSE Configuration(graphOrNone.active)

\* The lost record is a root, or there is no second branch without it.
LossWithoutSpare ==
  /\ losses' # losses
  /\ \/ store'["root"] # store["root"]
     \/ restart = None
     \/ restart.fallback = None
     \/ \E d \in Documents :
          /\ restart.active.payload[d] = restart.fallback.payload[d]
          /\ store'[d] # store[d]

MCInit ==
  /\ Init
  /\ restart = LoadCanonicalGraph(store)
  /\ kept = Loaded(restart)
  /\ spare = TRUE

MCNext ==
  /\ Next
  /\ restart' = LoadCanonicalGraph(store')
  /\ kept' = IF losses' = 0 THEN Loaded(restart') ELSE kept
  /\ spare' = (spare /\ ~LossWithoutSpare)

MCSpec == MCInit /\ [][MCNext]_mcVars

-----------------------------------------------------------------------------
Intact == losses = 0

ProposedConfiguration ==
  IF context = None THEN None ELSE Configuration(context.new.active)

Register == INSTANCE ConfigurationRegister WITH
  Configurations <- [Documents -> Contents],
  value <- kept,
  runtime <- IF Intact /\ mode = "Operational"
             THEN Configuration(graph.active) ELSE None,
  proposed <- IF Intact THEN ProposedConfiguration ELSE None

\* As long as the flash loses no record (from then on the register stands
\* still), the slots, the order of the writes and the resolution make one atomic
\* register: a restart at any time loads the old or the new configuration
\* whole, a change that is called failed never takes effect afterwards, and
\* nothing is given out that a restart would not load.
RegisterSpec == Register!Spec

\* Once a configuration can be loaded, one can be loaded forever: no commit,
\* torn write or power loss ends that, nor the loss of one record that the
\* active and the fallback branch do not share, whatever follows it.  Said of
\* one lost record only: a second one, lost while a commit replaces the branch
\* that the first one had broken, can take the only branch left.
StaysLoadable ==
  [][restart # None /\ spare' /\ losses' <= 1 => restart' # None]_mcVars

-----------------------------------------------------------------------------
\* What the register held does not matter any more once it stands still, and
\* restart is a function of the store.
View == <<vars, spare, IF Intact THEN kept ELSE None>>
=============================================================================
