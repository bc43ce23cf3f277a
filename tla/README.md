# Formal model of the fermentation cabinet controller

TLA+ modules for the firmware of the ESP32 fermentation cabinet, checked with
TLC and, for the safety of every component modelled, proved with TLAPS for every
value of the constants. `PROJECT.json` lists the components, the runs, the lines of source
every definition stands for, the hazards and the theorems.

## The system

The firmware heats and cools a cabinet with one Peltier element behind an
H-bridge, an outer fan that must cool the element's hot side, and an inner fan.
A run goes through phases (preheat, wait for product, reach target, qualify,
ferment, cool, hold); every change of a run is written to flash before it takes
effect, so that a run survives a power loss. It is operated at a touch panel and
in a browser, which reach the same application from two tasks.

| Component | State | Operations | Talks to |
|---|---|---|---|
| Actuator planner (`actuator_planner.cpp`) | accepted command, switching window, pulse accumulator, physical direction with its on/off anchors, counter direction under observation, request watchdog, feedback episode, fan deadlines | `tick`, `forceStop`, `beginRun`, `endRun`, `takeFeedbackUpdate`, `closeFeedbackEpisodeForOutstandingEvaluation`, `applyExternalWatchdogFaultReset` | called by the orchestrator; its result goes to the sink driver |
| Temperature control orchestrator (`temperature_control_orchestrator.cpp`) | outstanding evaluation, feedback to return | `evaluateTemperatureControl`, `tickActuatorPlan`, `persist*`, `activateRecovery`, `complete` | controller, planner, persistence |
| Temperature controller (`temperature_control.cpp`) | integrator, open feedback window, request sequence | `evaluate` | orchestrator |
| Actuator outputs (`actuator_plan_sink_driver.cpp`, `shared_enable_bridge_sink.cpp`, `esp_idf_binary_output_sink.cpp`) | level and status of five pins, bridge latch | `begin`, `setEnabled`, `setForward`/`setReverse`, `apply` | GPIO driver, which may refuse a write |
| Process state machine (`process_state_machine.cpp`) | phase, entry times, qualification mark, warning flag, transition sequence | `decideProcessTransition`, `applyProcessTransition` | run commands, persistence coordinator, qualification |
| Run commands (`run_commands.cpp`) | run, revisions, processed ids | `decide*`, `applyRunCommand` | application, persistence |
| Run persistence (`run_persistence_coordinator.cpp`, `_contract`, `_store`) | head, two record slots, fallback, known command ids, storage epoch | `persistTransition`, `persistCommand`, `persistSensorSelection`, `checkpointPeriodic`, load and recovery at boot, epoch handoff | state store |
| Sensor chain (`ds18b20_sampling_engine.cpp`, `sensor_quality_pipeline.cpp`, `target_qualification.cpp`) | cycle phase, readings, quality, credited time | `step`, `ingest`, `snapshot`, `evaluate` | 1-Wire buses; controller, qualification |
| Sensor selection (`sensor_selection.cpp`) | phase, permission, mode, provenance | automatic decision, user actions, revalidation at restart | run commands, persistence |
| Configuration store and services (`configuration_graph_store.cpp`, `configuration_service.cpp`) | document slots, manifests, root; active model, preview, leases, reservations | load, preview, confirm, cancel, resolve, reset | state store; both surfaces |
| Bootstrap, factory reset, access domain (`configuration_bootstrap*.cpp`, `configuration_recovery_service.cpp`, `authentication_records.cpp`) | bootstrap record in two slots, initial graph, provisioning root, credentials, lockout | boot, initialise, reset, hand over, provision, verify | state store; application |
| Web (`web_session.cpp`, `web_application_routes.cpp`, `AuthOperationGate`) | sessions, replay memory, trust generation | login, logout, provision, mutate | application |
| Local UI (`fermentation_touch_workspace.cpp`, press dispatcher, memory gate, `factory_reset_flow.cpp`) | page stack, editors, reset flow, service lease | press, hold, back, dispatch | application |
| Network and time (`esp_idf_network_lifecycle.cpp`, SNTP, RTC) | connection state | start, stop, retry | application |

Not all of this is composed yet. At this commit nothing in the product calls the
direction commands of the bridge (`app_main.cpp:612-620`), the sampled sensor
sources are provided for a later control composition and reach neither control nor
actuators (`app_main.cpp:778-783`), and neither the loop of `app_main()` (815-863)
nor `FermentationApplication::update()` (2493-2504) runs the orchestrator, the
qualification or the sensor selection. Planner, orchestrator, output stage, sensor
pipelines, target qualification and selection are modelled as their own code and its
callers in the library and its tests define them, each for every order of calls its
interface allows; what has to call them, and how often, is an assumption where a
property needs it (see Fairness). The stores, the process commands, boot, reset, web
and touch surface are composed.

What is hard in it: physical minimum times that must hold whatever is requested;
one evaluation handed to a tick that may come after other ticks and after a
committed phase change; a pin write that fails half-way through a polarity
change; decisions that are made, made durable and then applied, with other
decisions and restarts in between; boot-local clocks in persistent data; power
loss between the writes of one logical change, in three stores that have to
agree without a transaction; a configuration that is read and replaced by
different tasks in memory for two copies; repeated requests; key derivations
that run outside the lock while the device is reset; a touch surface that acts
on a snapshot. The `hazards` of `PROJECT.json` place each at its line.

What makes each part correct:

- planner and orchestrator: no switch-on within minimum off time or dead time,
  no switch-off by demand within minimum on time, reversal only after an unbroken
  confirmation, output only for a live request of the current context, fans
  through the post-run;
- outputs: never both legs, between no two writes; no power without the outer fan
  once a call has ended, but for a pin the hardware refused to switch off;
- process: what is decided can be applied, what the user commands can be stored,
  a fault can always be decided on and applied (that it can be stored is refuted,
  see Findings), a fermentation is not ended early;
- run store: a run is never forgotten, an ended run never comes back, the
  fermentation time is exact over outages, a reset's handoff is resumed;
- configuration: after a power loss the old or the new configuration, never a
  mixture; no loss of one spare record makes the device unloadable; never a third
  model in memory, no place lost, no change on top of another user's;
- boot and access: no interruption strands the device, no secret of an earlier
  epoch works again, a reset always makes room, guesses are bounded;
- sensors: no old reading looks fresh, `Valid` is earned by good samples, qualified
  time by evaluations in the band, with at most one gap of credit for each break that
  a failed write hid; under a running control cycle a lost sensor takes the
  permission back and the fallback happens;
- surfaces: a mutation happens once and its answer is true, a session belongs to
  this side of the last boundary, a reset returns; the reset is deliberate and
  the program of the running run stays.

## Modules

`MC*` modules instantiate the others for TLC and hold the observers that
properties compare with the code's own bookkeeping.

### ActuatorPlanner

`plan` is the part of `ActuatorPlannerRuntimeState` that `clearPlanningState()`
clears, `phys` the physical direction with its anchors and the outer fan, `inner`
the inner fan, `wd` sequence high-watermark, heartbeat and latched fault, `fb` the
feedback episode, `result` the last `ActuatorPlanTickResult`, `params` the
parameters of the run, `now` the time of the last call. Actions: `Tick` (`tick()`
with `runPhaseA()` and `runPhaseB()`), `LifecycleBoundary` (`forceStop()`, the
discarded `takeFeedbackUpdate()`, `endRun()` and `beginRun()`, which the
orchestrator only uses together), `CloseFeedbackEpisode`, `TakeFeedbackUpdate`,
`ApplyExternalWatchdogFaultReset`. Time quotes are multiples of 1/`QuoteScale`;
amounts in the accumulator are scaled by it, so the rounding of `roundHalfUp()`
happens as in the code. Structurally malformed evaluations are one class of input
(`MalformedInput`). Deadlines saturate at `TimestampMax`.

### ControlLoop

Extends the planner by the orchestrator's `outstanding` evaluation and
`pendingFeedback`, the committed `process` state with a revision that stands for
transition sequence, run revision and sensor role, the parameter `snapshot` of
the run, and the controller's request number and feedback window. Its actions
are the orchestrator's calls. The controller's arithmetic is a choice among off,
limited and normal demand of either direction; its refusal of foreign feedback
and its fail-closed exits are kept. The observer of `MCControlLoop` records when a
live request was last accepted, since when and in which direction the demand has
been unbroken, and until when each fan has to run.

### ActuatorOutputs

Each call is a sequence of pin writes; `trace` holds every combination of levels
the pins take within the call. A pin's "mood" says whether its writes are
accepted, refused once or refused from now on; `unconfirmed` names the outputs
without a confirmed polarity, which never become ready.

`MCActuation` puts this module and MCControlLoop into one run: a behaviour moves
one of the two halves, and the outputs take every plan result a tick may hand down.

### ProcessStateMachine

`Decide` is `decideProcessTransition()`, `Applicable` is
`applyProcessTransition()`, `Persistable` is the checkpoint's validation. A
decision and its commit are separate steps, with up to `MaxPending` decisions
waiting; a waiting decision can be committed twice. `prior` and `anchor` are
`priorBootPhaseElapsed` and `pendingRecoveryAnchor`. `Restart` keeps what is
durable and restarts the clock at 0; the recovery actions follow
`activateLoadedRun()`, `reevaluateRecoveryEvaluation()` and
`resolveRecoveryOutcome()`. What the clocks can say about an outage is any pair
of bounds from `Outages`; the sensors' verdict is a choice. In this module a
committed state is the durable state and a write that fails changes nothing
(`Drop`); the writes themselves are in RunStore.

Boot and service-mode events, and the automatic decisions of Fermenting, Cooling
and CoolHolding, exist in the API and its tests but have no production caller at
this commit; they are part of the model.

### RunStore

`flash` holds the head `rh0` and the record slots `rc0`, `rc1`; `co` is the
coordinator's RAM, `op` the transaction of `writeSnapshotCore()` that is under way
and `WriteStep` one of its writes (prepared head, record, committed head), `app`
what `FermentationApplication` keeps at boot (lifecycle, the offered fallback,
the prepared commands and the identity window), `boot` the epoch and the run
handoff of the bootstrap record. Actions: `Prepare` and `Confirm` of a run command
from a surface, `PersistTransition`, `CheckpointPeriodic`, `Update`,
`ResumeFallback`, `BootLoad` and `ProcessBoot` (load, classify, recover), the
steps of the factory reset's handoff, and the environment: time, trusted UTC,
power loss, a record damaged at rest. A write may be confirmed, not happen, or
end unknown with the old bytes, the new bytes or bytes that do not decode. A read
that fails at boot blocks the load, or, when it is the current slot's, falls through
to the fallback the head names (`LoadsReadFailing`).
Phases are reduced to the ones that differ for the store; programs and recovery
episodes are in ProcessStateMachine.

`budget` bounds presses, time, epochs and troubles; its `lost` counts the records
damaged at rest, which is no bound but a condition: `RunNeverForgotten` and
`EndedRunStaysEnded` are claimed for at most one. With two, head and slots can all
be gone, the store looks empty and run identities begin anew.

### ConfigurationRegister, ConfigurationGraphStore

`ConfigurationRegister` is the promise: one durable configuration, a change that
replaces it in one step or not at all, a failure that is only reported while the
change has not taken effect. `ConfigurationGraphStore` is the code: `store` holds
the record slots (two roots, three manifests, four per document), `mode`, `graph`,
`context` and `cause` are `mode_`, `currentGraph_`, `resolutionContext_` (from the
prepared commit on) and `runtimeFailureCause_` of `ConfigurationService`.
`LoadCanonicalGraph`, `ValidationScan`, `PlanSlots`, `PrepareCommit` and
`ResolveCommitDetailed` are the functions of the same names. A commit is one step
per write (`WriteRecord`, `WriteRoot`) and per verification (`VerifyTarget`,
`VerifyRoot`, `ResolveRoot`), so that failures and power losses fall between all
of them. A write that fails or whose end is unknown leaves the old record, the
new one, none, or bytes that do not decode; every read may fail. `Lose` takes a
record away at any time, a root only between commits. A reference holds the
payload itself where the code holds its length and CRC-32: two payloads with
equal CRC and length are not distinguished by the code, and are not modelled.
The mutation lease makes commit, resolution and recovery exclude each other, so
they do not interleave here. `RuntimePreparationAfterResolutionFailure`, which
needs a prepared runtime that no longer matches its commit, and the branch of
`recoverRuntimeFailure()` for `PersistentGraphVerificationFailure`, whose modes
exclude each other, are not actions.

`MCConfigurationGraphStore` states the refinement with the graph a restart would
load. It holds until a record is lost (from then on the register stands still).
`StaysLoadable` goes on after one loss, except for a record without a spare: when
a document record that both branches share is lost while the older root still
loads, the next commit may overwrite that root's branch.

### ConfigurationService

The service between the critical sections of `stateMutex_`: `slot` is the model
budget (visible and captured preview, reservations, the retired model),
`reading` the read leases, `held` the mutation lease, `pc` and `job` a caller of
`commitConfigurationChange()` on its way from the revisions it saw to the commit,
`admin` a reset or the resolution of an unknown commit. A commit only has an
outcome here; the writes are in ConfigurationGraphStore.

### Bootstrap

`slots` holds the bootstrap record (state, epoch, run and access handoff) in its
two slots with the successor rules of the store, `graph` the records of the
initial graph of an epoch, `root` and `creds` the two authentication records,
`job` the operation under way, one step per write, `ctx` the authentication
context in RAM and `clock` the lockouts. Both the classification at boot and the
building of an epoch follow `ConfigurationRecoveryService`; verification of a
secret with its failure counter and stage follows `AuthenticationDomain`. `Init`
covers an empty device and the records older firmware leaves.

### SensorChain

The sampling engine in its task, one quality pipeline per channel and the target
evaluator under `evaluateAndApplyTargetQualification()`, with the ages of timestamps
instead of a clock. An evaluation only proposes a candidate; `Outcomes` says what
becomes of it: it is applied, in RAM or after the transition it led to was stored;
the process left the qualification with it and the evaluator starts anew; or it is
discarded, because its transition could not be stored or it met a newer context, and
the state before it stays in force. The buses may be dead,
refuse the resolution, the start or a read; probes are exchanged at any time, the
task runs late. Filters are reduced to the set of ROMs whose samples they hold.
Limits of the configuration are parameters. `ReadingAgeMax` follows from them: the
cycle, or the conversion and the delay where those are longer, then the conversion
of the next cycle and the delay of both. The observer of `MCSensorChain` keeps, per
channel, the `streak` of plausible samples of one probe the pipeline accepted, and
for the target the `band`: the time between two evaluations that both saw it in
the band, discarded ones included, and in how many spells evaluations were discarded.

### SensorSelection

`rt`, `mode`, `origin` and `revision` are the runtime state, the sensor mode, its
provenance and `runRevision`; `pending` is a decision that is not yet written,
`flash` what the last checkpoint holds. The operators `Evaluate…` are the phases
of `evaluatePhase()`; `UserAct` are the user's actions, `Start` the matrix of
`run_commands`, `Recover` the revalidation at a restart.

### WebSurface

Two tasks: `httpd` works on one request at a time, `ui` on what is pressed. Both
enter the application under one lock (`l1`); a key derivation runs outside it
under a token of the gate. A call that keeps the lock is one step. `sess` are the
session slots with their replay memory; every request may be repeated by a
browser with any cookie it was given. Deadlines may pass at any time.

### TouchWorkspace

`ws` is the workspace (page stack, editors, the pending operation of the program
editor), `flow` and `gate` the factory reset flow and the gate of its hold
contact, `app` what the surface sees and changes, `snap` the snapshot the running
UI step works with and `stale` what changed since. `Touch(a)` is one press through
dispatcher and workspace; `SkipStep` is a step skipped for lack of memory. The
observer `watched` counts what a person at the panel would: the acknowledgements
since this flow began, and the steps in which the hold target was seen touched
without a break. Names the module shares with Bootstrap carry the prefix `Panel`,
so that one proof module can extend both.

### How the modules fit

The stores are split where the code has an interface whose outcomes are closed:
ControlLoop extends the planner itself, so planner and orchestrator are checked
together. ProcessStateMachine and RunStore share the checkpoint: the first says
which checkpoint is accepted, the second what becomes of its writes. Bootstrap
ends a reset with a pending run handoff, where RunStore's handoff begins;
ConfigurationService's commit outcomes are those ConfigurationGraphStore shows
possible; SensorChain's quality is SensorSelection's `valid`; WebSurface's
`ResetCore` and TouchWorkspace's `core` are Bootstrap's reset.

## Runs

| Run | Distinct states | Shows |
|---|---|---|
| `actuation` | 243,538 | planner and orchestrator: switching times, ownership, confirmed reversals, watchdog and post-run over consecutive runs; outputs: every call with refused pin writes, both legs at every level the pins pass through, power and fan at the end of a call |
| `process` | 45,688 | decisions, commands, faults and recoveries of six kinds of run, with waiting decisions and restarts |
| `fault_stored` | violation | a critical fault that the checkpoint refuses |
| `run_store` | 1,088,407 | the checkpoint transaction write by write, recovery at boot, and the handoff to a new epoch |
| `config` | 167,778 | commits write by write implement one atomic register; a configuration stays loadable after one loss |
| `config_service` | 235,302 | two models at most, no place lost, no stale change, over every interleaving of the sections |
| `boot` | 304,859 | boot, reset, handoffs, provisioning and lockouts, with power losses between any two writes |
| `sensors` | 1,247,703 | what the quality states and the credited time say, under bus faults, exchanged probes and evaluations that are discarded |
| `selection` | 86,272 | a checkpoint can be resumed; if a control cycle runs, a lost sensor blocks, and the fallback happens |
| `web` | 615,997 | mutations once, true answers, trusted sessions; a reset returns |
| `ui` | 679,254 | a reset is deliberate and the running program is kept, over every sequence of presses |
| `ui_delete` | violation | a deletion that was cancelled is carried out |

### Bounds

Planner and orchestrator: window 2, minimum times, dead time, confirmation and
post-run between 0 and 3 ticks in two parameter sets, so that each can end before,
with and after the window and a second run has shorter or longer ones. Absolute time
and request numbers only matter relative to one another; `LoopView` therefore
replaces times by their distance from `now`, cut off where every comparison has
settled, and request numbers by their order, which makes the state space finite
without a bound on time. Heating and cooling are exchangeable (SYMMETRY). Ticks
one unit apart suffice here because the windows are two units long; other
distances, replayed and late requests are covered by the proofs.

Outputs: up to two failing outputs per call, all outputs confirmed or one leg not.

Process: durations of 1 or 2 units and clocks up to 2 let every limit be reached
before and after a restart; `View` drops the absolute transition sequence except
near `SequenceMax`, and keeps of waiting decisions with an older sequence only how
many there are, since no step can apply them.

Run store: two troubles (a failed or unknown write, a power loss, a damaged
record) in any combination, two commands, a fermentation of two seconds with a
checkpoint each, two epochs: enough for an interrupted transaction followed by an
interrupted recovery or handoff.

Configuration store: two of the three documents with two contents, `VersionMax` 3
and one lost record; two commits succeed and others abort, so that roots rotate
and the counters reach their end. Damaged root slots are excluded from
`CommitNeverBlocked`: after a torn root write every further commit fails closed
until a factory reset, as `validationScan()` demands. `StaysLoadable` is claimed
for one lost record only; a second one, lost in the middle of a commit, can take
the last branch. Configuration service: two
callers, two read leases, three generations, one trouble; callers and readers are
exchangeable (SYMMETRY).

Boot: three epochs, two troubles, one document besides the root, two wrong web
passwords or one PIN before a lockout of one or two units. Sensors: two probes,
the product channel, three troubles, limits of one to four ticks. Selection: every
program, two profile revisions, five run revisions, one trouble. Web: one session
slot that remembers one mutation, two cookies and sequence numbers, one boundary.
UI: one factory and one user program, fourteen pages, stack depth 6, one catalog
change and one change by others.

### Fairness

Safety runs assume none. Where something must happen:

- `run_store` (`HandoffResumed`): weak fairness of the steps of the main task. A
  write that was begun ends, a device without power gets it back, and
  `main.cpp`'s loop calls `update()` in every pass.
- `selection` (`LossBlocks`, `FallbackHappens`): `AssumedCycle`, weak fairness of a
  control cycle (decide, persist) and of time; nothing is owed by the user or a
  sensor. This is an assumption about the composition to come: no loop of this commit
  calls the automatic decision or `persistSensorSelection()`. The two properties say
  that selection and persistence do their part once such a cycle exists, not that
  the product of today does.
- `web` (`ResetReturns`): weak fairness of both tasks' own next steps, once begun;
  nobody owes a request, a press or a deadline.

Deadlock is checked where the system may not stop (`actuation`,
`process`, `config`, `boot`). The other instances stop at their bounds on presses,
revisions or troubles and say `CHECK_DEADLOCK FALSE`.

### Findings

`fault_stored`: a critical fault is decided on and then refused by the checkpoint.
`persistTransition()` moves the candidate to Fault and keeps the recovery fields of
the phase it leaves (`run_persistence_coordinator.cpp:2930` clears them for
ProductWaitExpired only). The validation of the checkpoint refuses an open
`pendingRecoveryAnchor` in Fault (`run_persistence_contract.cpp:137-145`) and a
`priorBootPhaseElapsed` whose tag is another phase (185-195), so the result is
`InvalidDecision` and the fault is neither stored nor applied
(`qualification_orchestrator.cpp:73-80`). The counterexample takes the first way: a
restart leads to RecoveryEvaluation, and the fault comes there. The tag of the second
is set by a resumption (`run_persistence_coordinator.cpp:1319`) and by a changed
duration in Fermenting (`run_commands.cpp:1358-1361`); there the regular end of the
phase cannot be stored either. `docs/STATE_MACHINE.md:68-70` and
`process_state_machine.cpp:284-285` say that a safety shutdown never fails on missing
or damaged run context. `FaultNeverBlocked` holds: deciding and applying do not ask
for the run, only the checkpoint in between does.

`ui_delete`: Save deletes the program whose deletion was cancelled. Delete and
Uninstall in the editor set `programEditOperation_` and open the confirmation
page; `goBack()` does not restore it, and Save sends what it holds with
`confirmed = true`. `docs/LOCAL_UI_PROGRAMS.md:197` demands two confirmations.

### Observations

Found while modelling; the models follow the code, and properties name the
exception where one is needed. They have no run of their own.

Run and process:

- A second restart during RecoveryEvaluation answers `InvalidDecision` until the
  new clock has passed the entry time stored by the boot before, because the
  refresh branch (`run_persistence_coordinator.cpp:1124`) keeps that time; the
  Completed branch above it rebases it for this reason.
- A transition into Fault is stored with the run before it as fallback
  (`persistTransition()`), so a damaged fault record, or a mere read error of
  it at boot, offers the run again, which `docs/STATE_MACHINE.md:186` and
  `docs/RECOVERY_AND_INTERRUPTION.md:181` do not
  foresee.
- A power loss during a run command leaves a Prepared head and SafeBoot. The
  factory reset that is offered there advances the epoch, after which
  `prepareAuthorizedEpochHandoff()` rejects the old store at this and every later
  boot: the handoff stays Pending. `HandoffResumed` therefore speaks of a reset
  that finds the store of the epoch before whole
  (`docs/CONFIGURATION_PERSISTENCE.md:1049`, `docs/ACCEPTANCE_TESTS.md:458`).
- A resumed Preheating keeps its timers un-rebased; `checkpointPeriodic()` and the
  consumer of `ResumeOffer` have no production caller.

Configuration:

- Revisions are counted from what can be read. After a record of the active branch
  was lost and the fallback booted, a change back to the lost content writes the
  same slot, revision and bytes, and this one write makes the former active branch
  usable again; a power loss before the root write then loads a configuration that
  is neither the old nor the proposed one (`configuration_graph_store.cpp:100`;
  `docs/CONFIGURATION_PERSISTENCE.md:898` promises one of the two).
- The class contract of `ConfigurationService`
  (`docs/CONFIGURATION_PERSISTENCE.md:762-820`) allows callers without the
  application's serializer. With `Serialised = FALSE` TLC finds two ways to lose a
  place: a build given up while another caller's no-change preview is visible keeps
  `previewModelReserved_` for good; and the second section of `cancelPreview()`
  frees the place of another caller's preview when a reset began and was called off
  in between, which makes three models possible. The application excludes both.
- Two short windows with a third model exist while a candidate is destroyed
  (`installPreview()` without change, `cancelPreview()`); `ModelBudget` counts a
  candidate until its destruction begins.
- `resolveIndeterminate()` and `recoverRuntimeFailure()` have no production caller:
  an unknown commit keeps the service closed until a restart.

Sensors:

- `RecheckProduct` in AirFallbackActive enters ReturnValidationPending without
  clearing `productReArmPending` (`sensor_selection.cpp:624-634`);
  `validRuntimeCombination()` (110-152) then rejects every later decision, and a loss
  of the sensor no longer blocks. This is a defect of the code, and what `LossBlocks`
  says is false there: the property exempts such a runtime (`Decidable`).
- An evaluation of the target whose transition cannot be stored is discarded and the
  state before it stays in force (`qualification_orchestrator.cpp:137-146`). When that
  evaluation saw the target leave the band, or a channel that was not usable, the next
  one in the band credits the time since the last applied one, the excursion included,
  as long as it is no longer than the maximum gap. `docs/TEMPERATURE_CONTROL.md:297`
  and `docs/RUN_PERSISTENCE.md:265-271` want the old state to stay in force;
  `docs/tasks/issue-22-pi-control-air-limits-plan.md:1062-1064` wants no time credited
  across such a break and expects (1004-1006) the failed write to block further
  qualification, which it does only where it blocks the coordinator. `CreditProven`
  therefore grants one maximum gap for each spell of discarded evaluations.
- A block whose write fails leaves the permission Allowed in RAM until the next
  cycle; at the largest `runRevision` it is refused for good.

Web and network:

- `fermentation_application.cpp:2983` says that `httpd_stop()` may not run under
  the application lock, yet failure paths of `applyNetworkMode()` (990-1009) and
  `beginHomeWifiReconfiguration()` stop the server under it.
- `/api/network/candidate` runs `testCandidate()` on the httpd task without the
  lock and uses `*candidate_` after a connection attempt, while a network change on
  the touch task may reset it.
- A run started and stopped in the browser between two `update()` calls leaves the
  service lease alive, which leaving STANDBY should end.

Local UI:

- Leaving any editor page other than the value and text editors clears
  `programEditDirty_`; unsaved edits are lost without the question that
  `docs/LOCAL_UI.md:41` promises.
- The completion page locks every exit and its OK only sends `Complete`; when that
  is refused the page cannot be left (`docs/LOCAL_RUNTIME_UI.md:268`).

Boot and access:

- A Schema-2 record whose run handoff is Consumed cannot begin a second reset
  (`configuration_bootstrap.cpp:218-267`); `NeverStranded` exempts it.
- Credentials that cannot be read under a Provisioned root are not curable by a
  factory reset (`configuration_recovery_service.cpp:244-250`;
  `docs/BACKUP_SECURITY_RETENTION.md:219`); `ResetCures` exempts it.
- A reset resumed at boot leaves no access until another restart, because
  `initializeAuthentication()` runs before the handoff is completed. A read error
  at an open access handoff makes it Indeterminate for good.
- A correct secret whose counter write ends unknown resets the counter without an
  answer; a failed write after a lockout starts the full lockout again.

## Proofs

Every listed theorem holds for all values of the constants that satisfy the
assumptions named in the modules. The assumptions give the constants their types,
and keep the values that stand for "nothing" (`None`, `Absent`, `Corrupt`) out of
the sets of real values (`NoneAssumption`, `AbsentAssumption`, `StoreNone`,
`SensorSelectionNone`, `SensorChainNothing`, `RunStoreNone`). Two say more: the theorems about ConfigurationService
assume `Serialised`, the application's call serializer, because without it two of
them are false (see the observations); and Bootstrap's `DoublingAssumption` says
that `2^n` is a positive number, which the provers do not know.

| Proofs | Theorems | Checks |
|---|---|---|
| `ControlLoopProofs` | `PlannerTypeOK`, `PlannerOutputOwned`, `PlannerSwitchOnSafe`, `PlannerMinimumOnKept` | planner alone, any caller |
| `ControlLoopProofs` | `LoopOutputOwned`, `LoopSwitchOnSafe`, `LoopMinimumOnKept`, `LoopOutputLive`, `LoopFansCover`, `LoopReversalConfirmed`, `LoopServesContext` | every property of `actuation` about the planner |
| `ControlLoopProofs` | `OutputsTypesKept`, `OutputsNeverBothLegs`, `OutputsPowerWithFan` | every property of `actuation` about the outputs |
| `ConfigurationServiceProofs` | `ServiceTypeCorrect`, `ServiceModelBudget`, `ServiceSlotReturned`, `ServiceStaleEditRefused` | every property of `config_service` |
| `ConfigurationGraphStoreProofs` | `StoreTypeCorrect`, `StoreIdentityUnique`, `StoreCommitNeverBlocked`, `StoreImplementsRegister`, `StoreStaysLoadable` | every property of `config` |
| `ResetProofs` | `BootstrapNeverStranded`, `BootstrapOldSecretsDead`, `BootstrapResetCures`, `BootstrapGuessesBounded` | every property of `boot` |
| `ResetProofs` | `PanelResetDeliberate`, `PanelRunningProgramKept` | every property of `ui` |
| `WebSurfaceProofs` | `SurfaceMutationOnce`, `SurfaceAnswerTrue`, `SurfaceSessionTrusted` | safety of `web` |
| `SensorProofs` | `SelectionRestartResumable` | safety of `selection` |
| `SensorProofs` | `ChainReadingNeverOld`, `ChainValidProven`, `ChainCreditProven` | every property of `sensors` |
| `RunStoreProofs` | `RunStoreTypeOK`, `RunStoreNeverForgotten`, `RunStoreEndedStays`, `RunStoreTimeTrue` | safety of `run_store` |
| `ProcessStateMachineProofs` | `ProcessTypeOK`, `ProcessDecisionsApply`, `ProcessFaultNeverBlocked`, `ProcessCommandsCommit`, `ProcessCompletionNotEarly` | every property of `process` |

Each module first proves `...Invariant`, that an inductive invariant always holds;
the others follow from it, or, for action properties, from it and one step. The
proofs follow the code: one lemma per operator, one per branch or stage, one per
action. TLC checked every inductive invariant on the instance of its run before
(for WebSurface with two session slots, 3,477,733 states).

**Planner.** `IInv` adds to `TypeOK` the predicate `Consistent`: the anchors of the
output lie in the past; a window was opened under valid parameters, began no later
than now, schedules no more than its length, and its pulse is over when it is
started and the output is idle; a driven output has the direction of the window,
the outer fan on, and a start from which the minimum on time ends within the
scheduled on time. Neither ownership nor the switching times are inductive alone:
that a switch-on keeps the dead time needs the off anchor to be in the past, and
that arming against the window's start is as strict as arming against now needs
the window to have begun no later than now.

**Control loop.** `LoopInv` carries `IInv` over, since every step of the loop is a
tick, a boundary or a feedback operation of the planner, and relates what the
observer saw to what the planner remembers: the heartbeat is the tick the observer
saw the request accepted in (`Alive`), the fan deadlines are no earlier than the
post-runs it noted (`FansHeld`), the observation of the other direction is no older
than the demand for it, and a window of the other direction was proved (`Watched`).
`LoopFansCover` says `now < TimestampMax`: deadlines saturate there, as in the code,
so a post-run that would end beyond the last value of the clock is cut short. At
`UINT64_MAX` milliseconds this is no restriction, but the theorem states it.

**Outputs.** `Sound` says between two calls that the bridge counts every leg that is on,
as long as it has not faulted (`Marked`), and that nothing is powered without the fan,
but for a pin the hardware refused to switch off. `OutputsNeverBothLegs` speaks of every
level within a call, `OutputsPowerWithFan` of the levels a call ends with: within one, a
leg that is on is without the fan from the refused write of the fan until the writes
that switch the leg off. Both legs are excluded because a leg is only raised by a bridge
that does not count the other one; the lemmas follow one pin write, one bridge call and
one driver call through every pattern of refused writes.

**Configuration service.** `previewModelReserved_` is one bit for the place of the
second model. `ServiceInv` says stage by stage whose place it is: at most one
caller, or the reset or resolution, is between two sections (`Alone`); the lease
counters count the readers of the active and of the retired generation
(`LeasesCounted`); a kept context is the next generation (`ContextKept`); and what
preview, capture and reservation are at every program counter (`Staged`).

**Configuration store.** `StoreInv` holds, until a record is lost, that the root with
the highest version has both of its branches whole (`Whole`) and is therefore the
one a restart loads; the slots a commit writes are outside these branches and its
versions are above all that can be read, so that nothing it leaves behind, torn or
whole, disturbs them (`ContextPrepared`); the root is written only when the new
branches have been read back. So the graph a restart loads changes with the root
write and nothing else, which makes every step a step of `ConfigurationRegister`
or none (`StoreImplementsRegister`, the initial states and each action of the
refinement), and lets a resolution that finds the new root in its slot be right.
That no version names two records is proved with any number of lost ones.
`StaysLoadable` needs a second invariant (`SpareInv`) for the time after a loss, when
the branches of the highest root are no longer whole. A root never names one branch
twice (`BranchesApart`), and two branches that do not share a record do not share its
slot, so the loss of a record that has a spare leaves one of the two. From then on a
commit begins only on a graph that passed the scan, so its root is in its slot with a
branch that can be loaded (`Backed`); the slots it writes are outside that branch and
the root write takes the other slot, so the old root stays behind as what a restart
falls back to, even where the new root turns out to have lost both of its branches.
The property speaks of one lost record (`losses' <= 1`): with two, TLC finds a commit
that replaces the branch the first loss had broken, while the second loss takes the
other one. The store keeps two branches and no more, so this is what the design gives.

**Bootstrap.** `BootstrapInv` says that of the two slots one holds the successor of
the other, that the graph, the root and the credentials agree with the canonical
record, that the observer knows no more wrong guesses than the persisted lockout
and its clock (`Guesses`), that the operation under way finds the canonical record
in the state its next write continues (`JobOK`), and that build, handoff,
provisioning and change find the access domain as they left it (`Ready`). That an
open access handoff keeps everybody out is what makes `OldSecretsDead` inductive.

**Touch surface.** `PanelInv` says that the snapshot a running step works with shows
the reset flow as it is, since only the main task changes the flow (`SnapTrue`); a
begin or a dismissal is therefore only offered in the stage it is meant for, although
the rest of the snapshot may be stale. The stage tells how often this flow was
acknowledged (`AcksTold`), and the hold the flow has counted is no more than the
unbroken contact the observer saw: after a skipped step the gate waits for a release,
and until one is seen nothing counts (`HoldTold`). A factory program is always listed,
and so is the one that runs (`Listing`), so that a duplicate takes an entry other than
its own. Whichever page, slot or header is touched, a request of the reset is one the
snapshot allows; the lemmas say so page by page (`SlotsOffer`, `PressSound`) and then
for dispatch, core and the other tasks. The rest of the editors' state (dirty flags,
pending operation, page stack) does not matter for the two properties: the
application checks the active run again when the edit is applied.

**Web.** `SurfaceInv`: cookies name one session (`Distinct`), a reservation is kept by
its slot until the `httpd` task completes it (`Carried`), a sequence number is used
once (`Numbered`), what the replay memory answers is what happened (`Remembered`),
and a login that derives its key carries the trust generation it began in (`Fresh`).

**Process.** `ProcessInv` says of the state of now what `validProcessRuntime` and the
checkpoint check each ask for: which entry times, marks and messages go with which
state, that they lie in the past of this boot's clock, and that run, recovery fields
and state belong together (`Coherent`); that a decision that waits was proposed for
a state with no higher sequence (`Waiting`), so that it applies to the state of now
only if no step has come between; and that a waiting completion was due by the
duration of now (`Founded`). One conjunct came from the proof: a machine that waits
for its qualification knows since when (`Tracking`). Without it
`decideProcessTransition()` would propose to begin tracking in `QualifyingTarget`,
for which `applyProcessTransition()` has no edge.

**Run store.** `RunStoreInv` has three parts. `Structure` says what coordinator,
application and the transaction under way hold in each mode, and that a readable
head names at most one run (`HeadSane`). `TimeTrue` says what every record knows of
the time: of the published run, of each readable slot, of the loaded record and of
the record being written, phase time before the boot and since together are the
time since the phase began (`RunTrue`), and the two clocks run `Together`. It holds
for any number of lost records. `IdentityInv` says which run can be named where:
heads name runs that were prepared (`HeadsIn`, `Placed`), a run whose end was asked
for is not offered again once the end is durable (`Asked`, `Over`, `EndedKept`), a
live run is named by what a load would read (`LiveKept`), the loaded record is the
head's (`LoadedNamed`), and no prepared command has an identity that was used
(`Started`). It is the part that needs `budget.lost <= 1`. The write of a checkpoint
is followed step by step, with each of its outcomes and a power loss after each.

**Sensor chain.** The three properties need three invariants, each over its own part
of the state. `Sampling`: what is left of the cycle bounds how old a channel's
reading may be now; a channel that is not planned in a cycle was published when the
cycle began, so it ages with the conversion alone (`Timed`). `Recovered`: while a
pipeline counts good samples, the samples it accepted last are a streak of one
probe, at least as many, over at least the time, and exactly as old (`Earned`); that
the streak's time never shrinks needs the last accepted sample to be no older than
the last good one (`Dated`). `Qualified`: credit is no more than the time proven
and the room of one maximum gap for each spell of discarded evaluations (`Excused`);
and, outside an excursion, the time since the last applied evaluation is covered by
the time the band has been open, unless the gap is too long to be credited, or that
room is still to be spent (`Credited`). An evaluation that is applied is covered by
the band or opens it; one that is discarded opens a spell, or belongs to the open one,
and moves nothing else. The
proof corrected the bound: `CyclePeriod + ConversionWait + 2 * LateMax`, which TLC
had confirmed on its instance, is too small where the conversion and the delay
together outlast the cycle.

**Sensor selection.** The property looks at the checkpoint alone, and the next
checkpoint comes from the runtime state or from a decision that waited across an
action of the user. `SelectionInv` says of all three that phase, mode, provenance
and program agree.

### Only model-checked

- The liveness properties `HandoffResumed`, `LossBlocks`, `FallbackHappens` and
  `ResetReturns`: fairness and ENABLED are out of the prover's reach.

## Not modelled

- Wi-Fi events, reconnects and the candidate test of the network lifecycle, SNTP
  and RTC: their state lives in the driver and its event loop, whose behaviour the
  repository does not show; the surfaces only see a mode that applies or fails.
- Byte codecs, JSON, migration of documents, program values, texts and drawing:
  pure conversions of values, checked by the repository's tests.
- The PI arithmetic and the numeric filters: choices of quotes and sets of samples.
- Read-only routes and projections, which change no state.
- Driver adapters below the state store, GPIO and 1-Wire interfaces: their
  outcomes, failures included, are the steps of the models above them.

## Plan

The safety properties of all runs are proved. What would come next is more of the
system: the composition of sensors, selection, orchestrator and outputs, once a loop
of the product runs them, which would replace `AssumedCycle` by that loop; the network
lifecycle, once the behaviour of its driver is pinned down; and the migration of
documents between schema versions.
