------------------------------ MODULE RunStore ------------------------------
(***************************************************************************)
(* The persistence of the run: RunPersistenceCoordinator, its head rh0 and *)
(* its two checkpoint slots rc0 and rc1, and the part of                   *)
(* FermentationApplication that loads, offers and recovers a run at boot,  *)
(* allocates command identities and hands the store over to a new storage  *)
(* epoch after a factory reset.                                            *)
(*                                                                         *)
(* Every write to flash is a step of its own, so a power loss can fall     *)
(* before, within and after it.  Time counts seconds: `up` since the boot, *)
(* `utc` on the wall.  ReachingTarget stands for every phase that is not   *)
(* resumed (the wait for the product and the target qualification too).    *)
(* The run's program, its sensor selection and the recovery episodes of    *)
(* the older recovery path are left out; ProcessStateMachine has them.     *)
(***************************************************************************)
EXTENDS Integers, Sequences, FiniteSetsExt

CONSTANTS
  None,             \* std::nullopt
  Absent,           \* a key that reads NotFound
  Corrupt,          \* bytes whose envelope does not decode
  Duration,         \* fermentationDurationMinutes, in seconds
  CheckpointEvery,  \* RunCheckpointSchedule::intervalMinutes(), in seconds
  IdWindow,         \* kMaximumPersistedRunCommandIds
  Surfaces,         \* where a command is prepared: the touch panel, the web
  RevisionMax,      \* the largest revision; the uint64 limit
  IdMax,            \* the largest command id; the uint64 limit
  PressMax,         \* bound on prepared commands
  TimeMax,          \* bound on the wall clock
  EpochMax,         \* bound on factory resets
  TroubleMax        \* bound on failed writes and reads, power losses and
                    \* records damaged at rest, together

ASSUME RunStoreConstants ==
  /\ Duration \in Nat \ {0} /\ CheckpointEvery \in Nat \ {0}
  /\ IdWindow \in Nat \ {0} /\ RevisionMax \in Nat \ {0}
  /\ IdMax \in Nat \ {0} /\ PressMax \in Nat /\ TimeMax \in Nat /\ EpochMax \in Nat \ {0}
  /\ TroubleMax \in Nat

VARIABLES
  flash,   \* what rh0, rc0 and rc1 hold
  boot,    \* the bootstrap record: storage epoch and run-epoch handoff
  co,      \* the coordinator's RAM
  app,     \* the application's lifecycle, offers and command identity
  ram,     \* runtimeRunState_, or None
  op,      \* the transaction in progress, or None
  clock,   \* up, utc, and whether trusted UTC is known
  budget   \* presses and troubles still to come; whether a write or record
           \* failed, and the number of records lost at rest

vars == <<flash, boot, co, app, ram, op, clock, budget>>

Keys == {"rh0", "rc0", "rc1"}

SlotKey(slot) == IF slot = 0 THEN "rc0" ELSE "rc1"

Phases == {"Preheating", "ReachingTarget", "Fermenting", "Completed", "Fault"}

-----------------------------------------------------------------------------
(* Records, references and heads *)

\* RunCommandState, as far as a checkpoint holds it.
Run(id, phase, entered, prior) ==
  [id |-> id, phase |-> phase, entered |-> entered, prior |-> prior]

NoRun(entered) == Run(None, "Standby", entered, None)

Active(r) == r.id # None

\* makeRunPersistenceSnapshotInto() and validateRunPersistenceSnapshot():
\* no timer lies in the future, and an earlier boot's phase time belongs to
\* the phase it is tagged with.
Snapshot(r, ids, at) == [run |-> r, ids |-> ids, at |-> at]

ValidSnapshot(s) ==
  /\ s.run.entered <= s.at
  /\ s.run.prior # None => s.run.phase = "Fermenting"

Checkpoint(epoch, revision, utc, snapshot) ==
  [epoch |-> epoch, revision |-> revision, utc |-> utc, snapshot |-> snapshot]

\* RunCheckpointReference; length and CRC stand for the payload.
Reference(slot, record) ==
  [slot |-> slot, epoch |-> record.epoch, revision |-> record.revision,
   snapshot |-> record.snapshot]

CommittedHead(epoch, revision, current, fallback, highWater) ==
  [state |-> "Committed", epoch |-> epoch, revision |-> revision,
   current |-> current, fallback |-> fallback, highWater |-> highWater]

PreparedHead(epoch, revision, target, highWater) ==
  [state |-> "Prepared", epoch |-> epoch, revision |-> revision,
   target |-> target, highWater |-> highWater]

\* validCommittedHead()
ValidHead(h) ==
  IF ~Active(h.current.snapshot.run) THEN h.fallback = None
  ELSE h.fallback # None => h.fallback.slot # h.current.slot

Readable(v) == v \notin {Absent, Corrupt}

\* loadReference(): the slot holds exactly the record the head names.
Loadable(f, epoch, ref) ==
  LET v == f[SlotKey(ref.slot)]
  IN Readable(v) /\ v.epoch = epoch /\ Reference(ref.slot, v) = ref

\* What the records, heads and slots hold
RunIds == Nat \X Nat

RunStates ==
  [id : RunIds \cup {None}, phase : Phases \cup {"Standby", "RecoveryEvaluation"},
   entered : Nat, prior : Int \cup {None}]

Snapshots == [run : RunStates, ids : Seq(Nat), at : Nat]

Records ==
  [epoch : Nat, revision : Nat, utc : Nat \cup {None}, snapshot : Snapshots]

References == [slot : {0, 1}, epoch : Nat, revision : Nat, snapshot : Snapshots]

CommittedHeads ==
  [state : {"Committed"}, epoch : Nat, revision : Nat, current : References,
   fallback : References \cup {None}, highWater : Nat]

PreparedHeads ==
  [state : {"Prepared"}, epoch : Nat, revision : Nat, target : References,
   highWater : Nat]

Heads == CommittedHeads \cup PreparedHeads

After(revision) == IF revision = RevisionMax THEN 0 ELSE revision + 1
AfterId(id) == IF id = IdMax THEN 0 ELSE id + 1

-----------------------------------------------------------------------------
(* loadAndInitializeInto() *)

Loaded(status, state, head, record, next) ==
  [status |-> status, state |-> state, head |-> head, record |-> record,
   next |-> next]

Blocked(status, head) ==
  Loaded(status, "BlockedIndeterminate", head, None, 1)

\* Mutant: without a head the slots are not looked at.
LoadWithoutHeadUnchecked(f) ==
  Loaded("NoPersistedRun", "ReadyEmpty", None, None, 1)

\* No head: empty only when neither slot holds a byte.
LoadWithoutHead(f) ==
  IF f["rc0"] = Absent /\ f["rc1"] = Absent
  THEN Loaded("NoPersistedRun", "ReadyEmpty", None, None, 1)
  ELSE Blocked("NotReconstructibleOrphanedState", None)

\* The revision above every readable record, 0 when that would overflow.
HighestAfter(revisions) ==
  IF RevisionMax \in revisions THEN 0 ELSE Max(revisions) + 1

LoadCurrent(f, epoch, head) ==
  LET record == f[SlotKey(head.current.slot)]
      other == f[SlotKey(1 - head.current.slot)]
      next == HighestAfter({record.revision}
                \cup IF other = Absent THEN {} ELSE {other.revision})
  IN IF other = Corrupt \/ (other # Absent /\ other.epoch # epoch)
     THEN Blocked("NotReconstructible", head)
     ELSE IF Active(record.snapshot.run)
     THEN Loaded("Current", "LoadedActiveRun", head, record, next)
     ELSE Loaded("NoActiveRun", "ReadyEmpty", head, record, next)

\* Mutant: any other record serves as the fallback.
LoadFallbackOtherSlot(f, epoch, head) ==
  LET record == f[SlotKey(1 - head.current.slot)]
  IN IF ~Readable(record) THEN Blocked("NotReconstructible", head)
     ELSE Loaded("FallbackRecovered", "FallbackRecoveryPending", head, record,
                 HighestAfter({record.revision, head.current.revision}))

LoadFallback(f, epoch, head) ==
  IF head.fallback = None \/ ~Loadable(f, epoch, head.fallback)
  THEN Blocked("NotReconstructible", head)
  ELSE LET record == f[SlotKey(head.fallback.slot)]
       IN IF ~Active(record.snapshot.run)
          THEN Blocked("NotReconstructible", head)
          ELSE Loaded("FallbackRecovered", "FallbackRecoveryPending", head,
                      record, HighestAfter({record.revision,
                                            head.current.revision}))

Load(f, epoch) ==
  LET head == f["rh0"]
  IN CASE head = Absent -> LoadWithoutHead(f)
       [] head = Corrupt -> Blocked("NotReconstructible", None)
       [] Readable(head) /\ head.epoch # epoch -> Blocked("ForeignEpoch", None)
       [] Readable(head) /\ head.epoch = epoch /\ head.state = "Prepared" ->
            Blocked("PreparedInterrupted", head)
       [] OTHER -> IF Loadable(f, epoch, head.current)
                   THEN LoadCurrent(f, epoch, head)
                   ELSE LoadFallback(f, epoch, head)

\* classifyRunLoad(): isR1ResumeEligible() holds of Preheating alone here.
Classify(load) ==
  CASE load.status \in {"NoPersistedRun", "NoActiveRun"} -> "NoRun"
    [] load.status = "FallbackRecovered" -> "FallbackSelectionRequired"
    [] load.status = "Current" ->
         (CASE load.record.snapshot.run.phase = "Completed" -> "CompletedRun"
            [] load.record.snapshot.run.phase = "Fault" -> "TerminalRunFault"
            [] load.record.snapshot.run.phase = "Fermenting" ->
                 "RecoveryEvaluation"
            [] load.record.snapshot.run.phase = "Preheating" -> "ResumeOffer"
            [] OTHER -> "DiscardableRun")
    [] OTHER -> "SafeBoot"

\* The states in which the coordinator knows what the flash holds
Usable == {"Ready", "ReadyEmpty", "LoadedActiveRun", "FallbackRecoveryPending"}

\* commandIdHighWater()
HighWater(c) ==
  IF c.state \in Usable
  THEN IF c.head # None THEN c.head.highWater
       ELSE IF c.state = "ReadyEmpty" THEN 0 ELSE None
  ELSE None

-----------------------------------------------------------------------------
(* The coordinator's transaction: prepared head, slot, committed head *)

Uninitialized(epoch) ==
  [state |-> "Uninitialized", epoch |-> epoch, head |-> None, loaded |-> None,
   next |-> 1, ids |-> <<>>, last |-> None]

Transactions ==
  [kind : {"Command", "Transition", "Periodic", "Recover", "Discard", "Fallback"},
   after : RunStates, record : Records, target : {0, 1}, rollback : Usable,
   step : {"PreparedHead", "CheckpointSlot", "CommittedHead"},
   prepared : PreparedHeads, committed : CommittedHeads]

\* nextHeadRevision_
NextHead(c) == IF c.head = None THEN 1 ELSE After(c.head.revision)

Utc == IF clock.known THEN clock.utc ELSE None

\* The fallback directives of writeSnapshotCore()
StandardFallback == IF co.head = None THEN None ELSE co.head.current

NewHighWater(id) ==
  IF id # None THEN id ELSE IF co.head = None THEN 0 ELSE co.head.highWater

Transaction(kind, after, ids, id, target, fallback) ==
  LET periodic == kind = "Periodic"
      record == Checkpoint(co.epoch, co.next, Utc, Snapshot(after, ids, clock.up))
      ref == Reference(target, record)
      highWater == NewHighWater(id)
      first == NextHead(co)
  IN [kind |-> kind, after |-> after, record |-> record, target |-> target,
      rollback |-> co.state,
      step |-> IF periodic THEN "CheckpointSlot" ELSE "PreparedHead",
      prepared |-> PreparedHead(co.epoch, first, ref, highWater),
      committed |-> CommittedHead(co.epoch, IF periodic THEN first ELSE first + 1,
                      ref, IF Active(after) THEN fallback ELSE None, highWater)]

\* The early returns of writeSnapshotCore(): a fermenting record needs trusted
\* UTC, the counters must not overflow, a command id is above every other.
Admitted(t, id) ==
  /\ t.after.phase = "Fermenting" => clock.known
  /\ co.next # 0 /\ NextHead(co) # 0
  /\ t.kind # "Periodic" => NextHead(co) # RevisionMax
  /\ co.last # None => clock.up >= co.last
  /\ id # None => /\ HighWater(co) # None
                  /\ id > HighWater(co)
  /\ ValidSnapshot(t.record.snapshot)
  /\ ValidHead(t.committed)

OtherSlot == IF co.head = None THEN 0 ELSE 1 - co.head.current.slot

Begin(t) ==
  /\ op' = t
  /\ co' = [co EXCEPT !.state = "Busy"]

\* What a write of `new` over `old` can leave, and what writeExact() makes of
\* it.  CommitOutcomeUnknown is resolved by a read, which may fail as well; a
\* failed read of the target before the first write ends the same way.
WriteResults(old, new) ==
  {<<new, "Written">>}
    \cup IF budget.troubles = 0 THEN {}
         ELSE {<<old, "NotWritten">>}
                \cup {<<v, "Indeterminate">> : v \in {old, new, Corrupt}}

Damage == budget' = [budget EXCEPT !.troubles = @ - 1, !.damage = TRUE]

Spend(result) ==
  IF result = "Written" THEN UNCHANGED budget ELSE Damage

StepKey == IF op.step = "CheckpointSlot" THEN SlotKey(op.target) ELSE "rh0"

StepValue ==
  CASE op.step = "PreparedHead" -> op.prepared
    [] op.step = "CheckpointSlot" -> op.record
    [] OTHER -> op.committed

\* How the operation's caller takes the failed transaction.
ApplyFailure ==
  CASE op.kind = "Recover" ->
         /\ ram' = Run(co.loaded.snapshot.run.id, "RecoveryEvaluation",
                       clock.up, co.loaded.snapshot.run.prior)
         /\ app' = [app EXCEPT !.life = "Ready", !.disposition = "Rejected"]
    [] op.kind = "Discard" ->
         /\ app' = [app EXCEPT !.life = "ServiceRequired"]
         /\ UNCHANGED ram
    [] OTHER -> UNCHANGED <<ram, app>>

\* RAM follows only a committed transaction.
ApplySuccess ==
  /\ ram' = IF op.kind = "Periodic" THEN ram ELSE op.after
  /\ app' = CASE op.kind = "Recover" ->
                   [app EXCEPT !.life = "Ready",
                               !.disposition = "CurrentRunRecoverable"]
              [] op.kind = "Discard" -> [app EXCEPT !.life = "Ready"]
              [] op.kind = "Fallback" -> [app EXCEPT !.fallback = None]
              [] OTHER -> app

\* A failed write leaves the coordinator usable only while nothing has been
\* written that a load would refuse.
FailTransaction(result) ==
  /\ co' = [co EXCEPT !.state =
              IF result = "NotWritten"
                 /\ (op.kind = "Periodic" \/ op.step = "PreparedHead")
              THEN op.rollback ELSE "BlockedIndeterminate"]
  /\ ApplyFailure
  /\ op' = None

AdvanceTransaction ==
  CASE op.step = "PreparedHead" ->
         /\ op' = [op EXCEPT !.step = "CheckpointSlot"]
         /\ UNCHANGED <<co, ram, app>>
    [] op.step = "CheckpointSlot" ->
         /\ op' = [op EXCEPT !.step = "CommittedHead"]
         /\ co' = [co EXCEPT !.next = After(op.record.revision)]
         /\ UNCHANGED <<ram, app>>
    [] OTHER ->
         /\ co' = [co EXCEPT
              !.head = op.committed, !.loaded = None, !.ids = op.record.snapshot.ids,
              !.last = op.record.snapshot.at,
              !.state = IF Active(op.after) THEN "Ready" ELSE "ReadyEmpty"]
         /\ ApplySuccess
         /\ op' = None

\* writeSnapshotTransaction(), one write at a time
WriteStep ==
  /\ op # None
  /\ \E r \in WriteResults(flash[StepKey], StepValue) :
       /\ flash' = [flash EXCEPT ![StepKey] = r[1]]
       /\ Spend(r[2])
       /\ IF r[2] = "Written" THEN AdvanceTransaction ELSE FailTransaction(r[2])
  /\ UNCHANGED <<boot, clock>>

-----------------------------------------------------------------------------
(* Commands, transitions and periodic checkpoints of a running application *)

Idle == op = None

\* Commands, transitions and checkpoints need a booted application; boot and
\* factory reset hold the call serializer throughout.
Serving == Idle /\ app.life = "Ready"

Accepting == Serving /\ co.state \in {"Ready", "ReadyEmpty"}

\* persistCommandInternal()'s window of persisted ids
Remember(ids, id) ==
  IF Len(ids) < IdWindow THEN Append(ids, id) ELSE Append(Tail(ids), id)

\* prepare...(): allocateForApplication() and makeRunId(); at the largest id
\* the identity overflows and no request is prepared any more.
Prepare(surface) ==
  /\ Serving /\ app.requests[surface] = None
  /\ app.nextId \notin {None, 0}
  /\ app' = [app EXCEPT
       !.requests[surface] = [id |-> app.nextId, run |-> <<app.epoch, app.nextId>>],
       !.nextId = AfterId(@)]
  /\ budget.presses > 0 /\ budget' = [budget EXCEPT !.presses = @ - 1]
  /\ UNCHANGED <<flash, boot, co, ram, op, clock>>

\* The run a command leaves: a start, an end (stop or acknowledged
\* completion), or a new remaining duration while fermenting.
CommandOutcomes(request) ==
  {Run(request.run, "Preheating", clock.up, None) :
     x \in {y \in {1} : ~Active(ram) /\ clock.known}}
  \cup {NoRun(clock.up) :
     x \in {y \in {1} : Active(ram) /\ ram.phase # "Fault"}}
  \cup {Run(ram.id, "Fermenting", clock.up, 0) :
     x \in {y \in {1} : ram.phase = "Fermenting"}}

\* confirmPrepared() and applyConfirmedPrepared() with persistBorrowedCommand()
Confirm(surface) ==
  /\ Serving /\ app.requests[surface] # None
  /\ app' = [app EXCEPT !.requests[surface] = None]
  /\ LET request == app.requests[surface]
         id == request.id
     IN \/ \E after \in IF ram = None THEN {} ELSE CommandOutcomes(request) :
             LET t == Transaction("Command", after, Remember(co.ids, id), id,
                                  OtherSlot, StandardFallback)
             IN /\ Accepting
                /\ \A i \in DOMAIN co.ids : co.ids[i] # id
                /\ Admitted(t, id)
                /\ Begin(t)
        \/ UNCHANGED <<co, op>>   \* refused, for any of the reasons above
  /\ UNCHANGED <<flash, boot, ram, clock, budget>>

\* What a phase can turn into; a fermentation completes when its time is up.
NextPhases(r) ==
  (CASE r.phase = "Preheating" -> {"ReachingTarget"}
     [] r.phase = "ReachingTarget" -> {"Fermenting"}
     [] r.phase = "Fermenting" ->
          IF clock.up - r.entered + (IF r.prior = None THEN 0 ELSE r.prior)
               >= Duration
          THEN {"Completed"} ELSE {}
     [] OTHER -> {})
  \cup IF r.phase \in {"Preheating", "ReachingTarget", "Fermenting"}
       THEN {"Fault"} ELSE {}

\* persistTransition() and confirmProductInserted()
PersistTransition ==
  /\ Serving /\ co.state = "Ready"
  /\ \E phase \in NextPhases(ram) :
       LET t == Transaction("Transition",
                  Run(ram.id, phase, clock.up, ram.prior), co.ids, None,
                  OtherSlot, StandardFallback)
       IN Admitted(t, None) /\ Begin(t)
  /\ UNCHANGED <<flash, boot, app, ram, clock, budget>>

\* checkpointPeriodic(): the confirmed record must still be the run in RAM.
CheckpointPeriodic ==
  /\ Serving /\ co.state = "Ready"
  /\ co.head.current.snapshot.run = ram
  /\ co.last # None /\ clock.up - co.last >= CheckpointEvery
  /\ LET t == Transaction("Periodic", ram, co.ids, None, OtherSlot,
                          StandardFallback)
     IN Admitted(t, None) /\ Begin(t)
  /\ UNCHANGED <<flash, boot, app, ram, clock, budget>>

-----------------------------------------------------------------------------
(* Recovery of a loaded run *)

\* Mutant: only the time since the checkpoint.
RecoveredTimeSinceCheckpoint(record) == clock.utc - record.utc

\* activateR1ExactFermentingCore(): the phase's time is what the checkpoint
\* had of it and the wall clock since; when that is the whole duration the
\* run is complete, and a selected fallback ends at once.
RecoveredTime(record) ==
  LET r == record.snapshot.run
  IN (IF r.prior = None THEN 0 ELSE r.prior)
       + (record.snapshot.at - r.entered) + (clock.utc - record.utc)

Recovered(record, fallback) ==
  LET r == record.snapshot.run
  IN IF RecoveredTime(record) < Duration
     THEN Run(r.id, "Fermenting", clock.up, RecoveredTime(record))
     ELSE IF fallback THEN NoRun(clock.up)
     ELSE Run(r.id, "Completed", clock.up, None)

\* The live head and slot are read again before anything is decided.
StillAsLoaded(ref) ==
  ref # None /\ flash["rh0"] = co.head /\ Loadable(flash, co.epoch, ref)

\* A rejected evaluation publishes the run without its phase and stays so.
RejectRecovery ==
  /\ ram' = Run(co.loaded.snapshot.run.id, "RecoveryEvaluation", clock.up,
                co.loaded.snapshot.run.prior)
  /\ app' = [app EXCEPT !.life = "Ready", !.class = None,
                        !.disposition = "Rejected"]
  /\ co' = IF Absent \in {flash["rh0"], flash[SlotKey(co.head.current.slot)]}
           THEN [co EXCEPT !.state = "BlockedIndeterminate"] ELSE co
  /\ UNCHANGED op

\* Without trusted UTC the loaded record is kept as it is.
AwaitTrustedTime ==
  /\ ram' = Run(co.loaded.snapshot.run.id, "RecoveryEvaluation", clock.up,
                co.loaded.snapshot.run.prior)
  /\ app' = [app EXCEPT !.life = "Ready", !.class = None,
                        !.disposition = "WaitingForTrustedTime"]
  /\ UNCHANGED <<co, op>>

\* evaluateCurrentFermentingRecovery()
EvaluateRecovery ==
  LET t == Transaction("Recover", Recovered(co.loaded, FALSE), co.ids, None,
                       OtherSlot, StandardFallback)
  IN IF ~StillAsLoaded(co.head.current) \/ co.loaded.utc = None
     THEN RejectRecovery
     ELSE IF ~clock.known THEN AwaitTrustedTime
     ELSE IF clock.utc < co.loaded.utc \/ ~Admitted(t, None)
     THEN RejectRecovery
     ELSE /\ Begin(t)
          /\ app' = [app EXCEPT !.class = None, !.disposition = None]
          /\ UNCHANGED ram

\* update(): reevaluateWaitingForTrustedTime(), when it changes anything
Update ==
  /\ Serving /\ app.disposition = "WaitingForTrustedTime"
  /\ clock.known \/ ~StillAsLoaded(co.head.current)
  /\ EvaluateRecovery
  /\ UNCHANGED <<flash, boot, clock, budget>>

\* resumeFallback() and activateFallbackRecoveredRun(); a preheating run is
\* taken over as it was stored, with the timers of the boot it ran in.
ResumeFallback ==
  /\ Serving /\ app.fallback # None
  /\ co.state = "FallbackRecoveryPending"
  /\ StillAsLoaded(co.head.fallback)
  /\ LET r == co.loaded.snapshot.run
         after == IF r.phase = "Fermenting" THEN Recovered(co.loaded, TRUE) ELSE r
         t == Transaction("Fallback", after, co.ids, None, co.head.current.slot,
                          co.head.fallback)
     IN /\ \/ r.phase = "Preheating"
           \/ /\ r.phase = "Fermenting" /\ co.loaded.utc # None
              /\ clock.known /\ clock.utc >= co.loaded.utc
        /\ Admitted(t, None)
        /\ Begin(t)
  /\ UNCHANGED <<flash, boot, app, ram, clock, budget>>

-----------------------------------------------------------------------------
(* Types *)

Classes ==
  {"NoRun", "FallbackSelectionRequired", "CompletedRun", "TerminalRunFault",
   "RecoveryEvaluation", "ResumeOffer", "DiscardableRun", "SafeBoot"}

Dispositions == {"Rejected", "WaitingForTrustedTime", "CurrentRunRecoverable"}

Coordinators ==
  [state : Usable \cup {"Uninitialized", "Busy", "BlockedIndeterminate"},
   epoch : Nat, head : Heads \cup {None}, loaded : Records \cup {None},
   next : Nat, ids : Seq(Nat), last : Nat \cup {None}]

Requests == [id : Nat, run : RunIds]

Applications ==
  [life : {"Off", "Initializing", "Ready", "ServiceRequired", "Handoff"},
   epoch : Nat, class : Classes \cup {None},
   disposition : Dispositions \cup {None}, fallback : RunStates \cup {None},
   nextId : Nat \cup {None}, requests : [Surfaces -> Requests \cup {None}]]

TypeOK ==
  /\ DOMAIN flash = Keys
  /\ flash["rh0"] \in Heads \cup {Absent, Corrupt}
  /\ flash["rc0"] \in Records \cup {Absent, Corrupt}
  /\ flash["rc1"] \in Records \cup {Absent, Corrupt}
  /\ boot \in [epoch : Nat \ {0}, handoff : {"None", "Pending", "Committed"}]
  /\ co \in Coordinators /\ app \in Applications
  /\ ram \in RunStates \cup {None} /\ op \in Transactions \cup {None}
  /\ clock \in [up : Nat, utc : Nat, known : BOOLEAN]
  /\ budget \in [presses : Nat, troubles : Nat, damage : BOOLEAN, lost : Nat]

\* What stands for nothing is no value of a field or a key.
ASSUME RunStoreNone ==
  /\ None \notin Int \cup RunIds \cup RunStates \cup Records \cup References
               \cup Heads \cup Requests \cup Transactions
               \cup Classes \cup Dispositions
  /\ Absent \notin Records \cup Heads /\ Corrupt \notin Records \cup Heads
  /\ Absent # Corrupt

-----------------------------------------------------------------------------
(* Boot *)

NoRequests == [s \in Surfaces |-> None]

Off(epoch) ==
  [life |-> "Off", epoch |-> epoch, class |-> None, disposition |-> None,
   fallback |-> None, nextId |-> None,
   requests |-> NoRequests]

Init ==
  /\ flash = [k \in Keys |-> Absent]
  /\ boot = [epoch |-> 1, handoff |-> "None"]
  /\ co = Uninitialized(1)
  /\ app = Off(1)
  /\ ram = None
  /\ op = None
  /\ clock = [up |-> 0, utc |-> 0, known |-> FALSE]
  /\ budget = [presses |-> PressMax, troubles |-> TroubleMax, damage |-> FALSE,
               lost |-> 0]

\* ApplicationRunIdentity::create()
Identity(c) == IF HighWater(c) = None THEN None ELSE AfterId(HighWater(c))

Installed(c, load) ==
  [c EXCEPT !.state = load.state, !.head = load.head, !.loaded = load.record,
            !.next = load.next, !.last = None,
            !.ids = IF load.record = None THEN <<>> ELSE load.record.snapshot.ids]

\* What a load with a failed read returns: nothing, or, when it was the record
\* the head names, what a load without that record would.
LoadsReadFailing(f, epoch) ==
  LET head == f["rh0"]
      named == Readable(head) /\ head.epoch = epoch /\ head.state = "Committed"
  IN {Blocked("ReadFailed", None)}
       \cup IF named THEN {LoadFallback(f, epoch, head)} ELSE {}

\* loadAndInitializeInto() and the classification
LoadRun(epoch) ==
  \E failed \in BOOLEAN :
  \E load \in IF failed THEN LoadsReadFailing(flash, epoch) ELSE {Load(flash, epoch)} :
    LET c == Installed(Uninitialized(epoch), load)
    IN /\ IF failed THEN budget.troubles > 0 /\ Damage ELSE UNCHANGED budget
       /\ co' = c
       /\ app' = [Off(epoch) EXCEPT !.life = "Initializing",
                    !.class = Classify(load), !.nextId = Identity(c),
                    !.requests = app.requests]
       /\ ram' = None

\* beginPersistent() with no handoff open
BootLoad ==
  /\ app.life = "Off" /\ boot.handoff = "None"
  /\ LoadRun(boot.epoch)
  /\ UNCHANGED <<flash, boot, op, clock>>

\* discardAsNoActiveRun() of a run no boot resumes
DiscardRun ==
  LET t == Transaction("Discard", NoRun(clock.up), co.ids, None, OtherSlot, None)
  IN IF Admitted(t, None)
     THEN Begin(t) /\ app' = [app EXCEPT !.class = None] /\ UNCHANGED ram
     ELSE /\ app' = [app EXCEPT !.life = "ServiceRequired", !.class = None]
          /\ UNCHANGED <<co, op, ram>>

\* activateR1EligibleRun() of a terminal run: RAM only
RestoreTerminal ==
  /\ co' = [co EXCEPT !.state = "Ready", !.loaded = None]
  /\ ram' = IF co.loaded.snapshot.run.phase = "Completed"
            THEN [co.loaded.snapshot.run EXCEPT !.entered = clock.up]
            ELSE co.loaded.snapshot.run
  /\ app' = [app EXCEPT !.life = "Ready", !.class = None]
  /\ UNCHANGED op

\* processBootClassification()
ProcessBoot ==
  /\ app.life = "Initializing" /\ app.class # None /\ Idle
  /\ CASE app.class = "NoRun" ->
            /\ ram' = NoRun(0)
            /\ app' = [app EXCEPT !.life = "Ready", !.class = None]
            /\ UNCHANGED <<co, op>>
       [] app.class = "ResumeOffer" ->
            /\ app' = [app EXCEPT !.life = "Ready", !.class = None]
            /\ UNCHANGED <<co, op, ram>>
       [] app.class = "FallbackSelectionRequired" ->
            /\ app' = [app EXCEPT !.life = "Ready", !.class = None,
                                  !.fallback = co.loaded.snapshot.run]
            /\ UNCHANGED <<co, op, ram>>
       [] app.class = "RecoveryEvaluation" -> EvaluateRecovery
       [] app.class = "DiscardableRun" -> DiscardRun
       [] app.class \in {"CompletedRun", "TerminalRunFault"} -> RestoreTerminal
       [] OTHER ->
            /\ app' = [app EXCEPT !.life = "ServiceRequired", !.class = None]
            /\ UNCHANGED <<co, op, ram>>
  /\ UNCHANGED <<flash, boot, clock, budget>>

-----------------------------------------------------------------------------
(* The handoff to a new storage epoch *)

\* beginAuthorizedFactoryReset(): the configuration core has advanced the
\* epoch and left the handoff Pending; a fresh coordinator takes over.  A
\* published run keeps the reset closed.
FactoryReset ==
  /\ Idle /\ app.life \in {"Ready", "ServiceRequired"}
  /\ boot.handoff = "None" /\ boot.epoch < EpochMax
  /\ ram # None => ~Active(ram)
  /\ boot' = [epoch |-> boot.epoch + 1, handoff |-> "Pending"]
  /\ app' = [app EXCEPT !.life = "Handoff"]
  /\ UNCHANGED <<flash, co, ram, op, clock, budget>>

\* makeAuthorizedEpochHandoffTarget()
HandoffRecord(epoch, slot) ==
  Checkpoint(epoch, slot + 1, None, Snapshot(NoRun(0), <<>>, 0))

HandoffHead(epoch) ==
  CommittedHead(epoch, 1, Reference(0, HandoffRecord(epoch, 0)), None, 0)

IsTarget(f, epoch, slot) == f[SlotKey(slot)] = HandoffRecord(epoch, slot)

\* Mutant: the old head must still find its records.
NamedInOldEpoch(f, epoch, ref) == Loadable(f, epoch - 1, ref)

\* A record the old head names: itself, or the one that has replaced it.
NamedRecord(f, epoch, ref) ==
  IsTarget(f, epoch, ref.slot) \/ Loadable(f, epoch - 1, ref)

\* prepareAuthorizedEpochHandoff() accepts the previous epoch's committed store
\* (with the slots already replaced), or no head and no record of it.
PreviousStoreKnown(f, epoch) ==
  LET head == f["rh0"]
      known(slot) ==
        \/ f[SlotKey(slot)] = Absent
        \/ IsTarget(f, epoch, slot)
        \/ Readable(f[SlotKey(slot)]) /\ f[SlotKey(slot)].epoch = epoch - 1
  IN /\ \A slot \in {0, 1} : known(slot)
     /\ IF head = Absent
        THEN \A slot \in {0, 1} :
               f[SlotKey(slot)] = Absent \/ IsTarget(f, epoch, slot)
        ELSE /\ head # Corrupt /\ head.epoch = epoch - 1
             /\ head.state = "Committed"
             /\ NamedRecord(f, epoch, head.current)
             /\ head.fallback # None => NamedRecord(f, epoch, head.fallback)

HandoffFails ==
  /\ app' = [app EXCEPT !.life = "ServiceRequired"]
  /\ UNCHANGED <<boot, co, ram>>

\* The slot the handoff replaces next: the first that is not the target yet.
SlotToReplace == Min({s \in {0, 1} : ~IsTarget(flash, boot.epoch, s)})

SlotsReplaced == \A slot \in {0, 1} : IsTarget(flash, boot.epoch, slot)

\* One slot write of prepareAuthorizedEpochHandoff()
HandoffSlot ==
  /\ app.life \in {"Off", "Handoff"} /\ boot.handoff = "Pending"
  /\ PreviousStoreKnown(flash, boot.epoch)
  /\ ~SlotsReplaced
  /\ LET key == SlotKey(SlotToReplace)
     IN \E r \in WriteResults(flash[key], HandoffRecord(boot.epoch, SlotToReplace)) :
          /\ flash' = [flash EXCEPT ![key] = r[1]]
          /\ Spend(r[2])
          /\ IF r[2] = "Written" THEN UNCHANGED <<boot, app, co, ram>>
             ELSE HandoffFails
  /\ UNCHANGED <<op, clock>>

\* commitAuthorizedRunEpochHandoff(): the bootstrap record turns Committed
HandoffCommit ==
  /\ app.life \in {"Off", "Handoff"} /\ boot.handoff = "Pending"
  /\ SlotsReplaced /\ PreviousStoreKnown(flash, boot.epoch)
  /\ boot' = [boot EXCEPT !.handoff = "Committed"]
  /\ UNCHANGED <<flash, co, app, ram, op, clock, budget>>

\* finalizeAuthorizedEpochHandoff(): the head last, verified by a read
HandoffHeadAccepted(f, epoch) ==
  \/ f["rh0"] \in {Absent, HandoffHead(epoch)}
  \/ /\ Readable(f["rh0"]) /\ f["rh0"].epoch = epoch - 1
     /\ f["rh0"].state = "Committed"

HandoffFinalize ==
  /\ app.life \in {"Off", "Handoff"} /\ boot.handoff = "Committed"
  /\ flash["rh0"] # HandoffHead(boot.epoch)
  /\ SlotsReplaced /\ HandoffHeadAccepted(flash, boot.epoch)
  /\ \E r \in WriteResults(flash["rh0"], HandoffHead(boot.epoch)) :
       /\ flash' = [flash EXCEPT !["rh0"] = r[1]]
       /\ Spend(r[2])
       /\ IF r[2] = "Written" THEN UNCHANGED <<boot, app, co, ram>>
          ELSE HandoffFails
  /\ UNCHANGED <<op, clock>>

\* consumeAuthorizedRunEpochHandoff(), and the load that follows it
HandoffConsume ==
  /\ app.life \in {"Off", "Handoff"} /\ boot.handoff = "Committed"
  /\ flash["rh0"] = HandoffHead(boot.epoch) /\ SlotsReplaced
  /\ boot' = [boot EXCEPT !.handoff = "None"]
  /\ LoadRun(boot.epoch)
  /\ UNCHANGED <<flash, op, clock>>

\* A store neither step accepts is left for service.
HandoffRejected ==
  /\ app.life \in {"Off", "Handoff"}
  /\ \/ boot.handoff = "Pending" /\ ~PreviousStoreKnown(flash, boot.epoch)
     \/ /\ boot.handoff = "Committed"
        /\ ~(SlotsReplaced /\ HandoffHeadAccepted(flash, boot.epoch))
  /\ HandoffFails
  /\ UNCHANGED <<flash, op, clock, budget>>

-----------------------------------------------------------------------------
(* The environment *)

\* The wall clock runs with the device on and off; a press and a transaction
\* take less than one unit of it.
Tick ==
  /\ Idle /\ clock.utc < TimeMax
  /\ \A s \in DOMAIN app.requests : app.requests[s] = None
  /\ clock' = [clock EXCEPT !.utc = @ + 1,
                 !.up = IF app.life = "Off" THEN @ ELSE @ + 1]
  /\ UNCHANGED <<flash, boot, co, app, ram, op, budget>>

\* The RTC or NTP gives trusted UTC.
TimeBecomesKnown ==
  /\ ~clock.known /\ app.life # "Off"
  /\ clock' = [clock EXCEPT !.known = TRUE]
  /\ UNCHANGED <<flash, boot, co, app, ram, op, budget>>

\* Power is lost between two writes; a write it tears is an Indeterminate
\* write with the loss right behind it.
PowerLoss ==
  /\ app.life # "Off" /\ budget.troubles > 0
  /\ budget' = [budget EXCEPT !.troubles = @ - 1]
  /\ co' = Uninitialized(boot.epoch)
  /\ app' = Off(boot.epoch)
  /\ ram' = None /\ op' = None
  /\ clock' = [clock EXCEPT !.up = 0, !.known = FALSE]
  /\ UNCHANGED <<flash, boot>>

\* A record is lost or damaged at rest.
LoseRecord ==
  /\ budget.troubles > 0 /\ app.life = "Off"
  /\ \E k \in Keys, v \in {Absent, Corrupt} :
       flash[k] # Absent /\ flash' = [flash EXCEPT ![k] = v]
  /\ budget' = [budget EXCEPT !.troubles = @ - 1, !.damage = TRUE,
                              !.lost = @ + 1]
  /\ UNCHANGED <<boot, co, app, ram, op, clock>>

Next ==
  \/ WriteStep
  \/ \E s \in Surfaces : Prepare(s) \/ Confirm(s)
  \/ PersistTransition \/ CheckpointPeriodic \/ Update \/ ResumeFallback
  \/ BootLoad \/ ProcessBoot
  \/ FactoryReset \/ HandoffSlot \/ HandoffCommit \/ HandoffFinalize
  \/ HandoffConsume \/ HandoffRejected
  \/ Tick \/ TimeBecomesKnown \/ PowerLoss \/ LoseRecord

Spec == Init /\ [][Next]_vars

=============================================================================
