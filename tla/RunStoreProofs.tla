--------------------------- MODULE RunStoreProofs ---------------------------
(***************************************************************************)
(* Proofs about RunStore with the observer of MCRunStore, for every        *)
(* duration, schedule, window of command ids, number of surfaces and bound *)
(* on presses, time, epochs and troubles: the time of a fermentation is    *)
(* true over every restart, and as long as no more than one record is lost *)
(* at rest a run is never forgotten and an ended one never returns.        *)
(*                                                                         *)
(* Three inductive invariants: Structure says what coordinator and         *)
(* application hold in which mode, TimeTrue what the records know of time, *)
(* and IdentityInv which run a head, a slot or a request can name.         *)
(***************************************************************************)
EXTENDS MCRunStore, TLAPS

-----------------------------------------------------------------------------
(* Structure *)

\* What the observer remembers is of its kind.
ObserverOK ==
  /\ DOMAIN runs \subseteq RunIds
  /\ \A id \in DOMAIN runs : runs[id] \in {"Live", "Ending", "Ended"}
  /\ origins \subseteq (RunIds \cup {None}) \X Int

\* The coordinator's state, a transaction set aside
Standing == IF op = None THEN co.state ELSE op.rollback

CurrentRun == co.head.current.snapshot.run

LoadedRun == co.loaded.snapshot.run

\* A head names at most one run: its fallback is an earlier record of the
\* current one, or a record without a run.
HeadSane(h) ==
  /\ h \in CommittedHeads /\ ValidHead(h)
  /\ h.fallback # None /\ Active(h.fallback.snapshot.run)
       => h.fallback.snapshot.run.id = h.current.snapshot.run.id

\* Head, loaded record and published run agree about the run.
Steady ==
  /\ co.head # None /\ Standing \in Usable =>
       HeadSane(co.head) /\ co.head.epoch = co.epoch
  /\ Standing \in Usable \ {"ReadyEmpty"} =>
       co.head # None /\ Active(CurrentRun)
  /\ Standing = "ReadyEmpty" =>
       /\ co.head # None => ~Active(CurrentRun)
       /\ ram # None => ~Active(ram)
  /\ Standing = "Ready" => ram # None /\ ram.id = CurrentRun.id
  /\ Standing \in {"LoadedActiveRun", "FallbackRecoveryPending"} =>
       /\ co.loaded # None /\ LoadedRun.id = CurrentRun.id
       /\ ram # None => ram.id = CurrentRun.id
  /\ Standing = "FallbackRecoveryPending" =>
       /\ ram = None
       /\ co.head.fallback # None => Active(co.head.fallback.snapshot.run)

\* Which parts of the application live in which mode
Modes ==
  /\ app.life = "Off" =>
       /\ op = None /\ ram = None
       /\ app = Off(boot.epoch) /\ co = Uninitialized(boot.epoch)
  /\ boot.handoff = "None" => app.epoch = boot.epoch /\ co.epoch = boot.epoch
  /\ app.epoch <= boot.epoch
  /\ app.life \in {"Initializing", "Ready"} => boot.handoff = "None"
  /\ app.life = "Handoff" => boot.handoff # "None"
  /\ op = None => co.state # "Busy"
  /\ op # None =>
       co.state = "Busy" /\ app.life \in {"Initializing", "Ready"}
  /\ app.class # None =>
       op = None /\ ram = None /\ app.life = "Initializing"
  /\ app.fallback # None =>
       /\ co.loaded # None /\ app.fallback = LoadedRun
       /\ IF op = None
          THEN co.state \in {"FallbackRecoveryPending", "BlockedIndeterminate"}
          ELSE op.kind = "Fallback"

\* What is waiting to be decided fits what was loaded.
Waiting ==
  /\ app.class # None => app.fallback = None /\ app.disposition = None
  /\ app.class = "NoRun" => co.state = "ReadyEmpty"
  /\ app.class = "FallbackSelectionRequired" =>
       co.state = "FallbackRecoveryPending"
  /\ app.class \in {"CompletedRun", "TerminalRunFault", "RecoveryEvaluation",
                    "ResumeOffer", "DiscardableRun"} =>
       co.state = "LoadedActiveRun"
  /\ app.class = "RecoveryEvaluation" => LoadedRun.phase = "Fermenting"
  /\ app.class = "CompletedRun" => LoadedRun.phase = "Completed"
  /\ app.class = "TerminalRunFault" => LoadedRun.phase = "Fault"
  /\ app.disposition = "WaitingForTrustedTime" =>
       /\ op = None /\ co.loaded # None /\ LoadedRun.phase = "Fermenting"
       /\ app.life = "Ready" => co.state = "LoadedActiveRun"

\* The transaction under way
Underway ==
  /\ op.record.snapshot.run = op.after
  /\ op.record.snapshot.at = clock.up
  /\ op.record.epoch = co.epoch
  /\ ValidSnapshot(op.record.snapshot)
  /\ op.after.phase = "Fermenting" => op.record.utc = clock.utc
  /\ op.committed.current = Reference(op.target, op.record)
  /\ HeadSane(op.committed) /\ op.committed.epoch = co.epoch
  /\ op.kind = "Periodic" => op.step # "PreparedHead" /\ op.after = ram
  /\ op.kind \in {"Command", "Transition", "Periodic"} =>
       op.rollback \in {"Ready", "ReadyEmpty"} /\ app.life = "Ready"
  /\ op.kind \in {"Transition", "Periodic"} =>
       op.rollback = "Ready" /\ op.after.id = ram.id
  /\ op.kind \in {"Command", "Transition", "Periodic"} => ram # None
  /\ op.kind \in {"Recover", "Discard"} => op.rollback = "LoadedActiveRun"
  /\ op.kind = "Recover" => op.after.id = LoadedRun.id
  /\ op.kind = "Discard" => ~Active(op.after) /\ ram = None
  /\ op.kind = "Fallback" => op.rollback = "FallbackRecoveryPending"

\* What has been written, or loaded, is not absent.
Present ==
  boot.handoff = "None" =>
    /\ Standing \in {"LoadedActiveRun", "FallbackRecoveryPending"} =>
         flash["rh0"] # Absent /\ {flash["rc0"], flash["rc1"]} # {Absent}
    /\ op # None /\ op.step = "CommittedHead" =>
         {flash["rc0"], flash["rc1"]} # {Absent}

\* The head in the flash is sane, whoever wrote it.
HeadKept ==
  Readable(flash["rh0"]) /\ flash["rh0"].state = "Committed"
    => HeadSane(flash["rh0"])

Structure ==
  /\ TypeOK /\ Steady /\ Modes /\ Waiting
  /\ (op # None => Underway)
  /\ Present /\ HeadKept

-----------------------------------------------------------------------------
(* A transaction begins *)

Kinds ==
  {"Command", "Transition", "Periodic", "Recover", "Discard", "Fallback"}

\* The numbers a counter can reach
LEMMA AfterType ==
  ASSUME NEW n \in Nat
  PROVE  After(n) \in Nat /\ AfterId(n) \in Nat
BY DEF After, AfterId

\* The high water of a request is a number.
LEMMA NewHighWaterType ==
  ASSUME TypeOK, NEW id \in Nat \cup {None},
         co.head # None => co.head \in CommittedHeads
  PROVE  NewHighWater(id) \in Nat
<1>1. co.head # None => co.head.highWater \in Nat
  BY DEF CommittedHeads
<1> QED
  BY <1>1 DEF NewHighWater

\* So is the next head's revision.
LEMMA NextHeadType ==
  ASSUME TypeOK
  PROVE  NextHead(co) \in Nat
<1>1. co.head # None => co.head.revision \in Nat
  BY RunStoreNone DEF TypeOK, Coordinators, Heads, CommittedHeads, PreparedHeads
<1> QED
  BY <1>1, AfterType DEF NextHead

\* The wall time of a record is a number, or unknown.
LEMMA UtcType ==
  ASSUME TypeOK
  PROVE  Utc \in Nat \cup {None}
BY DEF Utc, TypeOK

\* What writeSnapshotCore() puts together is a transaction.
LEMMA TransactionType ==
  ASSUME TypeOK, co.state \in Usable,
         co.head # None => co.head \in CommittedHeads,
         NEW kind \in Kinds, NEW after \in RunStates, NEW ids \in Seq(Nat),
         NEW id \in Nat \cup {None}, NEW target \in {0, 1},
         NEW fallback \in References \cup {None}
  PROVE  \A t : t = Transaction(kind, after, ids, id, target, fallback) =>
         /\ t \in Transactions
         /\ t.kind = kind /\ t.after = after /\ t.target = target
         /\ t.rollback = co.state
         /\ t.step = IF kind = "Periodic" THEN "CheckpointSlot"
                     ELSE "PreparedHead"
         /\ t.record = Checkpoint(co.epoch, co.next, Utc,
                                  Snapshot(after, ids, clock.up))
         /\ t.committed.epoch = co.epoch
         /\ t.committed.current = Reference(target, t.record)
         /\ t.committed.fallback = IF Active(after) THEN fallback ELSE None
         /\ t.committed.highWater = NewHighWater(id)
         /\ t.committed.state = "Committed"
<1> DEFINE record == Checkpoint(co.epoch, co.next, Utc,
                                Snapshot(after, ids, clock.up))
           ref == Reference(target, record)
           first == NextHead(co)
           second == IF kind = "Periodic" THEN first ELSE first + 1
           named == IF Active(after) THEN fallback ELSE None
           water == NewHighWater(id)
           t == Transaction(kind, after, ids, id, target, fallback)
<1>1. record \in Records
  BY UtcType DEF Checkpoint, Snapshot, Records, Snapshots, TypeOK, Coordinators
<1>2. ref \in References
  <2>1. /\ record.epoch = co.epoch /\ record.revision = co.next
        /\ record.snapshot = Snapshot(after, ids, clock.up)
    BY DEF Checkpoint
  <2>2. record.epoch \in Nat /\ record.revision \in Nat
        /\ record.snapshot \in Snapshots
    BY <1>1 DEF Records
  <2> HIDE DEF record
  <2> QED
    BY <2>2 DEF Reference, References
<1>3. first \in Nat /\ second \in Nat /\ water \in Nat /\ co.epoch \in Nat
  <2>1. first \in Nat
    BY NextHeadType
  <2>2. water \in Nat
    BY NewHighWaterType
  <2>3. co.epoch \in Nat
    BY DEF TypeOK, Coordinators
  <2> HIDE DEF first, water
  <2> QED
    BY <2>1, <2>2, <2>3
<1>4. named \in References \cup {None}
  OBVIOUS
<1>5. t = [kind |-> kind, after |-> after, record |-> record,
           target |-> target, rollback |-> co.state,
           step |-> IF kind = "Periodic" THEN "CheckpointSlot"
                    ELSE "PreparedHead",
           prepared |-> PreparedHead(co.epoch, first, ref, water),
           committed |-> CommittedHead(co.epoch, second, ref, named, water)]
  BY Zenon DEF Transaction
<1> HIDE DEF record, ref, first, second, named, water, t
<1>6. PreparedHead(co.epoch, first, ref, water) \in PreparedHeads
  BY <1>2, <1>3 DEF PreparedHead, PreparedHeads
<1>7. CommittedHead(co.epoch, second, ref, named, water) \in CommittedHeads
  BY <1>2, <1>3, <1>4 DEF CommittedHead, CommittedHeads
<1>8. t \in Transactions
  BY <1>1, <1>5, <1>6, <1>7 DEF Transactions, Kinds
<1>9. /\ t.kind = kind /\ t.after = after /\ t.target = target
      /\ t.rollback = co.state /\ t.record = record
      /\ t.step = IF kind = "Periodic" THEN "CheckpointSlot"
                  ELSE "PreparedHead"
      /\ t.committed = CommittedHead(co.epoch, second, ref, named, water)
  BY <1>5
<1>10. /\ t.committed.epoch = co.epoch /\ t.committed.current = ref
       /\ t.committed.fallback = named /\ t.committed.highWater = water
       /\ t.committed.state = "Committed"
  BY <1>9 DEF CommittedHead
<1>11. ref = Reference(target, t.record)
  BY <1>9 DEF ref
<1>12. \A u : u = t =>
         /\ u \in Transactions
         /\ u.kind = kind /\ u.after = after /\ u.target = target
         /\ u.rollback = co.state
         /\ u.step = IF kind = "Periodic" THEN "CheckpointSlot"
                     ELSE "PreparedHead"
         /\ u.record = record
         /\ u.committed.epoch = co.epoch
         /\ u.committed.current = Reference(target, u.record)
         /\ u.committed.fallback = named
         /\ u.committed.highWater = water
         /\ u.committed.state = "Committed"
  BY <1>8, <1>9, <1>10, <1>11
<1> QED
  BY <1>12, Zenon DEF t, record, named, water

\* The runs a command can leave, and the request it answers
CommandFits(after, id) ==
  /\ co.state \in {"Ready", "ReadyEmpty"} /\ app.life = "Ready" /\ ram # None
  /\ \E s \in Surfaces :
       /\ app.requests[s] # None /\ id = app.requests[s].id
       /\ app' = [app EXCEPT !.requests[s] = None]
       /\ \/ /\ ~Active(ram)
             /\ after = Run(app.requests[s].run, "Preheating", clock.up, None)
          \/ Active(ram) /\ after = NoRun(clock.up)
          \/ /\ ram.phase = "Fermenting"
             /\ after = Run(ram.id, "Fermenting", clock.up, 0)

TransitionFits(after) ==
  /\ co.state = "Ready" /\ app.life = "Ready" /\ ram # None
  /\ \E phase \in NextPhases(ram) :
       after = Run(ram.id, phase, clock.up, ram.prior)

PeriodicFits(after) ==
  co.state = "Ready" /\ app.life = "Ready" /\ ram # None /\ after = ram

RecoverFits(after) ==
  /\ co.state = "LoadedActiveRun" /\ LoadedRun.phase = "Fermenting"
  /\ co.loaded # None /\ co.loaded.utc # None
  /\ after = Recovered(co.loaded, FALSE)

DiscardFits(after) ==
  co.state = "LoadedActiveRun" /\ ram = None /\ after = NoRun(clock.up)

FallbackFits(after) ==
  /\ co.state = "FallbackRecoveryPending" /\ app.life = "Ready"
  /\ \/ LoadedRun.phase = "Preheating" /\ after = LoadedRun
     \/ /\ LoadedRun.phase = "Fermenting" /\ co.loaded.utc # None
        /\ after = Recovered(co.loaded, TRUE)

\* What the callers of writeSnapshotCore() give it in which state
BeginFits(kind, after, id, fallback) ==
  /\ kind = "Command" => CommandFits(after, id)
  /\ kind # "Command" =>
       id = None /\ app'.requests = app.requests /\ app'.nextId = app.nextId
  /\ kind = "Transition" => TransitionFits(after)
  /\ kind = "Periodic" => PeriodicFits(after)
  /\ kind = "Recover" => RecoverFits(after)
  /\ kind = "Discard" => DiscardFits(after)
  /\ kind = "Fallback" => FallbackFits(after)
  /\ fallback # None /\ Active(fallback.snapshot.run) /\ Active(after)
       => fallback.snapshot.run.id = after.id

\* A transaction that begins leaves everything else as it is.
Begun(t) ==
  /\ op = None /\ op' = t
  /\ co' = [co EXCEPT !.state = "Busy"]
  /\ app.life \in {"Initializing", "Ready"}
  /\ app' \in Applications
  /\ app'.life = app.life /\ app'.epoch = app.epoch
  /\ app'.fallback = app.fallback
  /\ app'.class = None /\ app'.disposition # "WaitingForTrustedTime"
  /\ flash' = flash /\ boot' = boot /\ ram' = ram /\ clock' = clock
  /\ budget' = budget

\* A caller begins a transaction.
Starts(kind, after, ids, id, target, fallback, t) ==
  /\ co.state \in Usable /\ kind \in Kinds /\ after \in RunStates
  /\ ids \in Seq(Nat) /\ id \in Nat \cup {None} /\ target \in {0, 1}
  /\ fallback \in References \cup {None}
  /\ t = Transaction(kind, after, ids, id, target, fallback)
  /\ Admitted(t, id) /\ BeginFits(kind, after, id, fallback) /\ Begun(t)

StartsSome ==
  \E kind, after, ids, id, target, fallback, t :
    Starts(kind, after, ids, id, target, fallback, t)

\* The fields of a transaction that begins
LEMMA StartsFields ==
  ASSUME Structure, NEW kind, NEW after, NEW ids, NEW id, NEW target,
         NEW fallback, NEW t,
         Starts(kind, after, ids, id, target, fallback, t)
  PROVE  /\ t \in Transactions /\ t # None
         /\ t.kind = kind /\ t.after = after /\ t.target = target
         /\ t.rollback = co.state
         /\ t.step = IF kind = "Periodic" THEN "CheckpointSlot"
                     ELSE "PreparedHead"
         /\ t.record = Checkpoint(co.epoch, co.next, Utc,
                                  Snapshot(after, ids, clock.up))
         /\ t.committed.epoch = co.epoch
         /\ t.committed.current = Reference(target, t.record)
         /\ t.committed.fallback = IF Active(after) THEN fallback ELSE None
         /\ t.committed.highWater = NewHighWater(id)
         /\ t.committed.state = "Committed"
         /\ co.head # None => co.head \in CommittedHeads
<1>1. /\ TypeOK /\ Steady /\ op = None
      /\ co.state \in Usable /\ kind \in Kinds /\ after \in RunStates
      /\ ids \in Seq(Nat) /\ id \in Nat \cup {None} /\ target \in {0, 1}
      /\ fallback \in References \cup {None}
      /\ t = Transaction(kind, after, ids, id, target, fallback)
  BY DEF Structure, Starts, Begun
<1>2. co.head # None => co.head \in CommittedHeads
  BY <1>1 DEF Steady, HeadSane, Standing
<1>3. /\ t \in Transactions
      /\ t.kind = kind /\ t.after = after /\ t.target = target
      /\ t.rollback = co.state
      /\ t.step = IF kind = "Periodic" THEN "CheckpointSlot"
                  ELSE "PreparedHead"
      /\ t.record = Checkpoint(co.epoch, co.next, Utc,
                               Snapshot(after, ids, clock.up))
      /\ t.committed.epoch = co.epoch
      /\ t.committed.current = Reference(target, t.record)
      /\ t.committed.fallback = IF Active(after) THEN fallback ELSE None
      /\ t.committed.highWater = NewHighWater(id)
      /\ t.committed.state = "Committed"
  <2>1. /\ kind \in Kinds /\ after \in RunStates /\ ids \in Seq(Nat)
        /\ id \in Nat \cup {None} /\ target \in {0, 1}
        /\ fallback \in References \cup {None}
    BY <1>1
  <2>2. TypeOK /\ co.state \in Usable
    BY <1>1
  <2>3. t = Transaction(kind, after, ids, id, target, fallback)
    BY <1>1
  <2> QED
    BY <1>2, <2>1, <2>2, <2>3, TransactionType
<1>4. t # None
  BY <1>3, RunStoreNone
<1> QED
  BY <1>2, <1>3, <1>4

\* What is known of the kinds
LEMMA KindFacts ==
  ASSUME Structure, op = None, NEW kind \in Kinds, NEW after, NEW id,
         NEW fallback, BeginFits(kind, after, id, fallback)
  PROVE  /\ kind \in {"Command", "Transition", "Periodic"} =>
              /\ co.state \in {"Ready", "ReadyEmpty"} /\ app.life = "Ready"
              /\ ram # None
         /\ kind \in {"Transition", "Periodic"} =>
              co.state = "Ready" /\ after.id = ram.id
         /\ kind = "Periodic" => after = ram
         /\ kind \in {"Recover", "Discard"} => co.state = "LoadedActiveRun"
         /\ kind = "Recover" => after.id = LoadedRun.id
         /\ kind = "Discard" => ~Active(after) /\ ram = None
         /\ kind = "Fallback" => co.state = "FallbackRecoveryPending"
<1>1. CASE kind = "Command"
  BY <1>1 DEF BeginFits, CommandFits
<1>2. CASE kind = "Transition"
  BY <1>2 DEF BeginFits, TransitionFits, Run
<1>3. CASE kind = "Periodic"
  BY <1>3 DEF BeginFits, PeriodicFits
<1>4. CASE kind = "Recover"
  BY <1>4 DEF BeginFits, RecoverFits, Recovered, Run, LoadedRun
<1>5. CASE kind = "Discard"
  BY <1>5 DEF BeginFits, DiscardFits, NoRun, Run, Active
<1>6. CASE kind = "Fallback"
  BY <1>6 DEF BeginFits, FallbackFits
<1> QED
  BY <1>1, <1>2, <1>3, <1>4, <1>5, <1>6 DEF Kinds

\* A transaction that begins keeps the structure.
LEMMA StartsStructure ==
  ASSUME Structure, NEW kind, NEW after, NEW ids, NEW id, NEW target,
         NEW fallback, NEW t,
         Starts(kind, after, ids, id, target, fallback, t)
  PROVE  Structure'
<1>1. /\ TypeOK /\ Steady /\ Modes /\ Waiting /\ Present /\ HeadKept
      /\ op = None /\ op' = t
      /\ co' = [co EXCEPT !.state = "Busy"]
      /\ flash' = flash /\ boot' = boot /\ ram' = ram /\ clock' = clock
  BY DEF Structure, Starts, Begun
<1>2. Standing = co.state
  BY <1>1 DEF Standing
<1>4. /\ t \in Transactions /\ t # None
      /\ t.kind = kind /\ t.after = after /\ t.target = target
      /\ t.rollback = co.state
      /\ t.step = IF kind = "Periodic" THEN "CheckpointSlot"
                  ELSE "PreparedHead"
      /\ t.record = Checkpoint(co.epoch, co.next, Utc,
                               Snapshot(after, ids, clock.up))
      /\ t.committed.epoch = co.epoch
      /\ t.committed.current = Reference(target, t.record)
      /\ t.committed.fallback = IF Active(after) THEN fallback ELSE None
  BY StartsFields
<1>5. /\ kind \in {"Command", "Transition", "Periodic"} =>
           /\ co.state \in {"Ready", "ReadyEmpty"} /\ app.life = "Ready"
           /\ ram # None
      /\ kind \in {"Transition", "Periodic"} =>
           co.state = "Ready" /\ after.id = ram.id
      /\ kind = "Periodic" => after = ram
      /\ kind \in {"Recover", "Discard"} => co.state = "LoadedActiveRun"
      /\ kind = "Recover" => after.id = LoadedRun.id
      /\ kind = "Discard" => ~Active(after) /\ ram = None
      /\ kind = "Fallback" => co.state = "FallbackRecoveryPending"
  BY <1>1, KindFacts DEF Starts
<1>6. co' \in Coordinators
  BY <1>1 DEF TypeOK, Coordinators
<1>7. /\ co'.state = "Busy" /\ co'.epoch = co.epoch /\ co'.head = co.head
      /\ co'.loaded = co.loaded
  BY <1>1 DEF TypeOK, Coordinators
<1>8. Standing' = Standing
  BY <1>1, <1>2, <1>4 DEF Standing
<1>9. CurrentRun' = CurrentRun /\ LoadedRun' = LoadedRun
  BY <1>7 DEF CurrentRun, LoadedRun
<1>10. TypeOK'
  <2>1. app' \in Applications /\ budget' = budget
    BY DEF Starts, Begun
  <2> QED
    BY <1>1, <1>4, <1>6, <2>1 DEF TypeOK
<1>11. Steady'
  BY <1>1, <1>7, <1>8, <1>9 DEF Steady
<1>12. /\ app'.life = app.life /\ app'.epoch = app.epoch
       /\ app'.fallback = app.fallback
       /\ app'.class = None /\ app'.disposition # "WaitingForTrustedTime"
       /\ app.life \in {"Initializing", "Ready"}
  BY DEF Starts, Begun
<1>13. Modes'
  <2>1. app.fallback # None => kind = "Fallback"
    BY <1>1, <1>5 DEF Modes, Starts, Kinds
  <2>2. None \notin Classes
    BY RunStoreNone
  <2> QED
    BY <1>1, <1>4, <1>7, <1>9, <1>12, <2>1 DEF Modes
<1>14. Waiting'
  BY <1>12, RunStoreNone DEF Waiting, Classes
<1>15. Underway'
  <2>1. /\ t.record.snapshot.run = after
        /\ t.record.snapshot.at = clock.up
        /\ t.record.epoch = co.epoch
        /\ t.record.utc = Utc
    BY <1>4 DEF Checkpoint, Snapshot
  <2>2. t.committed.current.snapshot.run = after
    BY <1>4, <2>1 DEF Reference
  <2>3. /\ ValidSnapshot(t.record.snapshot) /\ ValidHead(t.committed)
        /\ after.phase = "Fermenting" => Utc = clock.utc
    BY <1>4 DEF Starts, Admitted, Utc
  <2>4. t.committed \in CommittedHeads
    BY <1>4 DEF Transactions
  <2>5. t.committed.fallback # None
          /\ Active(t.committed.fallback.snapshot.run)
          => t.committed.fallback.snapshot.run.id = after.id
    BY <1>4 DEF Starts, BeginFits
  <2>6. HeadSane(t.committed)
    BY <2>2, <2>3, <2>4, <2>5 DEF HeadSane
  <2>7. kind = "Periodic" => t.step # "PreparedHead"
    BY <1>4
  <2> QED
    BY <1>1, <1>4, <1>5, <1>7, <1>9, <1>12, <2>1, <2>3, <2>6, <2>7
    DEF Underway
<1>16. Present'
  <2>1. t.step # "CommittedHead"
    BY <1>4
  <2> QED
    BY <1>1, <1>8, <2>1 DEF Present
<1>17. HeadKept'
  BY <1>1 DEF HeadKept
<1> QED
  BY <1>10, <1>11, <1>13, <1>14, <1>15, <1>16, <1>17 DEF Structure

\* The runs that are written are runs.
LEMMA RunType ==
  ASSUME NEW id \in RunIds \cup {None}, NEW entered \in Nat,
         NEW phase \in Phases \cup {"Standby", "RecoveryEvaluation"},
         NEW earlier \in Int \cup {None}
  PROVE  /\ Run(id, phase, entered, earlier) \in RunStates
         /\ NoRun(entered) \in RunStates
BY DEF Run, NoRun, RunStates

\* A recovery gives a run of its kind.
LEMMA RecoveredType ==
  ASSUME TypeOK, NEW record \in Records, record.utc # None,
         NEW ending \in BOOLEAN
  PROVE  Recovered(record, ending) \in RunStates
<1> DEFINE r == record.snapshot.run
<1>1. /\ r \in RunStates /\ record.snapshot.at \in Nat /\ record.utc \in Nat
      /\ clock.utc \in Nat /\ clock.up \in Nat
  BY DEF TypeOK, Records, Snapshots
<1>2. r.id \in RunIds \cup {None} /\ r.entered \in Nat
      /\ r.prior \in Int \cup {None}
  BY <1>1 DEF RunStates
<1>3. RecoveredTime(record) \in Int
  <2>1. (IF r.prior = None THEN 0 ELSE r.prior) \in Int
    BY <1>2
  <2>2. RecoveredTime(record) =
          (IF r.prior = None THEN 0 ELSE r.prior)
            + (record.snapshot.at - r.entered) + (clock.utc - record.utc)
    BY DEF RecoveredTime
  <2> HIDE DEF r
  <2> QED
    BY <1>1, <1>2, <2>1, <2>2
<1>4. Recovered(record, ending) \in
        {Run(r.id, "Fermenting", clock.up, RecoveredTime(record)),
         NoRun(clock.up), Run(r.id, "Completed", clock.up, None)}
  BY DEF Recovered
<1> HIDE DEF r
<1> QED
  <2>1. /\ Run(r.id, "Fermenting", clock.up, RecoveredTime(record))
             \in RunStates
        /\ NoRun(clock.up) \in RunStates
    BY <1>1, <1>2, <1>3, RunType DEF Phases
  <2>2. Run(r.id, "Completed", clock.up, None) \in RunStates
    BY <1>1, <1>2, RunType DEF Phases
  <2> QED
    BY <1>4, <2>1, <2>2

\* The processed command ids stay a sequence of numbers.
LEMMA RememberType ==
  ASSUME NEW ids \in Seq(Nat), NEW id \in Nat
  PROVE  Remember(ids, id) \in Seq(Nat)
<1>1. CASE Len(ids) < IdWindow
  BY <1>1 DEF Remember
<1>2. CASE ~(Len(ids) < IdWindow)
  <2>1. Len(ids) > 0
    BY <1>2, RunStoreConstants
  <2>2. Tail(ids) \in Seq(Nat)
    BY <2>1
  <2> QED
    BY <1>2, <2>2 DEF Remember
<1> QED
  BY <1>1, <1>2

\* The fallback and the slot of a standard transaction
LEMMA StandardFacts ==
  ASSUME TypeOK, Steady, op = None, co.state \in Usable
  PROVE  /\ StandardFallback \in References \cup {None}
         /\ OtherSlot \in {0, 1}
         /\ co.head # None => StandardFallback = co.head.current
         /\ co.head = None => StandardFallback = None
         /\ co.ids \in Seq(Nat)
<1>1. co.head # None => co.head.current \in References
  BY DEF Steady, HeadSane, Standing, CommittedHeads
<1>2. co.head # None => co.head.current.slot \in {0, 1}
  BY <1>1 DEF References
<1>3. co.ids \in Seq(Nat)
  BY DEF TypeOK, Coordinators
<1> QED
  BY <1>1, <1>2, <1>3 DEF StandardFallback, OtherSlot

\* A confirmed request begins its transaction or is refused.
LEMMA ConfirmCases ==
  ASSUME Structure, NEW s \in Surfaces, Confirm(s)
  PROVE  \/ StartsSome
         \/ /\ app' = [app EXCEPT !.requests[s] = None]
            /\ UNCHANGED <<flash, boot, co, op, ram, clock, budget>>
<1> DEFINE request == app.requests[s]
<1>1. /\ op = None /\ app.life = "Ready" /\ request # None
      /\ app' = [app EXCEPT !.requests[s] = None]
      /\ UNCHANGED <<flash, boot, ram, clock, budget>>
  BY DEF Confirm, Serving, Idle
<1>2. SUFFICES ASSUME ~UNCHANGED <<co, op>>
               PROVE  StartsSome
  BY <1>1
<1>3. PICK after \in IF ram = None THEN {} ELSE CommandOutcomes(request) :
        LET t == Transaction("Command", after, Remember(co.ids, request.id),
                             request.id, OtherSlot, StandardFallback)
        IN  Accepting /\ Admitted(t, request.id) /\ Begin(t)
  BY <1>2 DEF Confirm
<1>4. /\ TypeOK /\ Steady /\ Modes
      /\ co.state \in {"Ready", "ReadyEmpty"} /\ co.state \in Usable
      /\ Standing = co.state
  BY <1>1, <1>3 DEF Structure, Accepting, Usable, Standing
<1>5. request \in Requests /\ request.id \in Nat /\ request.run \in RunIds
  <2>1. app.requests[s] \in Requests \cup {None}
    BY <1>4 DEF TypeOK, Applications
  <2> QED
    BY <1>1, <2>1 DEF Requests
<1>6. ram # None /\ ram \in RunStates /\ after \in CommandOutcomes(request)
  BY <1>3, <1>4 DEF TypeOK
<1>7. /\ ram.id \in RunIds \cup {None} /\ clock.up \in Nat
      /\ 0 \in Int
  BY <1>4, <1>6 DEF RunStates, TypeOK
<1>8. \/ ~Active(ram) /\ after = Run(request.run, "Preheating", clock.up, None)
      \/ Active(ram) /\ after = NoRun(clock.up)
      \/ /\ ram.phase = "Fermenting"
         /\ after = Run(ram.id, "Fermenting", clock.up, 0)
  BY <1>6 DEF CommandOutcomes
<1>9. after \in RunStates
  BY <1>5, <1>7, <1>8, RunType DEF Phases
<1>10. CommandFits(after, request.id)
  BY <1>1, <1>4, <1>6, <1>8 DEF CommandFits
<1>11. /\ StandardFallback \in References \cup {None}
       /\ OtherSlot \in {0, 1}
       /\ co.head # None => StandardFallback = co.head.current
       /\ co.head = None => StandardFallback = None
       /\ Remember(co.ids, request.id) \in Seq(Nat)
  BY <1>1, <1>4, <1>5, StandardFacts, RememberType
<1>12. StandardFallback # None /\ Active(StandardFallback.snapshot.run)
         /\ Active(after) => StandardFallback.snapshot.run.id = after.id
  <2> SUFFICES ASSUME StandardFallback # None, Active(CurrentRun),
                      Active(after), co.head # None,
                      StandardFallback = co.head.current
               PROVE  CurrentRun.id = after.id
    BY <1>11 DEF CurrentRun
  <2>1. co.state = "Ready"
    BY <1>4 DEF Steady
  <2>2. Active(ram) /\ ram.id = CurrentRun.id
    BY <1>4, <2>1 DEF Steady, Active
  <2> QED
    BY <1>8, <2>2 DEF Active, NoRun, Run
<1>13. BeginFits("Command", after, request.id, StandardFallback)
  BY <1>10, <1>12 DEF BeginFits
<1>14. app' \in Applications
  BY <1>1, <1>4 DEF TypeOK, Applications
<1>15. /\ app'.life = app.life /\ app'.epoch = app.epoch
       /\ app'.fallback = app.fallback /\ app'.class = app.class
       /\ app'.disposition = app.disposition
  BY <1>1, <1>4 DEF TypeOK, Applications
<1>16. app.class = None /\ app.disposition # "WaitingForTrustedTime"
  BY <1>1, <1>4 DEF Structure, Modes, Waiting
<1> DEFINE t == Transaction("Command", after, Remember(co.ids, request.id),
                            request.id, OtherSlot, StandardFallback)
<1>17. Admitted(t, request.id) /\ op' = t /\ co' = [co EXCEPT !.state = "Busy"]
  BY <1>3 DEF Begin
<1>18. Begun(t)
  BY <1>1, <1>14, <1>15, <1>16, <1>17 DEF Begun
<1>19. Starts("Command", after, Remember(co.ids, request.id), request.id,
              OtherSlot, StandardFallback, t)
  BY <1>4, <1>5, <1>9, <1>11, <1>13, <1>17, <1>18 DEF Starts, Kinds
<1> QED
  BY <1>19 DEF StartsSome

\* A transition of the process begins its transaction.
LEMMA TransitionStarts ==
  ASSUME Structure, PersistTransition
  PROVE  StartsSome
<1>1. /\ op = None /\ app.life = "Ready" /\ co.state = "Ready"
      /\ UNCHANGED <<flash, boot, app, ram, clock, budget>>
  BY DEF PersistTransition, Serving, Idle
<1>2. PICK phase \in NextPhases(ram) :
        LET t == Transaction("Transition",
                   Run(ram.id, phase, clock.up, ram.prior), co.ids, None,
                   OtherSlot, StandardFallback)
        IN  Admitted(t, None) /\ Begin(t)
  BY DEF PersistTransition
<1> DEFINE after == Run(ram.id, phase, clock.up, ram.prior)
           t == Transaction("Transition", after, co.ids, None, OtherSlot,
                            StandardFallback)
<1>3. Admitted(t, None) /\ op' = t /\ co' = [co EXCEPT !.state = "Busy"]
  BY <1>2 DEF Begin
<1>4. /\ TypeOK /\ Steady /\ Modes /\ co.state \in Usable
      /\ Standing = co.state
  BY <1>1 DEF Structure, Usable, Standing
<1>5. /\ ram # None /\ ram \in RunStates /\ clock.up \in Nat
      /\ co.head # None /\ Active(CurrentRun) /\ ram.id = CurrentRun.id
  BY <1>1, <1>4 DEF Steady, TypeOK, Usable
<1>6. phase \in Phases
  BY DEF NextPhases, Phases
<1>7. after \in RunStates /\ after.id = ram.id
  <2>1. /\ ram.id \in RunIds \cup {None}
        /\ ram.prior \in Int \cup {None}
    BY <1>5 DEF RunStates
  <2>2. after \in RunStates
    BY <1>5, <1>6, <2>1, RunType
  <2> QED
    BY <2>2 DEF Run
<1>8. TransitionFits(after)
  BY <1>1, <1>5 DEF TransitionFits
<1>9. /\ StandardFallback \in References \cup {None}
      /\ OtherSlot \in {0, 1} /\ co.ids \in Seq(Nat)
      /\ StandardFallback = co.head.current
  BY <1>1, <1>4, <1>5, StandardFacts
<1>10. BeginFits("Transition", after, None, StandardFallback)
  BY <1>1, <1>5, <1>7, <1>8, <1>9 DEF BeginFits, CurrentRun
<1>11. /\ app \in Applications /\ app.class = None
       /\ app.disposition # "WaitingForTrustedTime"
  BY <1>1, <1>4 DEF Structure, TypeOK, Modes, Waiting
<1> HIDE DEF after, t
<1>12. Begun(t)
  BY <1>1, <1>3, <1>11 DEF Begun
<1>13. Starts("Transition", after, co.ids, None, OtherSlot, StandardFallback,
              t)
  BY <1>3, <1>4, <1>7, <1>9, <1>10, <1>12 DEF Starts, Kinds, t
<1> QED
  BY <1>13 DEF StartsSome

\* So does a periodic checkpoint.
LEMMA PeriodicStarts ==
  ASSUME Structure, CheckpointPeriodic
  PROVE  StartsSome
<1> DEFINE t == Transaction("Periodic", ram, co.ids, None, OtherSlot,
                            StandardFallback)
<1>1. /\ op = None /\ app.life = "Ready" /\ co.state = "Ready"
      /\ UNCHANGED <<flash, boot, app, ram, clock, budget>>
      /\ Admitted(t, None) /\ op' = t /\ co' = [co EXCEPT !.state = "Busy"]
  BY DEF CheckpointPeriodic, Serving, Idle, Begin
<1>2. /\ TypeOK /\ Steady /\ Modes /\ co.state \in Usable
      /\ Standing = co.state
  BY <1>1 DEF Structure, Usable, Standing
<1>3. /\ ram # None /\ ram \in RunStates
      /\ co.head # None /\ Active(CurrentRun) /\ ram.id = CurrentRun.id
  BY <1>1, <1>2 DEF Steady, TypeOK, Usable
<1>4. /\ StandardFallback \in References \cup {None}
      /\ OtherSlot \in {0, 1} /\ co.ids \in Seq(Nat)
      /\ StandardFallback = co.head.current
  BY <1>1, <1>2, <1>3, StandardFacts
<1>5. PeriodicFits(ram)
  BY <1>1, <1>3 DEF PeriodicFits
<1>6. BeginFits("Periodic", ram, None, StandardFallback)
  BY <1>1, <1>3, <1>4, <1>5 DEF BeginFits, CurrentRun
<1>7. /\ app \in Applications /\ app.class = None
      /\ app.disposition # "WaitingForTrustedTime"
  BY <1>1, <1>2 DEF Structure, TypeOK, Modes, Waiting
<1> HIDE DEF t
<1>8. Begun(t)
  BY <1>1, <1>7 DEF Begun
<1>9. Starts("Periodic", ram, co.ids, None, OtherSlot, StandardFallback, t)
  BY <1>1, <1>2, <1>3, <1>4, <1>6, <1>8 DEF Starts, Kinds, t
<1> QED
  BY <1>9 DEF StartsSome

\* The evaluation of a loaded fermentation begins to store it, waits for
\* trusted time or rejects it.
LEMMA EvaluateCases ==
  ASSUME Structure, EvaluateRecovery, op = None, boot.handoff = "None",
         app.life \in {"Initializing", "Ready"},
         \/ app.class = "RecoveryEvaluation"
         \/ app.life = "Ready" /\ app.disposition = "WaitingForTrustedTime",
         UNCHANGED <<flash, boot, clock, budget>>
  PROVE  /\ co.state = "LoadedActiveRun" /\ co.loaded # None
         /\ LoadedRun.phase = "Fermenting" /\ co.head # None
         /\ StartsSome \/ RejectRecovery \/ AwaitTrustedTime
<1> DEFINE after == Recovered(co.loaded, FALSE)
           t == Transaction("Recover", after, co.ids, None, OtherSlot,
                            StandardFallback)
<1>1. /\ TypeOK /\ Steady /\ Modes /\ Waiting /\ Standing = co.state
  BY DEF Structure, Standing
<1>2. co.state = "LoadedActiveRun" /\ LoadedRun.phase = "Fermenting"
  <2>1. CASE app.class = "RecoveryEvaluation"
    BY <1>1, <2>1 DEF Waiting
  <2>2. CASE app.class # "RecoveryEvaluation"
    BY <1>1, <2>2 DEF Waiting
  <2> QED
    BY <2>1, <2>2
<1>3. /\ co.head # None /\ co.loaded # None
      /\ co.loaded \in Records /\ LoadedRun.id = CurrentRun.id
  BY <1>1, <1>2 DEF Steady, Usable, TypeOK, Coordinators
<1>4. CASE RejectRecovery \/ AwaitTrustedTime
  BY <1>2, <1>3, <1>4
<1>5. CASE ~(RejectRecovery \/ AwaitTrustedTime)
  <2>1. /\ Begin(t) /\ Admitted(t, None) /\ co.loaded.utc # None
        /\ app' = [app EXCEPT !.class = None, !.disposition = None]
        /\ ram' = ram
    BY <1>5, Zenon DEF EvaluateRecovery
  <2>2. after \in RunStates
    BY <1>1, <1>3, <2>1, RecoveredType
  <2>3. RecoverFits(after)
    BY <1>2, <1>3, <2>1 DEF RecoverFits
  <2>4. co.state \in Usable
    BY <1>2 DEF Usable
  <2>5. /\ StandardFallback \in References \cup {None}
        /\ OtherSlot \in {0, 1} /\ co.ids \in Seq(Nat)
        /\ StandardFallback = co.head.current
    BY <1>1, <1>3, <2>4, StandardFacts
  <2>6. /\ app' \in Applications /\ app'.life = app.life
        /\ app'.epoch = app.epoch /\ app'.fallback = app.fallback
        /\ app'.class = None /\ app'.disposition = None
        /\ app'.requests = app.requests /\ app'.nextId = app.nextId
    BY <1>1, <2>1 DEF TypeOK, Applications
  <2>7. app'.disposition # "WaitingForTrustedTime"
    BY <2>6, RunStoreNone DEF Dispositions
  <2>8. after.id = LoadedRun.id \/ ~Active(after)
    BY DEF Recovered, Run, NoRun, Active, LoadedRun
  <2>9. BeginFits("Recover", after, None, StandardFallback)
    BY <1>3, <2>3, <2>5, <2>6, <2>8 DEF BeginFits, CurrentRun
  <2> HIDE DEF after
  <2>10. Begun(t)
    BY <2>1, <2>6, <2>7 DEF Begun, Begin
  <2>11. Starts("Recover", after, co.ids, None, OtherSlot, StandardFallback,
                t)
    BY <2>1, <2>2, <2>4, <2>5, <2>9, <2>10 DEF Starts, Kinds
  <2> QED
    BY <1>2, <1>3, <2>11 DEF StartsSome
<1> QED
  BY <1>4, <1>5

\* The fallback that was chosen begins its transaction.
LEMMA FallbackStarts ==
  ASSUME Structure, ResumeFallback
  PROVE  StartsSome
<1> DEFINE after == IF LoadedRun.phase = "Fermenting"
                    THEN Recovered(co.loaded, TRUE) ELSE LoadedRun
           t == Transaction("Fallback", after, co.ids, None,
                            co.head.current.slot, co.head.fallback)
<1>1. /\ op = None /\ app.life = "Ready" /\ app.fallback # None
      /\ co.state = "FallbackRecoveryPending"
      /\ UNCHANGED <<flash, boot, app, ram, clock, budget>>
      /\ StillAsLoaded(co.head.fallback)
      /\ \/ LoadedRun.phase = "Preheating"
         \/ LoadedRun.phase = "Fermenting" /\ co.loaded.utc # None
      /\ Admitted(t, None) /\ op' = t /\ co' = [co EXCEPT !.state = "Busy"]
  BY DEF ResumeFallback, Serving, Idle, Begin, LoadedRun
<1>2. /\ TypeOK /\ Steady /\ Modes /\ co.state \in Usable
      /\ Standing = co.state
  BY <1>1 DEF Structure, Usable, Standing
<1>3. /\ co.head # None /\ Active(CurrentRun) /\ co.loaded # None
      /\ LoadedRun.id = CurrentRun.id /\ HeadSane(co.head)
      /\ co.head.fallback # None /\ Active(co.head.fallback.snapshot.run)
  BY <1>1, <1>2 DEF Steady, Usable, StillAsLoaded
<1>4. /\ co.loaded \in Records /\ LoadedRun \in RunStates
      /\ co.ids \in Seq(Nat)
  BY <1>2, <1>3 DEF TypeOK, Coordinators, Records, Snapshots, LoadedRun
<1>5. /\ co.head.current.slot \in {0, 1}
      /\ co.head.fallback \in References \cup {None}
      /\ co.head.fallback.snapshot.run.id = CurrentRun.id
  BY <1>3 DEF HeadSane, CommittedHeads, References, CurrentRun
<1>6. after \in RunStates
  BY <1>1, <1>2, <1>4, RecoveredType
<1>7. FallbackFits(after)
  BY <1>1 DEF FallbackFits
<1>8. after.id = LoadedRun.id \/ ~Active(after)
  BY DEF Recovered, Run, NoRun, Active, LoadedRun
<1>9. BeginFits("Fallback", after, None, co.head.fallback)
  BY <1>1, <1>3, <1>5, <1>7, <1>8 DEF BeginFits
<1>10. /\ app \in Applications /\ app.class = None
       /\ app.disposition # "WaitingForTrustedTime"
  BY <1>1, <1>2 DEF Structure, TypeOK, Modes, Waiting
<1> HIDE DEF after, t
<1>11. Begun(t)
  BY <1>1, <1>10 DEF Begun
<1>12. Starts("Fallback", after, co.ids, None, co.head.current.slot,
              co.head.fallback, t)
  BY <1>1, <1>2, <1>4, <1>5, <1>6, <1>9, <1>11 DEF Starts, Kinds, t
<1> QED
  BY <1>12 DEF StartsSome

\* A run no boot resumes is discarded by a transaction or left for service.
LEMMA DiscardCases ==
  ASSUME Structure, DiscardRun, op = None, boot.handoff = "None", ram = None,
         app.life = "Initializing", app.class = "DiscardableRun",
         UNCHANGED <<flash, boot, clock, budget>>
  PROVE  \/ StartsSome
         \/ /\ app' = [app EXCEPT !.life = "ServiceRequired", !.class = None]
            /\ UNCHANGED <<co, op, ram>>
<1> DEFINE after == NoRun(clock.up)
           t == Transaction("Discard", after, co.ids, None, OtherSlot, None)
<1>1. /\ TypeOK /\ Steady /\ Modes /\ Waiting /\ Standing = co.state
  BY DEF Structure, Standing
<1>2. co.state = "LoadedActiveRun" /\ co.state \in Usable
  BY <1>1 DEF Waiting, Usable
<1>3. CASE ~Admitted(t, None)
  BY <1>3 DEF DiscardRun
<1>4. CASE Admitted(t, None)
  <2>1. /\ op' = t /\ co' = [co EXCEPT !.state = "Busy"]
        /\ app' = [app EXCEPT !.class = None] /\ ram' = ram
    BY <1>4 DEF DiscardRun, Begin
  <2>2. after \in RunStates
    <3>1. None \in Int \cup {None} /\ None \in RunIds \cup {None}
          /\ clock.up \in Nat
      BY <1>1 DEF TypeOK
    <3> QED
      BY <3>1, RunType DEF Phases
  <2>3. OtherSlot \in {0, 1} /\ co.ids \in Seq(Nat)
    BY <1>1, <1>2, StandardFacts
  <2>4. /\ app' \in Applications /\ app'.life = app.life
        /\ app'.epoch = app.epoch /\ app'.fallback = app.fallback
        /\ app'.class = None /\ app'.disposition = app.disposition
        /\ app'.requests = app.requests /\ app'.nextId = app.nextId
    BY <1>1, <2>1 DEF TypeOK, Applications
  <2>5. app'.disposition # "WaitingForTrustedTime"
    <3>1. app.class # None
      BY RunStoreNone DEF Classes
    <3> QED
      BY <1>1, <2>4, <3>1, RunStoreNone DEF Waiting, Dispositions
  <2>6. BeginFits("Discard", after, None, None)
    BY <1>2, <2>4 DEF BeginFits, DiscardFits
  <2> HIDE DEF after
  <2>7. Begun(t)
    BY <2>1, <2>4, <2>5 DEF Begun
  <2>8. Starts("Discard", after, co.ids, None, OtherSlot, None, t)
    BY <1>2, <1>4, <2>2, <2>3, <2>6, <2>7 DEF Starts, Kinds
  <2> QED
    BY <2>8 DEF StartsSome
<1> QED
  BY <1>3, <1>4

-----------------------------------------------------------------------------
(* What loadAndInitializeInto() finds *)

\* A load is blocked, empty, or names records of the head it has read.
LoadSound(load, epoch) ==
  /\ load.state \in {"ReadyEmpty", "LoadedActiveRun", "BlockedIndeterminate",
                     "FallbackRecoveryPending"}
  /\ load.head \in Heads \cup {None} /\ load.record \in Records \cup {None}
  /\ load.next \in Nat
  /\ load.status \in {"NoPersistedRun", "NoActiveRun"} =>
       load.state = "ReadyEmpty"
  /\ load.status = "Current" => load.state = "LoadedActiveRun"
  /\ load.status = "FallbackRecovered" =>
       load.state = "FallbackRecoveryPending"
  /\ load.state \in Usable /\ load.head # None =>
       /\ load.head = flash["rh0"] /\ load.head.epoch = epoch
       /\ load.head.state = "Committed" /\ HeadSane(load.head)
  /\ load.state \in Usable /\ load.head = None =>
       /\ load.state = "ReadyEmpty"
       /\ flash["rh0"] = Absent /\ flash["rc0"] = Absent
       /\ flash["rc1"] = Absent
  /\ load.record # None =>
       load.record \in {flash["rc0"], flash["rc1"]} /\ load.head # None
       /\ load.state \in Usable
  /\ load.state = "ReadyEmpty" /\ load.head # None =>
       /\ load.record # None /\ ~Active(load.record.snapshot.run)
       /\ load.record.snapshot = load.head.current.snapshot
  /\ load.state = "LoadedActiveRun" =>
       /\ load.head # None
       /\ load.record # None /\ Active(load.record.snapshot.run)
       /\ load.record.snapshot = load.head.current.snapshot
  /\ load.state = "FallbackRecoveryPending" =>
       /\ load.head # None /\ load.head.fallback # None
       /\ load.record # None /\ Active(load.record.snapshot.run)
       /\ load.record.snapshot = load.head.fallback.snapshot

\* A blocked load names nothing.
LEMMA BlockedSound ==
  ASSUME NEW epoch, NEW status, NEW head \in Heads \cup {None},
         status \notin {"NoPersistedRun", "NoActiveRun", "Current",
                        "FallbackRecovered"}
  PROVE  LoadSound(Blocked(status, head), epoch)
BY DEF Blocked, Loaded, LoadSound, Usable

\* The fields of what a load returns
LEMMA LoadedFields ==
  ASSUME NEW status, NEW state, NEW head, NEW record, NEW next
  PROVE  LET l == Loaded(status, state, head, record, next) IN
         /\ l.status = status /\ l.state = state /\ l.head = head
         /\ l.record = record /\ l.next = next
BY DEF Loaded

\* The revision after the highest readable one is a number.
LEMMA HighestAfterType ==
  ASSUME NEW a \in Nat, NEW b \in Nat
  PROVE  HighestAfter({a, b}) \in Nat /\ HighestAfter({a}) \in Nat
<1>1. Max({a, b}) \in Nat
  <2>1. \E x \in {a, b} : \A y \in {a, b} : x >= y
    <3>1. CASE a >= b
      BY <3>1
    <3>2. CASE ~(a >= b)
      BY <3>2
    <3> QED
      BY <3>1, <3>2
  <2>2. Max({a, b}) \in {a, b}
    BY <2>1 DEF Max
  <2> QED
    BY <2>2
<1>2. Max({a}) \in Nat
  <2>1. \E x \in {a} : \A y \in {a} : x >= y
    OBVIOUS
  <2>2. Max({a}) \in {a}
    BY <2>1 DEF Max
  <2> QED
    BY <2>2
<1> QED
  BY <1>1, <1>2 DEF HighestAfter

\* loadReference(): what loads is what the head names.
LEMMA LoadableFacts ==
  ASSUME TypeOK, NEW epoch, NEW ref \in References,
         Loadable(flash, epoch, ref)
  PROVE  LET v == flash[SlotKey(ref.slot)] IN
         /\ v \in Records /\ v # None /\ v \in {flash["rc0"], flash["rc1"]}
         /\ v.epoch = epoch /\ v.snapshot = ref.snapshot
         /\ v.revision \in Nat
<1> DEFINE v == flash[SlotKey(ref.slot)]
<1>1. ref.slot \in {0, 1}
  BY DEF References
<1>2. SlotKey(ref.slot) \in {"rc0", "rc1"}
  BY <1>1 DEF SlotKey
<1>3. Readable(v) /\ v.epoch = epoch /\ Reference(ref.slot, v) = ref
  BY DEF Loadable
<1>4. v \in Records /\ v \in {flash["rc0"], flash["rc1"]}
  BY <1>2, <1>3 DEF TypeOK, Readable
<1>5. Reference(ref.slot, v).snapshot = v.snapshot
  BY DEF Reference
<1>6. v.snapshot = ref.snapshot
  BY <1>3, <1>5
<1>7. v.revision \in Nat /\ v # None
  BY <1>4, RunStoreNone DEF Records
<1> QED
  BY <1>3, <1>4, <1>6, <1>7

\* The head named a record that loads.
LEMMA LoadCurrentSound ==
  ASSUME TypeOK, NEW epoch, NEW head \in CommittedHeads,
         head = flash["rh0"], head.epoch = epoch, HeadSane(head),
         Loadable(flash, epoch, head.current)
  PROVE  LoadSound(LoadCurrent(flash, epoch, head), epoch)
<1> DEFINE record == flash[SlotKey(head.current.slot)]
           other == flash[SlotKey(1 - head.current.slot)]
           next == HighestAfter({record.revision}
                     \cup IF other = Absent THEN {} ELSE {other.revision})
<1>1. head.current \in References /\ head.current.slot \in {0, 1}
  BY DEF CommittedHeads, References
<1>2. /\ record \in Records /\ record # None
      /\ record \in {flash["rc0"], flash["rc1"]}
      /\ record.snapshot = head.current.snapshot /\ record.revision \in Nat
  BY <1>1, LoadableFacts
<1>3. other \in Records \cup {Absent, Corrupt}
  BY <1>1 DEF SlotKey, TypeOK
<1>4. CASE other = Corrupt \/ (other # Absent /\ other.epoch # epoch)
  <2>1. LoadCurrent(flash, epoch, head) = Blocked("NotReconstructible", head)
    BY <1>4 DEF LoadCurrent
  <2> QED
    BY <2>1, BlockedSound DEF Heads
<1>5. CASE ~(other = Corrupt \/ (other # Absent /\ other.epoch # epoch))
  <2>1. next \in Nat
    <3>1. CASE other = Absent
      <4>1. {record.revision} \cup {} = {record.revision}
        OBVIOUS
      <4> QED
        BY <1>2, <3>1, <4>1, HighestAfterType
    <3>2. CASE other # Absent
      <4>1. other.revision \in Nat
        BY <1>3, <1>5, <3>2 DEF Records
      <4>2. {record.revision} \cup {other.revision} =
              {record.revision, other.revision}
        OBVIOUS
      <4> QED
        BY <1>2, <3>2, <4>1, <4>2, HighestAfterType
    <3> QED
      BY <3>1, <3>2
  <2>2. LoadCurrent(flash, epoch, head) =
          IF Active(record.snapshot.run)
          THEN Loaded("Current", "LoadedActiveRun", head, record, next)
          ELSE Loaded("NoActiveRun", "ReadyEmpty", head, record, next)
    BY <1>5 DEF LoadCurrent
  <2>3. head \in Heads /\ head # None /\ head.state = "Committed"
    BY RunStoreNone DEF Heads, CommittedHeads
  <2> HIDE DEF record, next
  <2>4. CASE Active(record.snapshot.run)
    BY <1>2, <2>1, <2>2, <2>3, <2>4 DEF LoadSound, Loaded, Usable
  <2>5. CASE ~Active(record.snapshot.run)
    BY <1>2, <2>1, <2>2, <2>3, <2>5 DEF LoadSound, Loaded, Usable
  <2> QED
    BY <2>4, <2>5
<1> QED
  BY <1>4, <1>5

\* It did not: the fallback, or nothing.
LEMMA LoadFallbackSound ==
  ASSUME TypeOK, NEW epoch, NEW head \in CommittedHeads,
         head = flash["rh0"], head.epoch = epoch, HeadSane(head)
  PROVE  LoadSound(LoadFallback(flash, epoch, head), epoch)
<1> DEFINE record == flash[SlotKey(head.fallback.slot)]
           next == HighestAfter({record.revision, head.current.revision})
<1>1. head \in Heads /\ head # None /\ head.state = "Committed"
      /\ head.current.revision \in Nat
  BY RunStoreNone DEF Heads, CommittedHeads, References
<1>2. CASE LoadFallback(flash, epoch, head) =
             Blocked("NotReconstructible", head)
  BY <1>1, <1>2, BlockedSound
<1>3. CASE LoadFallback(flash, epoch, head) #
             Blocked("NotReconstructible", head)
  <2>1. /\ head.fallback # None /\ Loadable(flash, epoch, head.fallback)
        /\ Active(record.snapshot.run)
        /\ LoadFallback(flash, epoch, head) =
             Loaded("FallbackRecovered", "FallbackRecoveryPending", head,
                    record, next)
    BY <1>3 DEF LoadFallback
  <2>2. head.fallback \in References
    BY <2>1 DEF CommittedHeads
  <2>3. /\ record \in Records /\ record # None
        /\ record \in {flash["rc0"], flash["rc1"]}
        /\ record.snapshot = head.fallback.snapshot
        /\ record.revision \in Nat
    BY <2>1, <2>2, LoadableFacts
  <2>4. next \in Nat
    BY <1>1, <2>3, HighestAfterType
  <2> HIDE DEF record, next
  <2> QED
    BY <1>1, <2>1, <2>3, <2>4 DEF LoadSound, Loaded, Usable
<1> QED
  BY <1>2, <1>3

\* Whatever is in flash, the load of it is sound.
LEMMA LoadFacts ==
  ASSUME TypeOK, HeadKept, NEW epoch
  PROVE  LoadSound(Load(flash, epoch), epoch)
<1> DEFINE head == flash["rh0"]
<1>1. CASE head = Absent
  <2>1. Load(flash, epoch) = LoadWithoutHead(flash)
    BY <1>1, RunStoreNone DEF Load, Readable
  <2>2. CASE flash["rc0"] = Absent /\ flash["rc1"] = Absent
    BY <1>1, <2>1, <2>2 DEF LoadWithoutHead, LoadSound, Loaded, Usable
  <2>3. CASE ~(flash["rc0"] = Absent /\ flash["rc1"] = Absent)
    BY <2>1, <2>3, BlockedSound DEF LoadWithoutHead
  <2> QED
    BY <2>2, <2>3
<1>2. CASE head = Corrupt
  <2>1. Load(flash, epoch) = Blocked("NotReconstructible", None)
    BY <1>2, RunStoreNone DEF Load, Readable
  <2> QED
    BY <2>1, BlockedSound
<1>3. CASE Readable(head) /\ head.epoch # epoch
  <2>1. Load(flash, epoch) = Blocked("ForeignEpoch", None)
    BY <1>3 DEF Load, Readable
  <2> QED
    BY <2>1, BlockedSound
<1>4. CASE Readable(head) /\ head.epoch = epoch /\ head.state = "Prepared"
  <2>1. Load(flash, epoch) = Blocked("PreparedInterrupted", head)
    BY <1>4 DEF Load, Readable
  <2>2. head \in Heads
    BY <1>4 DEF TypeOK, Readable
  <2> QED
    BY <2>1, <2>2, BlockedSound
<1>5. CASE Readable(head) /\ head.epoch = epoch /\ head.state # "Prepared"
  <2>1. Load(flash, epoch) =
          IF Loadable(flash, epoch, head.current)
          THEN LoadCurrent(flash, epoch, head)
          ELSE LoadFallback(flash, epoch, head)
    BY <1>5 DEF Load, Readable
  <2>2. head \in CommittedHeads
    BY <1>5 DEF TypeOK, Readable, Heads, PreparedHeads
  <2>3. HeadSane(head)
    BY <1>5, <2>2 DEF HeadKept, CommittedHeads
  <2> QED
    BY <1>5, <2>1, <2>2, <2>3, LoadCurrentSound, LoadFallbackSound
<1> QED
  BY <1>1, <1>2, <1>3, <1>4, <1>5 DEF Readable

\* So is a load in which a read failed.
LEMMA FailingFacts ==
  ASSUME TypeOK, HeadKept, NEW epoch,
         NEW load \in LoadsReadFailing(flash, epoch)
  PROVE  LoadSound(load, epoch)
<1> DEFINE head == flash["rh0"]
<1>1. CASE load = Blocked("ReadFailed", None)
  BY <1>1, BlockedSound
<1>2. CASE /\ Readable(head) /\ head.epoch = epoch /\ head.state = "Committed"
           /\ load = LoadFallback(flash, epoch, head)
  <2>1. head \in CommittedHeads
    BY <1>2 DEF TypeOK, Readable, Heads, PreparedHeads
  <2>2. HeadSane(head)
    BY <1>2, <2>1 DEF HeadKept, CommittedHeads
  <2> QED
    BY <1>2, <2>1, <2>2, LoadFallbackSound
<1> QED
  BY <1>1, <1>2 DEF LoadsReadFailing

-----------------------------------------------------------------------------
(* The structure is kept *)

\* ApplicationRunIdentity::create() gives a number, or nothing.
LEMMA IdentityType ==
  ASSUME TypeOK
  PROVE  Identity(co) \in Nat \cup {None}
<1>1. co.head # None => co.head.highWater \in Nat
  BY RunStoreNone
  DEF TypeOK, Coordinators, Heads, CommittedHeads, PreparedHeads
<1>2. HighWater(co) \in Nat \cup {None}
  BY <1>1 DEF HighWater
<1> QED
  BY <1>2, AfterType DEF Identity

\* A failure takes from the budget and loses no record.
LEMMA DamageType ==
  ASSUME TypeOK, budget.troubles # 0, Damage
  PROVE  /\ budget' \in [presses : Nat, troubles : Nat, damage : BOOLEAN,
                         lost : Nat]
         /\ budget'.lost = budget.lost
<1>1. budget.troubles - 1 \in Nat
  BY DEF TypeOK
<1> QED
  BY <1>1 DEF TypeOK, Damage

\* A boot leaves a coordinator that fits what it has loaded.
LEMMA LoadStructure ==
  ASSUME Structure, op = None, op' = None, flash' = flash, clock' = clock,
         boot' \in [epoch : Nat \ {0}, handoff : {"None"}],
         boot'.epoch = boot.epoch, LoadRun(boot.epoch)
  PROVE  /\ Structure'
         /\ app'.life = "Initializing" /\ app'.epoch = boot.epoch
         /\ app'.fallback = None /\ ram' = None
         /\ app'.requests = app.requests
         /\ app'.nextId = Identity(co')
         /\ \E load : /\ LoadSound(load, boot.epoch)
                      /\ co'.state = load.state /\ co'.head = load.head
                      /\ co'.loaded = load.record
                      /\ co'.epoch = boot.epoch
<1>1. TypeOK /\ HeadKept /\ boot.epoch \in Nat
  BY DEF Structure, TypeOK
<1>20. PICK failed \in BOOLEAN :
        \E load \in IF failed THEN LoadsReadFailing(flash, boot.epoch)
                   ELSE {Load(flash, boot.epoch)} :
          LET c == Installed(Uninitialized(boot.epoch), load)
          IN  /\ IF failed THEN budget.troubles > 0 /\ Damage
                 ELSE UNCHANGED budget
              /\ co' = c
              /\ app' = [Off(boot.epoch) EXCEPT !.life = "Initializing",
                           !.class = Classify(load), !.nextId = Identity(c),
                           !.requests = app.requests]
              /\ ram' = None
  BY DEF LoadRun
<1>2. PICK load \in IF failed THEN LoadsReadFailing(flash, boot.epoch)
                     ELSE {Load(flash, boot.epoch)} :
        /\ co' = Installed(Uninitialized(boot.epoch), load)
        /\ app' = [Off(boot.epoch) EXCEPT !.life = "Initializing",
                     !.class = Classify(load), !.nextId = Identity(co'),
                     !.requests = app.requests]
        /\ IF failed THEN budget.troubles > 0 /\ Damage ELSE UNCHANGED budget
        /\ ram' = None
  BY <1>20, Zenon
<1>3. LoadSound(load, boot.epoch)
  <2>1. LoadSound(Load(flash, boot.epoch), boot.epoch)
    BY <1>1, LoadFacts
  <2>2. load \in LoadsReadFailing(flash, boot.epoch)
          => LoadSound(load, boot.epoch)
    BY <1>1, FailingFacts
  <2> QED
    BY <1>2, <2>1, <2>2
<1>4. /\ co'.state = load.state /\ co'.head = load.head
      /\ co'.loaded = load.record /\ co'.epoch = boot.epoch
      /\ co'.next = load.next /\ co'.last = None
      /\ co'.ids = IF load.record = None THEN <<>>
                   ELSE load.record.snapshot.ids
  BY <1>2 DEF Installed, Uninitialized
<1>5. co' \in Coordinators
  <2>1. load.record # None => load.record.snapshot.ids \in Seq(Nat)
    BY <1>3 DEF LoadSound, Records, Snapshots
  <2>2. co' = [state |-> co'.state, epoch |-> co'.epoch, head |-> co'.head,
               loaded |-> co'.loaded, next |-> co'.next, ids |-> co'.ids,
               last |-> co'.last]
    BY <1>2 DEF Installed, Uninitialized
  <2>3. co'.ids \in Seq(Nat)
    BY <1>4, <2>1
  <2> QED
    BY <1>1, <1>3, <1>4, <2>2, <2>3 DEF Coordinators, LoadSound, Usable
<1>6. /\ app'.life = "Initializing" /\ app'.epoch = boot.epoch
      /\ app'.fallback = None /\ app'.disposition = None
      /\ app'.requests = app.requests /\ app'.class = Classify(load)
      /\ app'.nextId = Identity(co')
  BY <1>2 DEF Off
<1>7. Classify(load) \in Classes
  BY DEF Classify, Classes
<1>8. budget' \in [presses : Nat, troubles : Nat, damage : BOOLEAN,
                   lost : Nat]
  <2>1. CASE failed
    <3>1. budget.troubles # 0 /\ Damage
      BY <1>1, <1>2, <2>1 DEF TypeOK
    <3> QED
      BY <1>1, <3>1, DamageType
  <2>2. CASE ~failed
    BY <1>1, <1>2, <2>2 DEF TypeOK
  <2> QED
    BY <2>1, <2>2
<1>9. app' \in Applications /\ TypeOK'
  <2>1. Identity(co') \in Nat \cup {None}
    <3>1. co'.head # None => co'.head.highWater \in Nat
      BY <1>5, RunStoreNone
      DEF Coordinators, Heads, CommittedHeads, PreparedHeads
    <3>2. HighWater(co') \in Nat \cup {None}
      BY <3>1 DEF HighWater
    <3> QED
      BY <3>2, AfterType DEF Identity
  <2>2. app' = [life |-> app'.life, epoch |-> app'.epoch,
                class |-> app'.class, disposition |-> app'.disposition,
                fallback |-> app'.fallback, nextId |-> app'.nextId,
                requests |-> app'.requests]
    BY <1>2 DEF Off
  <2>3. app.requests \in [Surfaces -> Requests \cup {None}]
    BY <1>1 DEF TypeOK, Applications
  <2>4. app' \in Applications
    BY <1>1, <1>6, <1>7, <2>1, <2>2, <2>3 DEF Applications
  <2> QED
    BY <1>1, <1>2, <1>5, <1>8, <2>4 DEF TypeOK
<1>10. Standing' = load.state
  BY <1>4 DEF Standing
<1>11. Steady'
  <2>1. CurrentRun' = load.head.current.snapshot.run
        /\ LoadedRun' = load.record.snapshot.run
    BY <1>4 DEF CurrentRun, LoadedRun
  <2>2. load.state = "FallbackRecoveryPending" =>
          /\ Active(load.head.current.snapshot.run)
          /\ load.record.snapshot.run.id = load.head.current.snapshot.run.id
    BY <1>3 DEF LoadSound, HeadSane, ValidHead, Usable
  <2> QED
    BY <1>2, <1>3, <1>4, <1>10, <2>1, <2>2 DEF Steady, LoadSound, Usable
<1>12. Modes'
  BY <1>1, <1>2, <1>3, <1>4, <1>6 DEF Modes, LoadSound
<1>13. Waiting'
  <2>1. /\ Classify(load) = "RecoveryEvaluation" =>
             load.record.snapshot.run.phase = "Fermenting"
        /\ Classify(load) = "CompletedRun" =>
             load.record.snapshot.run.phase = "Completed"
        /\ Classify(load) = "TerminalRunFault" =>
             load.record.snapshot.run.phase = "Fault"
    BY DEF Classify
  <2>2. /\ Classify(load) = "NoRun" => load.state = "ReadyEmpty"
        /\ Classify(load) = "FallbackSelectionRequired" =>
             load.state = "FallbackRecoveryPending"
        /\ Classify(load) \in {"CompletedRun", "TerminalRunFault",
             "RecoveryEvaluation", "ResumeOffer", "DiscardableRun"} =>
             load.state = "LoadedActiveRun"
    BY <1>3 DEF Classify, LoadSound
  <2> QED
    BY <1>4, <1>6, <2>1, <2>2, RunStoreNone
    DEF Waiting, LoadedRun, Dispositions
<1>14. Present'
  <2>1. load.record # None => load.record \notin {Absent, Corrupt}
    BY <1>3, RunStoreNone DEF LoadSound
  <2>2. load.head # None => load.head # Absent
    BY <1>3, RunStoreNone DEF LoadSound
  <2> QED
    BY <1>3, <1>10, <2>1, <2>2 DEF Present, LoadSound, Usable
<1>15. HeadKept'
  BY <1>1 DEF HeadKept
<1>16. Structure'
  BY <1>9, <1>11, <1>12, <1>13, <1>14, <1>15 DEF Structure
<1> QED
  BY <1>2, <1>3, <1>4, <1>6, <1>16

\* Steps that leave coordinator, flash, run and mode as they are
Quiet ==
  /\ flash' = flash /\ boot' = boot /\ co' = co /\ ram' = ram /\ op' = op
  /\ app.life = "Off" => app' = app
  /\ app'.life = app.life /\ app'.epoch = app.epoch
  /\ app'.class = app.class /\ app'.disposition = app.disposition
  /\ app'.fallback = app.fallback
  /\ op # None => clock'.up = clock.up /\ clock'.utc = clock.utc

\* A step that only drops parts of the application keeps the structure.
LEMMA QuietStructure ==
  ASSUME Structure, Quiet, TypeOK'
  PROVE  Structure'
<1>1. Standing' = Standing /\ CurrentRun' = CurrentRun
      /\ LoadedRun' = LoadedRun
  BY DEF Quiet, Standing, CurrentRun, LoadedRun
<1>2. Steady'
  BY <1>1 DEF Structure, Quiet, Steady
<1>3. Modes'
  BY <1>1 DEF Structure, Quiet, Modes
<1>4. Waiting'
  BY <1>1 DEF Structure, Quiet, Waiting
<1>5. op' # None => Underway'
  BY <1>1 DEF Structure, Quiet, Underway
<1>6. Present' /\ HeadKept'
  BY <1>1 DEF Structure, Quiet, Present, HeadKept
<1> QED
  BY <1>2, <1>3, <1>4, <1>5, <1>6 DEF Structure

\* prepareStart() keeps the structure.
LEMMA PrepareStructure ==
  ASSUME Structure, NEW s \in Surfaces, Prepare(s)
  PROVE  Structure' /\ Quiet
<1>1. TypeOK /\ app.nextId \in Nat /\ app.epoch \in Nat
  BY DEF Structure, TypeOK, Applications, Prepare
<1>2. [id |-> app.nextId, run |-> <<app.epoch, app.nextId>>] \in Requests
  BY <1>1 DEF Requests, RunIds
<1>3. AfterId(app.nextId) \in Nat
  BY <1>1, AfterType
<1>4. app' = [app EXCEPT
        !.requests[s] = [id |-> app.nextId, run |-> <<app.epoch, app.nextId>>],
        !.nextId = AfterId(app.nextId)]
      /\ UNCHANGED <<flash, boot, co, ram, op, clock>> /\ app.life = "Ready"
      /\ budget.presses > 0 /\ budget' = [budget EXCEPT !.presses = @ - 1]
  BY DEF Prepare, Serving
<1>5. app' \in Applications
  BY <1>1, <1>2, <1>3, <1>4 DEF TypeOK, Applications
<1>6. budget' \in [presses : Nat, troubles : Nat, damage : BOOLEAN,
                   lost : Nat]
  BY <1>1, <1>4 DEF TypeOK
<1>7. TypeOK'
  BY <1>1, <1>4, <1>5, <1>6 DEF TypeOK
<1>8. Quiet
  <2>1. /\ app'.life = app.life /\ app'.epoch = app.epoch
        /\ app'.class = app.class /\ app'.disposition = app.disposition
        /\ app'.fallback = app.fallback
    BY <1>1, <1>4 DEF TypeOK, Applications
  <2> QED
    BY <1>4, <2>1 DEF Quiet
<1> QED
  BY <1>7, <1>8, QuietStructure

\* A command that is refused at the confirmation
LEMMA RefusedStructure ==
  ASSUME Structure, NEW s \in Surfaces, Confirm(s),
         app' = [app EXCEPT !.requests[s] = None],
         UNCHANGED <<flash, boot, co, op, ram, clock, budget>>
  PROVE  Structure' /\ Quiet
<1>1. TypeOK /\ app.life = "Ready"
  BY DEF Structure, Confirm, Serving
<1>2. app' \in Applications
  BY <1>1 DEF TypeOK, Applications
<1>3. TypeOK'
  BY <1>1, <1>2 DEF TypeOK
<1>4. Quiet
  <2>1. /\ app'.life = app.life /\ app'.epoch = app.epoch
        /\ app'.class = app.class /\ app'.disposition = app.disposition
        /\ app'.fallback = app.fallback
    BY <1>1 DEF TypeOK, Applications
  <2> QED
    BY <1>1, <2>1 DEF Quiet
<1> QED
  BY <1>3, <1>4, QuietStructure

\* Time passes, and the wall time becomes known.
LEMMA ClockStructure ==
  ASSUME Structure, Tick \/ TimeBecomesKnown
  PROVE  /\ Structure' /\ Quiet /\ app' = app
         /\ clock'.utc >= clock.utc /\ clock'.utc \in Nat
         /\ ram # None => clock'.utc - clock'.up = clock.utc - clock.up
         /\ budget' = budget
<1>1. TypeOK /\ Modes
  BY DEF Structure
<1>2. UNCHANGED <<flash, boot, co, app, ram, op, budget>>
  BY DEF Tick, TimeBecomesKnown
<1>3. /\ clock' \in [up : Nat, utc : Nat, known : BOOLEAN]
      /\ clock'.utc >= clock.utc
      /\ op # None => clock'.up = clock.up /\ clock'.utc = clock.utc
      /\ app.life # "Off" => clock'.utc - clock'.up = clock.utc - clock.up
  <2>0. /\ clock \in [up : Nat, utc : Nat, known : BOOLEAN]
        /\ clock.up \in Nat /\ clock.utc \in Nat
    BY <1>1 DEF TypeOK
  <2>1. CASE Tick
    <3>1. /\ clock' = [clock EXCEPT !.utc = @ + 1,
                          !.up = IF app.life = "Off" THEN @ ELSE @ + 1]
          /\ op = None
      BY <2>1 DEF Tick, Idle
    <3>2. /\ clock'.utc = clock.utc + 1 /\ clock'.known = clock.known
          /\ clock'.up = IF app.life = "Off" THEN clock.up ELSE clock.up + 1
          /\ clock' = [up |-> clock'.up, utc |-> clock'.utc,
                       known |-> clock'.known]
      BY <2>0, <3>1
    <3> QED
      BY <2>0, <3>1, <3>2
  <2>2. CASE TimeBecomesKnown
    <3>1. clock' = [clock EXCEPT !.known = TRUE]
      BY <2>2 DEF TimeBecomesKnown
    <3>2. /\ clock'.utc = clock.utc /\ clock'.up = clock.up
          /\ clock' \in [up : Nat, utc : Nat, known : BOOLEAN]
      BY <2>0, <3>1
    <3> QED
      BY <2>0, <3>2
  <2> QED
    BY <2>1, <2>2
<1>4. TypeOK'
  BY <1>1, <1>2, <1>3 DEF TypeOK
<1>5. Quiet
  BY <1>2, <1>3 DEF Quiet
<1>6. ram # None => app.life # "Off"
  BY <1>1 DEF Modes
<1> QED
  BY <1>2, <1>3, <1>4, <1>5, <1>6, QuietStructure

\* Only flash and wall time survive a loss of power.
LEMMA PowerLossStructure ==
  ASSUME Structure, PowerLoss
  PROVE  Structure'
<1>1. /\ TypeOK /\ HeadKept
      /\ co' = Uninitialized(boot.epoch) /\ app' = Off(boot.epoch)
      /\ ram' = None /\ op' = None /\ flash' = flash /\ boot' = boot
      /\ clock' = [clock EXCEPT !.up = 0, !.known = FALSE]
      /\ budget.troubles > 0
      /\ budget' = [budget EXCEPT !.troubles = @ - 1]
  BY DEF Structure, PowerLoss
<1>2. boot.epoch \in Nat
  BY <1>1 DEF TypeOK
<1>3. /\ co' \in Coordinators /\ co'.state = "Uninitialized"
      /\ co'.loaded = None /\ co'.head = None /\ co'.epoch = boot.epoch
  BY <1>1, <1>2 DEF Uninitialized, Coordinators
<1>4. /\ app' \in Applications
      /\ app'.life = "Off" /\ app'.class = None /\ app'.disposition = None
      /\ app'.fallback = None /\ app'.epoch = boot.epoch
  BY <1>1, <1>2 DEF Off, NoRequests, Applications
<1>5. budget' \in [presses : Nat, troubles : Nat, damage : BOOLEAN,
                   lost : Nat]
  BY <1>1 DEF TypeOK
<1>6. TypeOK'
  BY <1>1, <1>3, <1>4, <1>5 DEF TypeOK
<1>7. Standing' = "Uninitialized"
  BY <1>1, <1>3 DEF Standing
<1>8. Steady' /\ Present'
  BY <1>1, <1>7 DEF Steady, Present, Usable
<1>9. Modes'
  BY <1>1, <1>2, <1>3, <1>4 DEF Modes
<1>10. Waiting'
  BY <1>4, RunStoreNone DEF Waiting, Classes, Dispositions
<1>11. HeadKept'
  BY <1>1 DEF HeadKept
<1> QED
  BY <1>1, <1>6, <1>8, <1>9, <1>10, <1>11 DEF Structure

\* A record is only lost while the device is off.
LEMMA LoseRecordStructure ==
  ASSUME Structure, LoseRecord
  PROVE  Structure'
<1>1. /\ TypeOK /\ Steady /\ Modes /\ Waiting /\ HeadKept
      /\ UNCHANGED <<boot, co, app, ram, op, clock>>
      /\ app.life = "Off" /\ budget.troubles > 0
      /\ budget' = [budget EXCEPT !.troubles = @ - 1, !.damage = TRUE,
                                  !.lost = @ + 1]
  BY DEF Structure, LoseRecord
<1>2. PICK k \in Keys, v \in {Absent, Corrupt} :
        flash' = [flash EXCEPT ![k] = v]
  BY DEF LoseRecord
<1>3. /\ flash'["rh0"] \in {flash["rh0"], Absent, Corrupt}
      /\ flash'["rc0"] \in {flash["rc0"], Absent, Corrupt}
      /\ flash'["rc1"] \in {flash["rc1"], Absent, Corrupt}
      /\ DOMAIN flash' = Keys
  BY <1>1, <1>2 DEF TypeOK, Keys
<1>4. budget' \in [presses : Nat, troubles : Nat, damage : BOOLEAN,
                   lost : Nat]
  <2>1. budget \in [presses : Nat, troubles : Nat, damage : BOOLEAN,
                    lost : Nat]
    BY <1>1 DEF TypeOK
  <2>2. budget.troubles - 1 \in Nat /\ budget.lost + 1 \in Nat
    BY <1>1, <2>1
  <2> QED
    BY <1>1, <2>1, <2>2
<1>5. TypeOK'
  BY <1>1, <1>3, <1>4 DEF TypeOK
<1>6. op = None /\ co.state = "Uninitialized"
  BY <1>1 DEF Modes, Uninitialized
<1>7. /\ Standing' = Standing /\ CurrentRun' = CurrentRun
      /\ LoadedRun' = LoadedRun /\ Standing = "Uninitialized"
  BY <1>1, <1>6 DEF Standing, CurrentRun, LoadedRun
<1>8. Steady' /\ Modes' /\ Waiting'
  BY <1>1, <1>7 DEF Steady, Modes, Waiting
<1>9. Present'
  BY <1>1, <1>6, <1>7 DEF Present
<1>10. HeadKept'
  BY <1>1, <1>3 DEF HeadKept, Readable
<1> QED
  BY <1>1, <1>5, <1>6, <1>8, <1>9, <1>10 DEF Structure

\* A factory reset opens the handoff to the next epoch.
LEMMA FactoryResetStructure ==
  ASSUME Structure, FactoryReset
  PROVE  Structure'
<1>1. /\ TypeOK /\ Steady /\ Modes /\ Waiting /\ HeadKept
      /\ op = None /\ app.life \in {"Ready", "ServiceRequired"}
      /\ boot' = [epoch |-> boot.epoch + 1, handoff |-> "Pending"]
      /\ app' = [app EXCEPT !.life = "Handoff"]
      /\ UNCHANGED <<flash, co, ram, op, clock, budget>>
  BY DEF Structure, FactoryReset, Idle
<1>2. /\ app' \in Applications /\ app'.life = "Handoff"
      /\ app'.epoch = app.epoch /\ app'.fallback = app.fallback
      /\ app'.class = app.class /\ app'.disposition = app.disposition
  BY <1>1 DEF TypeOK, Applications
<1>3. /\ boot' \in [epoch : Nat \ {0}, handoff : {"None", "Pending",
                                                   "Committed"}]
      /\ boot'.epoch = boot.epoch + 1 /\ boot'.handoff = "Pending"
      /\ boot.epoch \in Nat /\ app.epoch \in Nat
  BY <1>1 DEF TypeOK, Applications
<1>4. TypeOK'
  BY <1>1, <1>2, <1>3 DEF TypeOK
<1>5. Standing' = Standing /\ CurrentRun' = CurrentRun
      /\ LoadedRun' = LoadedRun
  BY <1>1 DEF Standing, CurrentRun, LoadedRun
<1>6. Steady' /\ Waiting'
  BY <1>1, <1>2, <1>5 DEF Steady, Waiting
<1>7. Modes'
  BY <1>1, <1>2, <1>3, <1>5 DEF Modes
<1>8. Present' /\ HeadKept'
  BY <1>1, <1>3 DEF Present, HeadKept
<1> QED
  BY <1>1, <1>4, <1>6, <1>7, <1>8 DEF Structure

\* What a write can leave is the old value, the new one or none.
LEMMA WriteFacts ==
  ASSUME TypeOK, NEW old, NEW new, NEW r \in WriteResults(old, new),
         Spend(r[2])
  PROVE  /\ r[1] \in {old, new, Corrupt}
         /\ r[2] \in {"Written", "NotWritten", "Indeterminate"}
         /\ r[2] = "Written" => r[1] = new
         /\ r[2] = "NotWritten" => r[1] = old
         /\ budget' \in [presses : Nat, troubles : Nat, damage : BOOLEAN,
                         lost : Nat]
         /\ budget'.lost = budget.lost
<1>1. CASE r = <<new, "Written">>
  BY <1>1 DEF Spend, TypeOK
<1>2. CASE r # <<new, "Written">>
  <2>1. /\ budget.troubles # 0
        /\ \/ r = <<old, "NotWritten">>
           \/ \E v \in {old, new, Corrupt} : r = <<v, "Indeterminate">>
    BY <1>2 DEF WriteResults
  <2>2. /\ r[1] \in {old, new, Corrupt}
        /\ r[2] \in {"NotWritten", "Indeterminate"}
        /\ r[2] = "NotWritten" => r[1] = old
    BY <2>1
  <2>3. Damage
    BY <2>2 DEF Spend
  <2> QED
    BY <2>1, <2>2, <2>3, DamageType
<1> QED
  BY <1>1, <1>2

\* The records of a handoff hold no run.
LEMMA HandoffValues ==
  ASSUME NEW epoch \in Nat, NEW slot \in {0, 1}
  PROVE  /\ HandoffRecord(epoch, slot) \in Records
         /\ HandoffRecord(epoch, slot).snapshot.run = NoRun(0)
         /\ ValidSnapshot(HandoffRecord(epoch, slot).snapshot)
         /\ HandoffHead(epoch) \in CommittedHeads
         /\ HandoffHead(epoch).current.snapshot.run = NoRun(0)
         /\ HandoffHead(epoch).fallback = None
         /\ HandoffHead(epoch).epoch = epoch
         /\ HandoffHead(epoch).highWater = 0
         /\ HeadSane(HandoffHead(epoch))
<1> DEFINE run == NoRun(0)
           snapshot == Snapshot(run, <<>>, 0)
           record(i) == Checkpoint(epoch, i + 1, None, snapshot)
           ref == Reference(0, record(0))
<1>1. run \in RunStates /\ run.id = None /\ run.prior = None
      /\ run.entered = 0 /\ ~Active(run)
  BY DEF NoRun, Run, RunStates, Active
<1> HIDE DEF run
<1>2. snapshot \in Snapshots /\ snapshot.run = run /\ ValidSnapshot(snapshot)
  BY <1>1 DEF Snapshot, Snapshots, ValidSnapshot
<1> HIDE DEF snapshot
<1>3. \A i \in {0, 1} : record(i) \in Records /\ record(i).snapshot = snapshot
                        /\ record(i).epoch = epoch /\ record(i).revision = i + 1
  BY <1>2 DEF Checkpoint, Records
<1> HIDE DEF record
<1>4. ref \in References /\ ref.snapshot = snapshot
  BY <1>2, <1>3 DEF Reference, References
<1> HIDE DEF ref
<1>5. HandoffRecord(epoch, slot) = record(slot)
      /\ HandoffRecord(epoch, 0) = record(0)
  BY DEF HandoffRecord, record, snapshot, run
<1>6. HandoffHead(epoch) = CommittedHead(epoch, 1, ref, None, 0)
  BY <1>5 DEF HandoffHead, ref
<1>7. /\ HandoffHead(epoch) \in CommittedHeads
      /\ HandoffHead(epoch).current = ref
      /\ HandoffHead(epoch).fallback = None
      /\ HandoffHead(epoch).epoch = epoch
      /\ HandoffHead(epoch).highWater = 0
  BY <1>4, <1>6 DEF CommittedHead, CommittedHeads
<1>8. HeadSane(HandoffHead(epoch))
  BY <1>1, <1>2, <1>4, <1>7 DEF HeadSane, ValidHead
<1> QED
  BY <1>2, <1>3, <1>4, <1>5, <1>7, <1>8 DEF run

\* A step of the handoff: flash may change, the coordinator does not.
HandoffStep ==
  /\ app.life \in {"Off", "Handoff"} /\ boot.handoff # "None"
  /\ boot' = [boot EXCEPT !.handoff = boot'.handoff]
  /\ boot'.handoff \in {"Pending", "Committed"}
  /\ UNCHANGED <<co, ram, op, clock>>
  /\ app' = app \/ app' = [app EXCEPT !.life = "ServiceRequired"]
  /\ DOMAIN flash' = Keys
  /\ flash'["rh0"] \in {flash["rh0"], HandoffHead(boot.epoch), Corrupt}
  /\ flash'["rc0"] \in {flash["rc0"], HandoffRecord(boot.epoch, 0), Corrupt}
  /\ flash'["rc1"] \in {flash["rc1"], HandoffRecord(boot.epoch, 1), Corrupt}
  /\ budget' \in [presses : Nat, troubles : Nat, damage : BOOLEAN, lost : Nat]
  /\ budget'.lost = budget.lost

\* The handoff's steps write its own records, or reject.
LEMMA HandoffSteps ==
  ASSUME Structure,
         \/ HandoffSlot \/ HandoffCommit \/ HandoffFinalize \/ HandoffRejected
  PROVE  HandoffStep
<1>1. TypeOK /\ DOMAIN flash = Keys
      /\ budget \in [presses : Nat, troubles : Nat, damage : BOOLEAN,
                     lost : Nat]
      /\ boot \in [epoch : Nat \ {0},
                   handoff : {"None", "Pending", "Committed"}]
  BY DEF Structure, TypeOK
<1>2. CASE HandoffSlot
  <2> DEFINE slot == SlotToReplace
  <2>1. slot \in {0, 1}
    <3>1. \E s \in {0, 1} : ~IsTarget(flash, boot.epoch, s)
      BY <1>2 DEF HandoffSlot, SlotsReplaced
    <3>2. \E x \in {s \in {0, 1} : ~IsTarget(flash, boot.epoch, s)} :
            \A y \in {s \in {0, 1} : ~IsTarget(flash, boot.epoch, s)} : x <= y
      BY <3>1
    <3> QED
      BY <3>2 DEF SlotToReplace, Min
  <2>2. PICK r \in WriteResults(flash[SlotKey(slot)],
                                HandoffRecord(boot.epoch, slot)) :
          /\ flash' = [flash EXCEPT ![SlotKey(slot)] = r[1]]
          /\ Spend(r[2])
          /\ IF r[2] = "Written" THEN UNCHANGED <<boot, app, co, ram>>
             ELSE HandoffFails
    BY <1>2 DEF HandoffSlot
  <2> HIDE DEF slot
  <2>3. /\ r[1] \in {flash[SlotKey(slot)], HandoffRecord(boot.epoch, slot),
                     Corrupt}
        /\ budget' \in [presses : Nat, troubles : Nat, damage : BOOLEAN,
                        lost : Nat]
        /\ budget'.lost = budget.lost
    BY <1>1, <2>2, WriteFacts
  <2>4. /\ flash'["rh0"] = flash["rh0"] /\ DOMAIN flash' = Keys
        /\ flash'["rc0"] \in {flash["rc0"], HandoffRecord(boot.epoch, 0),
                              Corrupt}
        /\ flash'["rc1"] \in {flash["rc1"], HandoffRecord(boot.epoch, 1),
                              Corrupt}
    <3>1. CASE slot = 0
      BY <1>1, <2>2, <2>3, <3>1 DEF SlotKey, Keys
    <3>2. CASE slot = 1
      BY <1>1, <2>2, <2>3, <3>2 DEF SlotKey, Keys
    <3> QED
      BY <2>1, <3>1, <3>2
  <2>5. /\ UNCHANGED <<boot, co, ram, op, clock>>
        /\ app' = app \/ app' = [app EXCEPT !.life = "ServiceRequired"]
        /\ app.life \in {"Off", "Handoff"} /\ boot.handoff = "Pending"
    BY <1>2, <2>2 DEF HandoffSlot, HandoffFails
  <2> QED
    BY <1>1, <2>3, <2>4, <2>5 DEF HandoffStep
<1>3. CASE HandoffCommit
  BY <1>1, <1>3 DEF HandoffCommit, HandoffStep
<1>4. CASE HandoffFinalize
  <2>1. PICK r \in WriteResults(flash["rh0"], HandoffHead(boot.epoch)) :
          /\ flash' = [flash EXCEPT !["rh0"] = r[1]]
          /\ Spend(r[2])
          /\ IF r[2] = "Written" THEN UNCHANGED <<boot, app, co, ram>>
             ELSE HandoffFails
    BY <1>4 DEF HandoffFinalize
  <2>2. /\ r[1] \in {flash["rh0"], HandoffHead(boot.epoch), Corrupt}
        /\ budget' \in [presses : Nat, troubles : Nat, damage : BOOLEAN,
                        lost : Nat]
        /\ budget'.lost = budget.lost
    BY <1>1, <2>1, WriteFacts
  <2>3. /\ flash'["rh0"] = r[1] /\ DOMAIN flash' = Keys
        /\ flash'["rc0"] = flash["rc0"] /\ flash'["rc1"] = flash["rc1"]
    BY <1>1, <2>1 DEF Keys
  <2>4. /\ UNCHANGED <<boot, co, ram, op, clock>>
        /\ app' = app \/ app' = [app EXCEPT !.life = "ServiceRequired"]
        /\ app.life \in {"Off", "Handoff"} /\ boot.handoff = "Committed"
    BY <1>4, <2>1 DEF HandoffFinalize, HandoffFails
  <2> QED
    BY <1>1, <2>2, <2>3, <2>4 DEF HandoffStep
<1>5. CASE HandoffRejected
  <2>1. /\ UNCHANGED <<boot, co, ram, op, clock, flash, budget>>
        /\ app' = [app EXCEPT !.life = "ServiceRequired"]
        /\ app.life \in {"Off", "Handoff"}
        /\ boot.handoff \in {"Pending", "Committed"}
    BY <1>5 DEF HandoffRejected, HandoffFails
  <2> QED
    BY <1>1, <2>1 DEF HandoffStep
<1> QED
  BY <1>2, <1>3, <1>4, <1>5

\* The handoff keeps the structure.
LEMMA HandoffStructure ==
  ASSUME Structure, HandoffStep
  PROVE  Structure'
<1>1. /\ TypeOK /\ Steady /\ Modes /\ Waiting /\ HeadKept
      /\ UNCHANGED <<co, ram, op, clock>> /\ boot.epoch \in Nat
      /\ app.life \in {"Off", "Handoff"} /\ boot.handoff # "None"
  BY DEF Structure, HandoffStep, TypeOK
<1>2. boot' \in [epoch : Nat \ {0}, handoff : {"None", "Pending",
                                               "Committed"}]
      /\ boot'.epoch = boot.epoch /\ boot'.handoff # "None"
  BY <1>1 DEF HandoffStep, TypeOK
<1>3. /\ app' \in Applications /\ app'.epoch = app.epoch
      /\ app'.life \in {app.life, "ServiceRequired"}
      /\ app'.class = app.class /\ app'.disposition = app.disposition
      /\ app'.fallback = app.fallback
      /\ app'.life = app.life => app' = app
  BY <1>1 DEF HandoffStep, TypeOK, Applications
<1>4. /\ flash'["rh0"] \in Heads \cup {Absent, Corrupt}
      /\ flash'["rc0"] \in Records \cup {Absent, Corrupt}
      /\ flash'["rc1"] \in Records \cup {Absent, Corrupt}
      /\ DOMAIN flash' = Keys
      /\ budget' \in [presses : Nat, troubles : Nat, damage : BOOLEAN,
                      lost : Nat]
  <2>1. /\ HandoffHead(boot.epoch) \in Heads
        /\ HandoffRecord(boot.epoch, 0) \in Records
        /\ HandoffRecord(boot.epoch, 1) \in Records
    BY <1>1, HandoffValues DEF Heads
  <2> QED
    BY <1>1, <2>1 DEF HandoffStep, TypeOK
<1>5. TypeOK'
  BY <1>1, <1>2, <1>3, <1>4 DEF TypeOK
<1>6. op = None
  BY <1>1 DEF Modes
<1>7. Standing' = Standing /\ CurrentRun' = CurrentRun
      /\ LoadedRun' = LoadedRun
  BY <1>1 DEF Standing, CurrentRun, LoadedRun
<1>8. app.class = None /\ op = None
  BY <1>1, <1>6 DEF Modes
<1>9. Steady'
  BY <1>1, <1>7 DEF Steady
<1>10. Modes'
  <2>1. CASE app.life = "Off"
    <3>1. /\ app.fallback = None /\ app.epoch = boot.epoch
          /\ co.epoch = boot.epoch
      BY <1>1, <2>1 DEF Modes, Off, Uninitialized
    <3> QED
      BY <1>1, <1>2, <1>3, <1>7, <1>8, <2>1, <3>1 DEF Modes
  <2>2. CASE app.life = "Handoff"
    BY <1>1, <1>2, <1>3, <1>7, <1>8, <2>2 DEF Modes
  <2> QED
    BY <1>1, <2>1, <2>2
<1>11. Waiting'
  <2>1. app'.life # "Ready"
    BY <1>1, <1>3
  <2> QED
    BY <1>1, <1>3, <1>7, <1>8, <2>1, RunStoreNone DEF Waiting, Classes
<1>12. Present'
  BY <1>2 DEF Present
<1>13. HeadKept'
  <2>1. HeadSane(HandoffHead(boot.epoch))
    BY <1>1, HandoffValues
  <2> QED
    BY <1>1, <2>1 DEF HandoffStep, HeadKept, Readable
<1> QED
  BY <1>1, <1>5, <1>8, <1>9, <1>10, <1>11, <1>12, <1>13 DEF Structure

-----------------------------------------------------------------------------
(* Boot and recovery keep the structure *)

\* The run of an evaluation that is not taken is published without a phase.
LEMMA RejectStructure ==
  ASSUME Structure, op = None, co.state = "LoadedActiveRun",
         boot.handoff = "None", app.life \in {"Initializing", "Ready"},
         LoadedRun.phase = "Fermenting",
         RejectRecovery \/ AwaitTrustedTime,
         UNCHANGED <<flash, boot, clock, budget>>
  PROVE  /\ Structure' /\ op' = None
         /\ app'.life = "Ready" /\ app'.requests = app.requests
         /\ app'.nextId = app.nextId /\ app'.epoch = app.epoch
         /\ app'.fallback = None
         /\ co'.head = co.head /\ co'.loaded = co.loaded
         /\ co'.state \in {co.state, "BlockedIndeterminate"}
         /\ ram' = Run(LoadedRun.id, "RecoveryEvaluation", clock.up,
                       LoadedRun.prior)
<1>1. /\ TypeOK /\ Steady /\ Modes /\ Waiting /\ Present /\ HeadKept
      /\ Standing = co.state
  BY DEF Structure, Standing
<1>2. /\ co.loaded # None /\ co.loaded \in Records
      /\ LoadedRun.id = CurrentRun.id /\ co.head # None
      /\ Active(CurrentRun) /\ HeadSane(co.head) /\ co.head.epoch = co.epoch
      /\ app.fallback = None
  BY <1>1 DEF Steady, Usable, TypeOK, Coordinators, Modes
<1>3. /\ ram' = Run(LoadedRun.id, "RecoveryEvaluation", clock.up,
                    LoadedRun.prior)
      /\ op' = None
  BY DEF RejectRecovery, AwaitTrustedTime, LoadedRun
<1>4. \E d \in {"Rejected", "WaitingForTrustedTime"} :
        /\ app' = [app EXCEPT !.life = "Ready", !.class = None,
                              !.disposition = d]
        /\ \/ co' = co
           \/ d = "Rejected"
              /\ co' = [co EXCEPT !.state = "BlockedIndeterminate"]
  BY DEF RejectRecovery, AwaitTrustedTime
<1>5. /\ app' \in Applications /\ app'.life = "Ready" /\ app'.class = None
      /\ app'.epoch = app.epoch /\ app'.fallback = app.fallback
      /\ app'.disposition \in {"Rejected", "WaitingForTrustedTime"}
      /\ app'.requests = app.requests /\ app'.nextId = app.nextId
      /\ app'.disposition = "WaitingForTrustedTime" => co' = co
  BY <1>1, <1>4 DEF TypeOK, Applications, Dispositions
<1>6. /\ co' \in Coordinators /\ co'.head = co.head
      /\ co'.loaded = co.loaded /\ co'.epoch = co.epoch
      /\ co'.state \in {co.state, "BlockedIndeterminate"}
  BY <1>1, <1>4 DEF TypeOK, Coordinators
<1>7. ram' \in RunStates /\ ram' # None /\ ram'.id = LoadedRun.id
  <2>1. LoadedRun \in RunStates /\ clock.up \in Nat
    BY <1>1, <1>2 DEF Records, Snapshots, LoadedRun, TypeOK
  <2>2. /\ LoadedRun.id \in RunIds \cup {None}
        /\ LoadedRun.prior \in Int \cup {None}
    BY <2>1 DEF RunStates
  <2>3. ram' \in RunStates
    BY <1>3, <2>1, <2>2, RunType
  <2> QED
    BY <1>3, <2>3, RunStoreNone DEF Run
<1>8. TypeOK'
  BY <1>1, <1>3, <1>5, <1>6, <1>7 DEF TypeOK
<1>9. /\ Standing' = co'.state /\ CurrentRun' = CurrentRun
      /\ LoadedRun' = LoadedRun
  BY <1>3, <1>6 DEF Standing, CurrentRun, LoadedRun
<1>10. Steady'
  BY <1>2, <1>6, <1>7, <1>9 DEF Steady, Usable
<1>11. Modes'
  BY <1>1, <1>2, <1>3, <1>5, <1>6 DEF Modes
<1>12. Waiting'
  <2>1. None \notin Classes
    BY RunStoreNone
  <2> QED
    BY <1>2, <1>3, <1>5, <1>6, <1>9, <2>1 DEF Waiting, Classes
<1>13. Present' /\ HeadKept'
  BY <1>1, <1>3, <1>9 DEF Present, HeadKept
<1> QED
  BY <1>2, <1>3, <1>5, <1>6, <1>8, <1>10, <1>11, <1>12, <1>13 DEF Structure

\* A boot that only decides what the application shows
Shown(fallback) ==
  /\ app' = [app EXCEPT !.life = app'.life, !.class = None,
                        !.fallback = fallback]
  /\ UNCHANGED <<flash, boot, co, op, clock, budget>>

\* The life of an application that shows what it has
LEMMA ShownLife ==
  ASSUME app \in Applications, NEW life, NEW fallback,
         app' = [app EXCEPT !.life = life, !.class = None,
                            !.fallback = fallback]
  PROVE  /\ app'.life = life
         /\ app' = [app EXCEPT !.life = app'.life, !.class = None,
                               !.fallback = fallback]
<1>1. app'.life = life
  BY DEF Applications
<1> QED
  BY <1>1

\* The same when there is no fallback to show
LEMMA ShownNone ==
  ASSUME app \in Applications, app.fallback = None, NEW life,
         app' = [app EXCEPT !.life = life, !.class = None]
  PROVE  /\ app'.life = life
         /\ app' = [app EXCEPT !.life = app'.life, !.class = None,
                               !.fallback = None]
<1>1. app' = [app EXCEPT !.life = life, !.class = None, !.fallback = None]
  BY DEF Applications
<1> QED
  BY <1>1, ShownLife

\* What such an application holds
LEMMA ShownFields ==
  ASSUME app \in Applications, app'.life \in {"Ready", "ServiceRequired"},
         NEW fallback \in RunStates \cup {None}, Shown(fallback)
  PROVE  /\ app' \in Applications /\ app'.epoch = app.epoch
         /\ app'.class = None /\ app'.fallback = fallback
         /\ app'.disposition = app.disposition
<1>1. PICK life \in {"Ready", "ServiceRequired"} :
        app' = [app EXCEPT !.life = life, !.class = None,
                           !.fallback = fallback]
  BY DEF Shown
<1> QED
  BY <1>1 DEF Applications

\* A boot that publishes what it has, without a write
LEMMA ShownStructure ==
  ASSUME Structure, op = None, app.life = "Initializing", app.class # None,
         NEW fallback \in {None, LoadedRun}, Shown(fallback),
         app'.life \in {"Ready", "ServiceRequired"},
         fallback # None =>
           co.state = "FallbackRecoveryPending" /\ fallback = LoadedRun,
         \/ ram' = ram
         \/ co.state = "ReadyEmpty" /\ ram' = NoRun(0)
  PROVE  Structure'
<1>1. /\ TypeOK /\ Steady /\ Modes /\ Waiting /\ Present /\ HeadKept
      /\ Standing = co.state
      /\ UNCHANGED <<flash, boot, co, op, clock, budget>>
  BY DEF Structure, Standing, Shown
<1>2. /\ ram = None /\ app.fallback = None /\ app.disposition = None
      /\ boot.handoff = "None"
  BY <1>1 DEF Modes, Waiting
<1>3. fallback \in RunStates \cup {None}
  BY <1>1 DEF Steady, TypeOK, Coordinators, Records, Snapshots, LoadedRun
<1>4. /\ app' \in Applications /\ app'.epoch = app.epoch
      /\ app'.class = None /\ app'.fallback = fallback
      /\ app'.disposition = None
  <2>1. app \in Applications
    BY <1>1 DEF TypeOK
  <2> QED
    BY <1>2, <1>3, <2>1, ShownFields
<1>5. ram' \in RunStates \cup {None} /\ (ram' # None => ~Active(ram'))
      /\ (ram' # None => co.state = "ReadyEmpty")
  BY <1>2 DEF NoRun, Run, Active, RunStates
<1>6. TypeOK'
  BY <1>1, <1>4, <1>5 DEF TypeOK
<1>7. /\ Standing' = co.state /\ CurrentRun' = CurrentRun
      /\ LoadedRun' = LoadedRun
  BY <1>1 DEF Standing, CurrentRun, LoadedRun
<1>8. Steady'
  BY <1>1, <1>2, <1>5, <1>7 DEF Steady
<1>9. Modes'
  <2>1. fallback # None => co.loaded # None
    BY <1>1 DEF Steady
  <2> QED
    BY <1>1, <1>2, <1>4, <1>7, <2>1 DEF Modes
<1>10. Waiting'
  BY <1>4, RunStoreNone DEF Waiting, Classes, Dispositions
<1>11. Present' /\ HeadKept'
  BY <1>1, <1>7 DEF Present, HeadKept
<1> QED
  BY <1>1, <1>6, <1>8, <1>9, <1>10, <1>11 DEF Structure

\* A terminal run is published as it was stored.
LEMMA RestoreStructure ==
  ASSUME Structure, op = None, app.life = "Initializing",
         app.class \in {"CompletedRun", "TerminalRunFault"}, RestoreTerminal,
         UNCHANGED <<flash, boot, clock, budget>>
  PROVE  /\ Structure' /\ ram' # None /\ ram'.id = LoadedRun.id
         /\ ram'.phase = LoadedRun.phase /\ ram'.prior = LoadedRun.prior
         /\ co'.state = "Ready" /\ co'.head = co.head /\ co'.loaded = None
         /\ app'.requests = app.requests /\ app'.nextId = app.nextId
         /\ app'.life = "Ready" /\ app'.epoch = app.epoch
         /\ app'.fallback = None /\ co.state = "LoadedActiveRun"
<1>1. /\ TypeOK /\ Steady /\ Modes /\ Waiting /\ Present /\ HeadKept
      /\ Standing = co.state /\ op' = None
      /\ co' = [co EXCEPT !.state = "Ready", !.loaded = None]
      /\ app' = [app EXCEPT !.life = "Ready", !.class = None]
  BY DEF Structure, Standing, RestoreTerminal
<1>2. /\ co.state = "LoadedActiveRun" /\ ram = None /\ app.fallback = None
      /\ app.disposition = None /\ boot.handoff = "None"
  <2>1. app.class # None
    BY RunStoreNone DEF Classes
  <2> QED
    BY <1>1, <2>1 DEF Modes, Waiting
<1>3. /\ co.loaded # None /\ co.loaded \in Records
      /\ LoadedRun.id = CurrentRun.id /\ co.head # None
      /\ Active(CurrentRun) /\ HeadSane(co.head) /\ co.head.epoch = co.epoch
  BY <1>1, <1>2 DEF Steady, Usable, TypeOK, Coordinators
<1>4. LoadedRun \in RunStates /\ clock.up \in Nat
  BY <1>1, <1>3 DEF Records, Snapshots, LoadedRun, TypeOK
<1>5. /\ ram' \in RunStates /\ ram'.id = LoadedRun.id
      /\ ram'.phase = LoadedRun.phase /\ ram'.prior = LoadedRun.prior
  <2>1. ram' = IF LoadedRun.phase = "Completed"
               THEN [LoadedRun EXCEPT !.entered = clock.up] ELSE LoadedRun
    BY DEF RestoreTerminal, LoadedRun
  <2> HIDE DEF LoadedRun
  <2> QED
    BY <1>4, <2>1 DEF RunStates
<1>6. ram' # None
  BY <1>5, RunStoreNone
<1>7. /\ co' \in Coordinators /\ co'.head = co.head /\ co'.loaded = None
      /\ co'.epoch = co.epoch /\ co'.state = "Ready"
  BY <1>1 DEF TypeOK, Coordinators, Usable
<1>8. /\ app' \in Applications /\ app'.life = "Ready" /\ app'.class = None
      /\ app'.epoch = app.epoch /\ app'.fallback = app.fallback
      /\ app'.disposition = app.disposition
      /\ app'.requests = app.requests /\ app'.nextId = app.nextId
  BY <1>1 DEF TypeOK, Applications
<1>9. TypeOK'
  BY <1>1, <1>5, <1>7, <1>8 DEF TypeOK
<1>10. Standing' = "Ready" /\ CurrentRun' = CurrentRun
  BY <1>1, <1>7 DEF Standing, CurrentRun
<1>11. Steady'
  BY <1>3, <1>5, <1>6, <1>7, <1>10 DEF Steady, Usable
<1>12. Modes'
  BY <1>1, <1>2, <1>7, <1>8 DEF Modes
<1>13. Waiting'
  BY <1>2, <1>8, RunStoreNone DEF Waiting, Classes, Dispositions
<1>14. Present' /\ HeadKept'
  BY <1>1, <1>10 DEF Present, HeadKept
<1> QED
  BY <1>1, <1>2, <1>5, <1>6, <1>7, <1>8, <1>9, <1>11, <1>12, <1>13, <1>14
  DEF Structure

\* What processBootClassification() comes to
LEMMA BootCases ==
  ASSUME Structure, ProcessBoot
  PROVE  /\ op = None /\ app.life = "Initializing" /\ app.class # None
         /\ ram = None /\ app.fallback = None /\ boot.handoff = "None"
         /\ app.disposition = None
         /\ UNCHANGED <<flash, boot, clock, budget>>
         /\ \/ StartsSome
            \/ /\ RejectRecovery \/ AwaitTrustedTime
               /\ co.state = "LoadedActiveRun" /\ co.loaded # None
               /\ LoadedRun.phase = "Fermenting"
            \/ /\ RestoreTerminal
               /\ app.class \in {"CompletedRun", "TerminalRunFault"}
            \/ /\ Shown(None) /\ app'.life \in {"Ready", "ServiceRequired"}
               /\ \/ ram' = ram
                  \/ co.state = "ReadyEmpty" /\ ram' = NoRun(0)
            \/ /\ Shown(LoadedRun) /\ app'.life = "Ready" /\ ram' = ram
               /\ co.state = "FallbackRecoveryPending"
<1>1. /\ TypeOK /\ Modes /\ Waiting
      /\ op = None /\ app.life = "Initializing" /\ app.class # None
      /\ UNCHANGED <<flash, boot, clock, budget>>
  BY DEF Structure, ProcessBoot, Idle
<1>2. /\ ram = None /\ app.fallback = None /\ boot.handoff = "None"
      /\ app.disposition = None
  BY <1>1 DEF Modes, Waiting
<1>3. app.class \in Classes
  BY <1>1 DEF TypeOK, Applications
<1>11. app \in Applications
  BY <1>1 DEF TypeOK
<1>4. CASE app.class = "NoRun"
  <2>1. /\ ram' = NoRun(0) /\ UNCHANGED <<co, op>>
        /\ app' = [app EXCEPT !.life = "Ready", !.class = None]
    BY <1>4 DEF ProcessBoot
  <2>2. co.state = "ReadyEmpty"
    BY <1>1, <1>4 DEF Waiting
  <2>3. app'.life = "Ready"
        /\ app' = [app EXCEPT !.life = app'.life, !.class = None,
                              !.fallback = None]
    BY <1>2, <1>11, <2>1, ShownNone
  <2> QED
    BY <1>1, <1>2, <2>1, <2>2, <2>3 DEF Shown
<1>5. CASE app.class = "ResumeOffer"
  <2>1. /\ ram' = ram /\ UNCHANGED <<co, op>>
        /\ app' = [app EXCEPT !.life = "Ready", !.class = None]
    BY <1>5 DEF ProcessBoot
  <2>2. app'.life = "Ready"
        /\ app' = [app EXCEPT !.life = app'.life, !.class = None,
                              !.fallback = None]
    BY <1>2, <1>11, <2>1, ShownNone
  <2> QED
    BY <1>1, <1>2, <2>1, <2>2 DEF Shown
<1>6. CASE app.class = "FallbackSelectionRequired"
  <2>1. /\ ram' = ram /\ UNCHANGED <<co, op>>
        /\ app' = [app EXCEPT !.life = "Ready", !.class = None,
                              !.fallback = LoadedRun]
    BY <1>6 DEF ProcessBoot, LoadedRun
  <2>2. app'.life = "Ready"
        /\ app' = [app EXCEPT !.life = app'.life, !.class = None,
                              !.fallback = LoadedRun]
    BY <1>11, <2>1, ShownLife
  <2>3. co.state = "FallbackRecoveryPending"
    BY <1>1, <1>6 DEF Waiting
  <2> QED
    BY <1>1, <1>2, <2>1, <2>2, <2>3 DEF Shown
<1>7. CASE app.class = "RecoveryEvaluation"
  <2>1. EvaluateRecovery
    BY <1>7 DEF ProcessBoot
  <2> QED
    BY <1>1, <1>2, <1>7, <2>1, EvaluateCases
<1>8. CASE app.class = "DiscardableRun"
  <2>1. DiscardRun
    BY <1>8 DEF ProcessBoot
  <2>2. CASE StartsSome
    BY <1>1, <1>2, <2>2
  <2>3. CASE /\ app' = [app EXCEPT !.life = "ServiceRequired", !.class = None]
             /\ UNCHANGED <<co, op, ram>>
    <3>1. app'.life = "ServiceRequired"
          /\ app' = [app EXCEPT !.life = app'.life, !.class = None,
                                !.fallback = None]
      BY <1>2, <1>11, <2>3, ShownNone
    <3> QED
      BY <1>1, <1>2, <2>3, <3>1 DEF Shown
  <2> QED
    BY <1>1, <1>2, <1>8, <2>1, <2>2, <2>3, DiscardCases
<1>9. CASE app.class \in {"CompletedRun", "TerminalRunFault"}
  <2>1. RestoreTerminal
    BY <1>9 DEF ProcessBoot
  <2> QED
    BY <1>1, <1>2, <1>9, <2>1
<1>10. CASE app.class = "SafeBoot"
  <2>1. /\ ram' = ram /\ UNCHANGED <<co, op>>
        /\ app' = [app EXCEPT !.life = "ServiceRequired", !.class = None]
    BY <1>10 DEF ProcessBoot
  <2>2. app'.life = "ServiceRequired"
        /\ app' = [app EXCEPT !.life = app'.life, !.class = None,
                              !.fallback = None]
    BY <1>2, <1>11, <2>1, ShownNone
  <2> QED
    BY <1>1, <1>2, <2>1, <2>2 DEF Shown
<1> QED
  BY <1>1, <1>3, <1>4, <1>5, <1>6, <1>7, <1>8, <1>9, <1>10 DEF Classes

\* processBootDecision() keeps the structure.
LEMMA BootStructure ==
  ASSUME Structure, ProcessBoot
  PROVE  Structure'
<1>1. /\ op = None /\ app.life = "Initializing" /\ app.class # None
      /\ boot.handoff = "None"
      /\ UNCHANGED <<flash, boot, clock, budget>>
      /\ \/ StartsSome
         \/ /\ RejectRecovery \/ AwaitTrustedTime
            /\ co.state = "LoadedActiveRun" /\ co.loaded # None
            /\ LoadedRun.phase = "Fermenting"
         \/ /\ RestoreTerminal
            /\ app.class \in {"CompletedRun", "TerminalRunFault"}
         \/ /\ Shown(None) /\ app'.life \in {"Ready", "ServiceRequired"}
            /\ \/ ram' = ram
               \/ co.state = "ReadyEmpty" /\ ram' = NoRun(0)
         \/ /\ Shown(LoadedRun) /\ app'.life = "Ready" /\ ram' = ram
            /\ co.state = "FallbackRecoveryPending"
  BY BootCases
<1>2. CASE StartsSome
  BY <1>2, StartsStructure DEF StartsSome
<1>3. CASE /\ RejectRecovery \/ AwaitTrustedTime
           /\ co.state = "LoadedActiveRun" /\ LoadedRun.phase = "Fermenting"
  BY <1>1, <1>3, RejectStructure
<1>4. CASE RestoreTerminal
           /\ app.class \in {"CompletedRun", "TerminalRunFault"}
  BY <1>1, <1>4, RestoreStructure
<1>5. CASE /\ Shown(None) /\ app'.life \in {"Ready", "ServiceRequired"}
           /\ \/ ram' = ram
              \/ co.state = "ReadyEmpty" /\ ram' = NoRun(0)
  BY <1>1, <1>5, ShownStructure
<1>6. CASE /\ Shown(LoadedRun) /\ app'.life = "Ready" /\ ram' = ram
           /\ co.state = "FallbackRecoveryPending"
  BY <1>1, <1>6, ShownStructure
<1> QED
  BY <1>1, <1>2, <1>3, <1>4, <1>5, <1>6

\* update() evaluates again what waits for trusted time.
LEMMA UpdateCases ==
  ASSUME Structure, Update
  PROVE  /\ op = None /\ app.life = "Ready" /\ boot.handoff = "None"
         /\ co.state = "LoadedActiveRun" /\ co.loaded # None
         /\ LoadedRun.phase = "Fermenting"
         /\ UNCHANGED <<flash, boot, clock, budget>>
         /\ StartsSome \/ RejectRecovery \/ AwaitTrustedTime
<1>1. /\ op = None /\ app.life = "Ready"
      /\ app.disposition = "WaitingForTrustedTime"
      /\ EvaluateRecovery /\ UNCHANGED <<flash, boot, clock, budget>>
  BY DEF Update, Serving, Idle
<1>2. boot.handoff = "None"
  BY <1>1 DEF Structure, Modes
<1> QED
  BY <1>1, <1>2, EvaluateCases

\* update() keeps the structure.
LEMMA UpdateStructure ==
  ASSUME Structure, Update
  PROVE  Structure'
<1>1. /\ op = None /\ app.life = "Ready" /\ boot.handoff = "None"
      /\ co.state = "LoadedActiveRun" /\ LoadedRun.phase = "Fermenting"
      /\ UNCHANGED <<flash, boot, clock, budget>>
      /\ StartsSome \/ RejectRecovery \/ AwaitTrustedTime
  BY UpdateCases
<1>2. CASE StartsSome
  BY <1>2, StartsStructure DEF StartsSome
<1>3. CASE RejectRecovery \/ AwaitTrustedTime
  BY <1>1, <1>3, RejectStructure
<1> QED
  BY <1>1, <1>2, <1>3

\* A boot loads, with no handoff open or at the end of one.
LEMMA LoadCases ==
  ASSUME Structure, BootLoad \/ HandoffConsume
  PROVE  /\ op = None /\ op' = None /\ flash' = flash /\ clock' = clock
         /\ boot' \in [epoch : Nat \ {0}, handoff : {"None"}]
         /\ boot'.epoch = boot.epoch /\ boot'.handoff = "None"
         /\ LoadRun(boot.epoch) /\ app.life \in {"Off", "Handoff"}
         /\ boot.handoff # "None" =>
              flash["rh0"] = HandoffHead(boot.epoch)
<1>1. TypeOK /\ Modes
  BY DEF Structure
<1>2. CASE BootLoad
  BY <1>1, <1>2 DEF BootLoad, TypeOK, Modes
<1>3. CASE HandoffConsume
  BY <1>1, <1>3 DEF HandoffConsume, TypeOK, Modes
<1> QED
  BY <1>2, <1>3

-----------------------------------------------------------------------------
(* The writes of a transaction *)

\* One write of the transaction: its key holds the old value, the new one or
\* nothing that can be read.
LEMMA WriteCases ==
  ASSUME Structure, WriteStep
  PROVE  /\ op # None /\ op \in Transactions
         /\ TypeOK /\ Steady /\ Modes /\ Waiting /\ Underway /\ Present
         /\ HeadKept
         /\ boot' = boot /\ clock' = clock /\ DOMAIN flash' = Keys
         /\ budget' \in [presses : Nat, troubles : Nat, damage : BOOLEAN,
                         lost : Nat]
         /\ budget'.lost = budget.lost
         /\ op.step = "CheckpointSlot" =>
              /\ flash'["rh0"] = flash["rh0"]
              /\ flash'["rc0"] \in {flash["rc0"], op.record, Corrupt}
              /\ flash'["rc1"] \in {flash["rc1"], op.record, Corrupt}
         /\ op.step # "CheckpointSlot" =>
              /\ flash'["rc0"] = flash["rc0"] /\ flash'["rc1"] = flash["rc1"]
              /\ flash'["rh0"] \in {flash["rh0"], StepValue, Corrupt}
         /\ \/ /\ AdvanceTransaction
               /\ flash'[StepKey] = StepValue
            \/ /\ FailTransaction("NotWritten")
               /\ \A k \in Keys : flash'[k] = flash[k]
            \/ FailTransaction("Indeterminate")
<1>1. /\ TypeOK /\ Steady /\ Modes /\ Waiting /\ Underway /\ Present
      /\ HeadKept
      /\ op # None /\ op \in Transactions /\ DOMAIN flash = Keys
      /\ boot' = boot /\ clock' = clock
  BY DEF Structure, WriteStep, TypeOK
<1>2. PICK r \in WriteResults(flash[StepKey], StepValue) :
        /\ flash' = [flash EXCEPT ![StepKey] = r[1]]
        /\ Spend(r[2])
        /\ IF r[2] = "Written" THEN AdvanceTransaction
           ELSE FailTransaction(r[2])
  BY DEF WriteStep
<1>3. /\ r[1] \in {flash[StepKey], StepValue, Corrupt}
      /\ r[2] \in {"Written", "NotWritten", "Indeterminate"}
      /\ r[2] = "Written" => r[1] = StepValue
      /\ r[2] = "NotWritten" => r[1] = flash[StepKey]
      /\ budget' \in [presses : Nat, troubles : Nat, damage : BOOLEAN,
                      lost : Nat]
      /\ budget'.lost = budget.lost
  BY <1>1, <1>2, WriteFacts
<1>4. /\ op.target \in {0, 1} /\ StepKey \in Keys
      /\ op.step = "CheckpointSlot" =>
           StepKey \in {"rc0", "rc1"} /\ StepValue = op.record
      /\ op.step # "CheckpointSlot" => StepKey = "rh0"
  BY <1>1 DEF Transactions, StepKey, SlotKey, Keys, StepValue
<1> HIDE DEF StepKey, StepValue
<1>5. DOMAIN flash' = Keys /\ flash'[StepKey] = r[1]
      /\ \A k \in Keys \ {StepKey} : flash'[k] = flash[k]
  BY <1>1, <1>2, <1>4
<1>6. op.step = "CheckpointSlot" =>
        /\ flash'["rh0"] = flash["rh0"]
        /\ flash'["rc0"] \in {flash["rc0"], op.record, Corrupt}
        /\ flash'["rc1"] \in {flash["rc1"], op.record, Corrupt}
  BY <1>3, <1>4, <1>5 DEF Keys
<1>7. op.step # "CheckpointSlot" =>
        /\ flash'["rc0"] = flash["rc0"] /\ flash'["rc1"] = flash["rc1"]
        /\ flash'["rh0"] \in {flash["rh0"], StepValue, Corrupt}
  BY <1>3, <1>4, <1>5 DEF Keys
<1>8. r[2] = "NotWritten" => \A k \in Keys : flash'[k] = flash[k]
  BY <1>3, <1>5
<1> QED
  BY <1>1, <1>2, <1>3, <1>5, <1>6, <1>7, <1>8

\* How the caller takes a failed transaction
LEMMA FailFields ==
  ASSUME Structure, op # None, NEW result \in {"NotWritten", "Indeterminate"},
         FailTransaction(result)
  PROVE  /\ op' = None
         /\ co' \in Coordinators /\ co'.head = co.head
         /\ co'.loaded = co.loaded /\ co'.epoch = co.epoch
         /\ co'.state \in {op.rollback, "BlockedIndeterminate"}
         /\ co'.state # "BlockedIndeterminate" =>
              /\ result = "NotWritten"
              /\ op.kind = "Periodic" \/ op.step = "PreparedHead"
         /\ app' \in Applications /\ app'.epoch = app.epoch
         /\ app'.class = None /\ app'.fallback = app.fallback
         /\ app'.disposition # "WaitingForTrustedTime"
         /\ app'.life \in {app.life, "Ready", "ServiceRequired"}
         /\ app'.requests = app.requests /\ app'.nextId = app.nextId
         /\ ram' \in RunStates \cup {None}
         /\ op.kind = "Recover" =>
              ram' = Run(LoadedRun.id, "RecoveryEvaluation", clock.up,
                         LoadedRun.prior)
         /\ op.kind # "Recover" => ram' = ram
<1>1. /\ TypeOK /\ Steady /\ Modes /\ Waiting /\ Underway
      /\ op \in Transactions
  BY DEF Structure, TypeOK
<1>2. /\ op' = None /\ ApplyFailure
      /\ co' = [co EXCEPT !.state =
                  IF result = "NotWritten"
                     /\ (op.kind = "Periodic" \/ op.step = "PreparedHead")
                  THEN op.rollback ELSE "BlockedIndeterminate"]
  BY DEF FailTransaction
<1>3. /\ co' \in Coordinators /\ co'.head = co.head
      /\ co'.loaded = co.loaded /\ co'.epoch = co.epoch
      /\ co'.state \in {op.rollback, "BlockedIndeterminate"}
      /\ co'.state # "BlockedIndeterminate" =>
           /\ result = "NotWritten"
           /\ op.kind = "Periodic" \/ op.step = "PreparedHead"
  <2>1. op.rollback \in Usable
    BY <1>1 DEF Transactions
  <2> QED
    BY <1>1, <1>2, <2>1 DEF TypeOK, Coordinators
<1>4. /\ app.class = None
      /\ app.disposition # "WaitingForTrustedTime" /\ app \in Applications
  BY <1>1 DEF Modes, Waiting, TypeOK
<1>5. CASE op.kind = "Recover"
  <2>1. /\ ram' = Run(LoadedRun.id, "RecoveryEvaluation", clock.up,
                      LoadedRun.prior)
        /\ app' = [app EXCEPT !.life = "Ready", !.disposition = "Rejected"]
    BY <1>2, <1>5 DEF ApplyFailure, LoadedRun
  <2>2. co.loaded \in Records
    BY <1>1, <1>5 DEF Underway, Steady, Standing, TypeOK, Coordinators
  <2>3. LoadedRun \in RunStates /\ clock.up \in Nat
    BY <1>1, <2>2 DEF Records, Snapshots, LoadedRun, TypeOK
  <2>4. /\ LoadedRun.id \in RunIds \cup {None}
        /\ LoadedRun.prior \in Int \cup {None}
    BY <2>3 DEF RunStates
  <2>5. ram' \in RunStates
    BY <2>1, <2>3, <2>4, RunType
  <2>6. /\ app' \in Applications /\ app'.epoch = app.epoch
        /\ app'.class = None /\ app'.fallback = app.fallback
        /\ app'.disposition = "Rejected" /\ app'.life = "Ready"
        /\ app'.requests = app.requests /\ app'.nextId = app.nextId
    BY <1>4, <2>1 DEF Applications, Dispositions
  <2> QED
    BY <1>2, <1>3, <1>5, <2>1, <2>5, <2>6
<1>6. CASE op.kind = "Discard"
  <2>1. app' = [app EXCEPT !.life = "ServiceRequired"] /\ ram' = ram
    BY <1>2, <1>6 DEF ApplyFailure
  <2>2. /\ app' \in Applications /\ app'.epoch = app.epoch
        /\ app'.class = None /\ app'.fallback = app.fallback
        /\ app'.disposition = app.disposition
        /\ app'.life = "ServiceRequired"
        /\ app'.requests = app.requests /\ app'.nextId = app.nextId
    BY <1>4, <2>1 DEF Applications
  <2> QED
    BY <1>1, <1>2, <1>3, <1>4, <1>6, <2>1, <2>2 DEF TypeOK
<1>7. CASE op.kind \notin {"Recover", "Discard"}
  <2>1. app' = app /\ ram' = ram
    BY <1>2, <1>7 DEF ApplyFailure
  <2> QED
    BY <1>1, <1>2, <1>3, <1>4, <1>7, <2>1 DEF TypeOK
<1> QED
  BY <1>5, <1>6, <1>7

\* A committed transaction: RAM follows the flash.
LEMMA SuccessFields ==
  ASSUME Structure, op # None, AdvanceTransaction, op.step = "CommittedHead"
  PROVE  /\ op' = None
         /\ co' \in Coordinators /\ co'.head = op.committed
         /\ co'.loaded = None /\ co'.epoch = co.epoch
         /\ co'.state = IF Active(op.after) THEN "Ready" ELSE "ReadyEmpty"
         /\ app' \in Applications /\ app'.epoch = app.epoch
         /\ app'.class = None /\ app'.fallback = None
         /\ app'.disposition # "WaitingForTrustedTime"
         /\ app'.life \in {app.life, "Ready"}
         /\ app'.requests = app.requests /\ app'.nextId = app.nextId
         /\ ram' = op.after /\ op.after \in RunStates
<1>1. /\ TypeOK /\ Modes /\ Waiting /\ Underway /\ op \in Transactions
  BY DEF Structure, TypeOK
<1>2. /\ op' = None /\ ApplySuccess
      /\ co' = [co EXCEPT
           !.head = op.committed, !.loaded = None,
           !.ids = op.record.snapshot.ids, !.last = op.record.snapshot.at,
           !.state = IF Active(op.after) THEN "Ready" ELSE "ReadyEmpty"]
  BY DEF AdvanceTransaction
<1>3. /\ op.committed \in Heads \cup {None} /\ op.after \in RunStates
      /\ op.record.snapshot.ids \in Seq(Nat)
      /\ op.record.snapshot.at \in Nat
  BY <1>1 DEF Transactions, Heads, Records, Snapshots
<1>4. /\ co' \in Coordinators /\ co'.head = op.committed
      /\ co'.loaded = None /\ co'.epoch = co.epoch
      /\ co'.state = IF Active(op.after) THEN "Ready" ELSE "ReadyEmpty"
  BY <1>1, <1>2, <1>3 DEF TypeOK, Coordinators, Usable
<1>5. ram' = op.after
  BY <1>1, <1>2 DEF ApplySuccess, Underway
<1>6. /\ app.class = None
      /\ app.disposition # "WaitingForTrustedTime" /\ app \in Applications
      /\ op.kind # "Fallback" => app.fallback = None
  BY <1>1 DEF Modes, Waiting, TypeOK
<1>7. CASE op.kind = "Recover"
  <2>1. app' = [app EXCEPT !.life = "Ready",
                           !.disposition = "CurrentRunRecoverable"]
    BY <1>2, <1>7 DEF ApplySuccess
  <2> QED
    BY <1>2, <1>3, <1>4, <1>5, <1>6, <1>7, <2>1
    DEF Applications, Dispositions
<1>8. CASE op.kind = "Discard"
  <2>1. app' = [app EXCEPT !.life = "Ready"]
    BY <1>2, <1>8 DEF ApplySuccess
  <2> QED
    BY <1>2, <1>3, <1>4, <1>5, <1>6, <1>8, <2>1 DEF Applications
<1>9. CASE op.kind = "Fallback"
  <2>1. app' = [app EXCEPT !.fallback = None]
    BY <1>2, <1>9 DEF ApplySuccess
  <2> QED
    BY <1>2, <1>3, <1>4, <1>5, <1>6, <1>9, <2>1 DEF Applications
<1>10. CASE op.kind \notin {"Recover", "Discard", "Fallback"}
  <2>1. app' = app
    BY <1>2, <1>10 DEF ApplySuccess
  <2> QED
    BY <1>2, <1>3, <1>4, <1>5, <1>6, <1>10, <2>1
<1> QED
  BY <1>7, <1>8, <1>9, <1>10

\* Between two writes
LEMMA AdvanceFields ==
  ASSUME Structure, op # None, AdvanceTransaction, op.step # "CommittedHead"
  PROVE  /\ op' \in Transactions /\ op' # None
         /\ op'.kind = op.kind /\ op'.after = op.after
         /\ op'.record = op.record /\ op'.target = op.target
         /\ op'.rollback = op.rollback /\ op'.committed = op.committed
         /\ op'.step = IF op.step = "PreparedHead" THEN "CheckpointSlot"
                       ELSE "CommittedHead"
         /\ co' \in Coordinators /\ co'.head = co.head
         /\ co'.loaded = co.loaded /\ co'.epoch = co.epoch
         /\ co'.state = co.state
         /\ ram' = ram /\ app' = app
<1>1. TypeOK /\ op \in Transactions /\ op.step \in {"PreparedHead",
        "CheckpointSlot"} /\ co \in Coordinators
  BY DEF Structure, TypeOK, Transactions
<1>2. CASE op.step = "PreparedHead"
  <2>1. /\ op' = [op EXCEPT !.step = "CheckpointSlot"]
        /\ UNCHANGED <<co, ram, app>>
    BY <1>2 DEF AdvanceTransaction
  <2>2. op' \in Transactions
    BY <1>1, <2>1 DEF Transactions
  <2>3. op' # None
    BY <2>2, RunStoreNone
  <2> QED
    BY <1>1, <1>2, <2>1, <2>2, <2>3 DEF Transactions
<1>3. CASE op.step = "CheckpointSlot"
  <2>1. /\ op' = [op EXCEPT !.step = "CommittedHead"]
        /\ co' = [co EXCEPT !.next = After(op.record.revision)]
        /\ UNCHANGED <<ram, app>>
    BY <1>3 DEF AdvanceTransaction
  <2>2. op' \in Transactions
    BY <1>1, <2>1 DEF Transactions
  <2>3. op' # None
    BY <2>2, RunStoreNone
  <2>4. After(op.record.revision) \in Nat
    BY <1>1, AfterType DEF Transactions, Records
  <2>5. /\ co' \in Coordinators /\ co'.head = co.head
        /\ co'.loaded = co.loaded /\ co'.epoch = co.epoch
        /\ co'.state = co.state
    BY <1>1, <2>1, <2>4 DEF Coordinators
  <2> QED
    BY <1>1, <1>3, <2>1, <2>2, <2>3, <2>5 DEF Transactions
<1> QED
  BY <1>1, <1>2, <1>3

\* What a write leaves is a head, a record or nothing that can be read.
LEMMA WriteFlashType ==
  ASSUME Structure, WriteStep
  PROVE  /\ DOMAIN flash' = Keys
         /\ flash'["rh0"] \in Heads \cup {Absent, Corrupt}
         /\ flash'["rc0"] \in Records \cup {Absent, Corrupt}
         /\ flash'["rc1"] \in Records \cup {Absent, Corrupt}
         /\ HeadKept'
<1>1. /\ op \in Transactions /\ TypeOK /\ Underway /\ HeadKept
      /\ DOMAIN flash' = Keys
      /\ op.step = "CheckpointSlot" =>
           /\ flash'["rh0"] = flash["rh0"]
           /\ flash'["rc0"] \in {flash["rc0"], op.record, Corrupt}
           /\ flash'["rc1"] \in {flash["rc1"], op.record, Corrupt}
      /\ op.step # "CheckpointSlot" =>
           /\ flash'["rc0"] = flash["rc0"] /\ flash'["rc1"] = flash["rc1"]
           /\ flash'["rh0"] \in {flash["rh0"], StepValue, Corrupt}
  BY WriteCases
<1>2. /\ flash["rh0"] \in Heads \cup {Absent, Corrupt}
      /\ flash["rc0"] \in Records \cup {Absent, Corrupt}
      /\ flash["rc1"] \in Records \cup {Absent, Corrupt}
  BY <1>1 DEF TypeOK
<1>3. /\ op.record \in Records /\ op.prepared \in PreparedHeads
      /\ op.committed \in CommittedHeads /\ HeadSane(op.committed)
  BY <1>1 DEF Transactions, Underway
<1>4. op.step # "CheckpointSlot" => StepValue \in {op.prepared, op.committed}
  BY DEF StepValue
<1>5. CASE op.step = "CheckpointSlot"
  BY <1>1, <1>2, <1>3, <1>5 DEF HeadKept
<1>6. CASE op.step # "CheckpointSlot"
  <2>1. op.prepared \in Heads /\ op.committed \in Heads
        /\ op.prepared.state = "Prepared"
    BY <1>3 DEF Heads, PreparedHeads
  <2>2. flash'["rh0"] \in {flash["rh0"], op.prepared, op.committed, Corrupt}
    BY <1>1, <1>4, <1>6
  <2>3. HeadKept'
    BY <1>1, <1>3, <2>1, <2>2 DEF HeadKept, Readable
  <2> QED
    BY <1>1, <1>2, <1>6, <2>1, <2>2, <2>3
<1> QED
  BY <1>5, <1>6

\* A write that failed leaves a transaction rolled back, or blocked.
LEMMA FailStructure ==
  ASSUME Structure, WriteStep, NEW result \in {"NotWritten", "Indeterminate"},
         FailTransaction(result),
         result = "NotWritten" => \A k \in Keys : flash'[k] = flash[k]
  PROVE  Structure'
<1>1. /\ op # None /\ op \in Transactions
      /\ TypeOK /\ Steady /\ Modes /\ Waiting /\ Underway /\ Present
      /\ boot' = boot /\ clock' = clock
      /\ budget' \in [presses : Nat, troubles : Nat, damage : BOOLEAN,
                      lost : Nat]
  BY WriteCases
<1>2. /\ op' = None
      /\ co' \in Coordinators /\ co'.head = co.head
      /\ co'.loaded = co.loaded /\ co'.epoch = co.epoch
      /\ co'.state \in {op.rollback, "BlockedIndeterminate"}
      /\ co'.state # "BlockedIndeterminate" => result = "NotWritten"
      /\ app' \in Applications /\ app'.epoch = app.epoch
      /\ app'.class = None /\ app'.fallback = app.fallback
      /\ app'.disposition # "WaitingForTrustedTime"
      /\ app'.life \in {app.life, "Ready", "ServiceRequired"}
      /\ ram' \in RunStates \cup {None}
      /\ op.kind = "Recover" =>
           ram' = Run(LoadedRun.id, "RecoveryEvaluation", clock.up,
                      LoadedRun.prior)
      /\ op.kind # "Recover" => ram' = ram
  BY <1>1, FailFields
<1>3. TypeOK'
  BY <1>1, <1>2, WriteFlashType DEF TypeOK
<1>4. /\ Standing' = co'.state /\ CurrentRun' = CurrentRun
      /\ LoadedRun' = LoadedRun /\ Standing = op.rollback
      /\ op.rollback \in Usable
  BY <1>1, <1>2 DEF Standing, CurrentRun, LoadedRun, Transactions
<1>5. /\ op.kind = "Recover" => ram'.id = LoadedRun.id
                                /\ op.rollback = "LoadedActiveRun"
  BY <1>1, <1>2 DEF Run, Underway
<1>6. Steady'
  <2>1. CASE co'.state = "BlockedIndeterminate"
    BY <1>4, <2>1 DEF Steady, Usable
  <2>2. CASE co'.state = op.rollback /\ op.kind = "Recover"
    BY <1>1, <1>2, <1>4, <1>5, <2>2 DEF Steady
  <2>3. CASE co'.state = op.rollback /\ op.kind # "Recover"
    BY <1>1, <1>2, <1>4, <2>3 DEF Steady
  <2> QED
    BY <1>2, <2>1, <2>2, <2>3
<1>7. Modes'
  <2>1. op.rollback \notin {"Busy"}
    BY <1>4 DEF Usable
  <2>2. app.fallback # None => op.kind = "Fallback"
    BY <1>1 DEF Modes
  <2>3. op.kind = "Fallback" => op.rollback = "FallbackRecoveryPending"
    BY <1>1 DEF Underway
  <2>4. app.life \in {"Initializing", "Ready"}
    BY <1>1 DEF Modes
  <2> QED
    BY <1>1, <1>2, <1>4, <2>1, <2>2, <2>3, <2>4 DEF Modes
<1>8. Waiting'
  BY <1>2, RunStoreNone DEF Waiting, Classes
<1>9. Present'
  <2>1. CASE co'.state = "BlockedIndeterminate"
    BY <1>2, <1>4, <2>1 DEF Present
  <2>2. CASE co'.state # "BlockedIndeterminate"
    <3>1. \A k \in Keys : flash'[k] = flash[k]
      BY <1>2, <2>2
    <3>2. /\ flash'["rh0"] = flash["rh0"] /\ flash'["rc0"] = flash["rc0"]
          /\ flash'["rc1"] = flash["rc1"]
      BY <3>1 DEF Keys
    <3> QED
      BY <1>1, <1>2, <1>4, <2>2, <3>2 DEF Present
  <2> QED
    BY <2>1, <2>2
<1>10. HeadKept'
  BY WriteFlashType
<1> QED
  BY <1>2, <1>3, <1>6, <1>7, <1>8, <1>9, <1>10 DEF Structure

\* A finished write publishes its run and its head.
LEMMA SuccessStructure ==
  ASSUME Structure, WriteStep, AdvanceTransaction, op.step = "CommittedHead"
  PROVE  Structure'
<1>1. /\ op # None /\ op \in Transactions
      /\ TypeOK /\ Steady /\ Modes /\ Waiting /\ Underway /\ Present
      /\ boot' = boot /\ clock' = clock
      /\ budget' \in [presses : Nat, troubles : Nat, damage : BOOLEAN,
                      lost : Nat]
  BY WriteCases
<1>2. /\ op' = None
      /\ co' \in Coordinators /\ co'.head = op.committed
      /\ co'.loaded = None /\ co'.epoch = co.epoch
      /\ co'.state = IF Active(op.after) THEN "Ready" ELSE "ReadyEmpty"
      /\ app' \in Applications /\ app'.epoch = app.epoch
      /\ app'.class = None /\ app'.fallback = None
      /\ app'.disposition # "WaitingForTrustedTime"
      /\ app'.life \in {app.life, "Ready"}
      /\ ram' = op.after /\ op.after \in RunStates
  BY <1>1, SuccessFields
<1>3. TypeOK'
  BY <1>1, <1>2, WriteFlashType DEF TypeOK
<1>4. /\ HeadSane(op.committed) /\ op.committed.epoch = co.epoch
      /\ op.committed.current.snapshot.run = op.after
  BY <1>1 DEF Underway, Reference
<1>5. Standing' = co'.state /\ CurrentRun' = op.after
  BY <1>2, <1>4 DEF Standing, CurrentRun
<1>6. op.after # None /\ op.committed # None
  BY <1>2, <1>4, RunStoreNone DEF HeadSane, Heads
<1>7. Steady'
  <2>1. CASE Active(op.after)
    BY <1>2, <1>4, <1>5, <1>6, <2>1 DEF Steady, Usable
  <2>2. CASE ~Active(op.after)
    BY <1>2, <1>4, <1>5, <1>6, <2>2 DEF Steady, Usable
  <2> QED
    BY <2>1, <2>2
<1>8. Modes'
  BY <1>1, <1>2 DEF Modes
<1>9. Waiting'
  BY <1>2, RunStoreNone DEF Waiting, Classes
<1>10. Present'
  BY <1>2, <1>5 DEF Present
<1>11. HeadKept'
  BY WriteFlashType
<1> QED
  BY <1>2, <1>3, <1>7, <1>8, <1>9, <1>10, <1>11 DEF Structure

\* A write goes on to its next key.
LEMMA AdvanceStructure ==
  ASSUME Structure, WriteStep, AdvanceTransaction, op.step # "CommittedHead"
  PROVE  Structure'
<1>1. /\ op # None /\ op \in Transactions
      /\ TypeOK /\ Steady /\ Modes /\ Waiting /\ Underway /\ Present
      /\ boot' = boot /\ clock' = clock
      /\ budget' \in [presses : Nat, troubles : Nat, damage : BOOLEAN,
                      lost : Nat]
      /\ op.step = "CheckpointSlot" =>
           /\ flash'["rh0"] = flash["rh0"]
           /\ flash'["rc0"] \in {flash["rc0"], op.record, Corrupt}
           /\ flash'["rc1"] \in {flash["rc1"], op.record, Corrupt}
      /\ op.step # "CheckpointSlot" =>
           flash'["rc0"] = flash["rc0"] /\ flash'["rc1"] = flash["rc1"]
  BY WriteCases
<1>2. /\ op' \in Transactions /\ op' # None
      /\ op'.kind = op.kind /\ op'.after = op.after
      /\ op'.record = op.record /\ op'.target = op.target
      /\ op'.rollback = op.rollback /\ op'.committed = op.committed
      /\ op'.step = IF op.step = "PreparedHead" THEN "CheckpointSlot"
                    ELSE "CommittedHead"
      /\ co' \in Coordinators /\ co'.head = co.head
      /\ co'.loaded = co.loaded /\ co'.epoch = co.epoch
      /\ co'.state = co.state
      /\ ram' = ram /\ app' = app
  BY <1>1, AdvanceFields
<1>3. op.step \in {"PreparedHead", "CheckpointSlot"} /\ op.target \in {0, 1}
      /\ op.record \in Records /\ op.prepared \in Heads
  BY <1>1 DEF Transactions, Heads
<1>4. flash'[StepKey] = StepValue
  <2>1. FailTransaction("NotWritten") => op' = None
    BY DEF FailTransaction
  <2>2. FailTransaction("Indeterminate") => op' = None
    BY DEF FailTransaction
  <2> QED
    BY <1>2, <2>1, <2>2, WriteCases
<1>5. /\ op.step = "PreparedHead" => flash'["rh0"] = op.prepared
      /\ op.step = "CheckpointSlot" =>
           op.record \in {flash'["rc0"], flash'["rc1"]}
  BY <1>3, <1>4 DEF StepKey, StepValue, SlotKey
<1>6. TypeOK'
  BY <1>1, <1>2, WriteFlashType DEF TypeOK
<1>7. /\ Standing' = Standing /\ CurrentRun' = CurrentRun
      /\ LoadedRun' = LoadedRun
  BY <1>1, <1>2 DEF Standing, CurrentRun, LoadedRun
<1>8. Steady'
  BY <1>1, <1>2, <1>7 DEF Steady
<1>9. Modes'
  BY <1>1, <1>2, <1>7 DEF Modes
<1>10. Waiting'
  BY <1>1, <1>2, <1>7 DEF Waiting
<1>11. Underway'
  BY <1>1, <1>2, <1>7 DEF Underway
<1>12. Present'
  <2>1. op.record # Absent /\ op.prepared # Absent
    BY <1>3, RunStoreNone
  <2>2. CASE op.step = "PreparedHead"
    <3>1. op'.step = "CheckpointSlot" /\ flash'["rh0"] # Absent
      BY <1>2, <1>5, <2>1, <2>2
    <3> QED
      BY <1>1, <1>7, <2>2, <3>1 DEF Present
  <2>3. CASE op.step = "CheckpointSlot"
    <3>1. {flash'["rc0"], flash'["rc1"]} # {Absent}
      BY <1>5, <2>1, <2>3
    <3> QED
      BY <1>1, <1>7, <2>3, <3>1 DEF Present
  <2> QED
    BY <1>3, <2>2, <2>3
<1>13. HeadKept'
  BY WriteFlashType
<1> QED
  BY <1>2, <1>6, <1>8, <1>9, <1>10, <1>11, <1>12, <1>13 DEF Structure

\* Every outcome of a write keeps the structure.
LEMMA WriteStructure ==
  ASSUME Structure, WriteStep
  PROVE  Structure'
<1>1. \/ AdvanceTransaction
      \/ /\ FailTransaction("NotWritten")
         /\ \A k \in Keys : flash'[k] = flash[k]
      \/ FailTransaction("Indeterminate")
  BY WriteCases
<1>2. CASE AdvanceTransaction
  BY <1>2, SuccessStructure, AdvanceStructure
<1>3. CASE /\ FailTransaction("NotWritten")
           /\ \A k \in Keys : flash'[k] = flash[k]
  BY <1>3, FailStructure
<1>4. CASE FailTransaction("Indeterminate")
  BY <1>4, FailStructure
<1> QED
  BY <1>1, <1>2, <1>3, <1>4

-----------------------------------------------------------------------------
(* Every step keeps the structure *)

\* A device that was never used
LEMMA InitStructure ==
  ASSUME Init
  PROVE  Structure
<1>1. /\ DOMAIN flash = Keys /\ flash["rh0"] = Absent
      /\ flash["rc0"] = Absent /\ flash["rc1"] = Absent
  BY DEF Init, Keys
<1>2. /\ boot = [epoch |-> 1, handoff |-> "None"] /\ co = Uninitialized(1)
      /\ app = Off(1) /\ ram = None /\ op = None
      /\ clock = [up |-> 0, utc |-> 0, known |-> FALSE]
      /\ budget = [presses |-> PressMax, troubles |-> TroubleMax,
                   damage |-> FALSE, lost |-> 0]
  BY DEF Init
<1>3. /\ co \in Coordinators /\ co.state = "Uninitialized"
      /\ co.epoch = 1
  BY <1>2 DEF Uninitialized, Coordinators
<1>4. /\ app \in Applications /\ app.life = "Off" /\ app.class = None
      /\ app.disposition = None /\ app.fallback = None /\ app.epoch = 1
  BY <1>2 DEF Off, NoRequests, Applications
<1>5. TypeOK
  BY <1>1, <1>2, <1>3, <1>4, RunStoreConstants DEF TypeOK
<1>6. Standing = "Uninitialized"
  BY <1>2, <1>3 DEF Standing
<1>7. Steady /\ Present
  BY <1>6, <1>2 DEF Steady, Present, Usable
<1>8. Modes
  BY <1>2, <1>3, <1>4 DEF Modes
<1>9. Waiting
  BY <1>4, RunStoreNone DEF Waiting, Classes, Dispositions
<1>10. HeadKept
  BY <1>1 DEF HeadKept, Readable
<1> QED
  BY <1>2, <1>5, <1>7, <1>8, <1>9, <1>10 DEF Structure

\* Every step
LEMMA StructureStep ==
  ASSUME Structure, [Next]_vars
  PROVE  Structure'
<1>1. CASE UNCHANGED vars
  BY <1>1 DEF vars, Structure, TypeOK, Steady, Standing, CurrentRun,
    LoadedRun, Modes, Waiting, Underway, Present, HeadKept
<1>2. CASE WriteStep
  BY <1>2, WriteStructure
<1>3. CASE \E s \in Surfaces : Prepare(s) \/ Confirm(s)
  <2>1. PICK s \in Surfaces : Prepare(s) \/ Confirm(s)
    BY <1>3
  <2>2. CASE Prepare(s)
    BY <2>2, PrepareStructure
  <2>3. CASE Confirm(s) /\ StartsSome
    BY <2>3, StartsStructure DEF StartsSome
  <2>4. CASE /\ Confirm(s)
             /\ app' = [app EXCEPT !.requests[s] = None]
             /\ UNCHANGED <<flash, boot, co, op, ram, clock, budget>>
    BY <2>4, RefusedStructure
  <2> QED
    BY <2>1, <2>2, <2>3, <2>4, ConfirmCases
<1>4. CASE PersistTransition \/ CheckpointPeriodic \/ ResumeFallback
  BY <1>4, TransitionStarts, PeriodicStarts, FallbackStarts, StartsStructure
  DEF StartsSome
<1>5. CASE Update
  BY <1>5, UpdateStructure
<1>6. CASE BootLoad \/ HandoffConsume
  BY <1>6, LoadCases, LoadStructure
<1>7. CASE ProcessBoot
  BY <1>7, BootStructure
<1>8. CASE FactoryReset
  BY <1>8, FactoryResetStructure
<1>9. CASE \/ HandoffSlot \/ HandoffCommit \/ HandoffFinalize
           \/ HandoffRejected
  BY <1>9, HandoffSteps, HandoffStructure
<1>10. CASE Tick \/ TimeBecomesKnown
  BY <1>10, ClockStructure
<1>11. CASE PowerLoss
  BY <1>11, PowerLossStructure
<1>12. CASE LoseRecord
  BY <1>12, LoseRecordStructure
<1> QED
  BY <1>1, <1>2, <1>3, <1>4, <1>5, <1>6, <1>7, <1>8, <1>9, <1>10, <1>11,
     <1>12 DEF Next

\* The observer only remembers runs and origins.
LEMMA ObserverStep ==
  ASSUME Structure', ObserverOK, [MCNext]_mcvars
  PROVE  ObserverOK'
<1>1. CASE UNCHANGED mcvars
  BY <1>1 DEF mcvars, ObserverOK
<1>2. CASE MCNext
  <2>1. /\ runs' = [id \in DOMAIN runs \cup Ids(ram') |->
                      IF id \in DOMAIN runs THEN Status(id, runs[id])
                      ELSE "Live"]
        /\ origins' = origins \cup
             IF op = None /\ op' # None /\ op'.after.phase = "Fermenting"
                /\ op'.kind \in {"Command", "Transition"}
             THEN {<<op'.after.id, op'.record.utc>>} ELSE {}
    BY <1>2 DEF MCNext, Observe
  <2>2. Ids(ram') \subseteq RunIds
    <3>1. ram' \in RunStates \cup {None}
      BY DEF Structure, TypeOK
    <3> QED
      BY <3>1 DEF Ids, Active, RunStates
  <2>3. DOMAIN runs' \subseteq RunIds
    BY <2>1, <2>2 DEF ObserverOK
  <2>4. \A id \in DOMAIN runs' : runs'[id] \in {"Live", "Ending", "Ended"}
    <3> SUFFICES ASSUME NEW id \in DOMAIN runs'
                 PROVE  runs'[id] \in {"Live", "Ending", "Ended"}
      OBVIOUS
    <3>1. id \in DOMAIN runs => runs[id] \in {"Live", "Ending", "Ended"}
      BY DEF ObserverOK
    <3>2. Status(id, runs[id]) \in {"Ended", "Ending", runs[id]}
      BY DEF Status
    <3> QED
      BY <2>1, <3>1, <3>2
  <2>5. op' # None /\ op'.after.phase = "Fermenting" =>
          <<op'.after.id, op'.record.utc>> \in (RunIds \cup {None}) \X Int
    <3> SUFFICES ASSUME op' # None, op'.after.phase = "Fermenting"
                 PROVE  /\ op'.after.id \in RunIds \cup {None}
                        /\ op'.record.utc \in Int
      OBVIOUS
    <3>1. op' \in Transactions /\ clock'.utc \in Int
      BY DEF Structure, TypeOK
    <3>2. op'.record.utc = clock'.utc
      BY DEF Structure, Underway
    <3> QED
      BY <3>1, <3>2 DEF Transactions, RunStates
  <2>6. origins' \subseteq (RunIds \cup {None}) \X Int
    BY <2>1, <2>5 DEF ObserverOK
  <2> QED
    BY <2>3, <2>4, <2>6 DEF ObserverOK
<1> QED
  BY <1>1, <1>2

-----------------------------------------------------------------------------
(* What the records know of time *)

\* Phase time of earlier boots
Earlier(r) == IF r.prior = None THEN 0 ELSE r.prior

\* At `up` of a boot and `utc` on the wall, a fermenting run has its time
\* since one of the known origins; by `now` a completed one has its duration.
RunTrue(r, up, utc, now, known) ==
  /\ r.phase = "Fermenting" =>
       <<r.id, utc - (Earlier(r) + up - r.entered)>> \in known
  /\ r.phase = "Completed" =>
       \E o \in known : o[1] = r.id /\ now - o[2] >= Duration

RecordTrue(v, now, known) ==
  /\ v.snapshot.run.phase = "Fermenting" => v.utc # None
  /\ RunTrue(v.snapshot.run, v.snapshot.at, v.utc, now, known)
  /\ ValidSnapshot(v.snapshot)

TimeTrue ==
  /\ ram # None =>
       /\ RunTrue(ram, clock.up, clock.utc, clock.utc, origins)
       /\ ram.prior # None => ram.phase \in {"Fermenting", "RecoveryEvaluation"}
  /\ \A k \in {"rc0", "rc1"} :
       Readable(flash[k]) => RecordTrue(flash[k], clock.utc, origins)
  /\ co.loaded # None => RecordTrue(co.loaded, clock.utc, origins)
  /\ op # None => RecordTrue(op.record, clock.utc, origins)

\* What was true stays true.
LEMMA TrueGrows ==
  ASSUME NEW known \in SUBSET ((RunIds \cup {None}) \X Int), NEW more,
         known \subseteq more, NEW now \in Nat, NEW later \in Nat, now <= later
  PROVE  /\ \A r, up, utc : RunTrue(r, up, utc, now, known)
              => RunTrue(r, up, utc, later, more)
         /\ \A v : RecordTrue(v, now, known) => RecordTrue(v, later, more)
<1>1. ASSUME NEW r, NEW up, NEW utc, RunTrue(r, up, utc, now, known)
      PROVE  RunTrue(r, up, utc, later, more)
  <2>1. ASSUME r.phase = "Completed"
        PROVE  \E o \in more : o[1] = r.id /\ later - o[2] >= Duration
    <3>1. PICK o \in known : o[1] = r.id /\ now - o[2] >= Duration
      BY <1>1, <2>1 DEF RunTrue
    <3>2. o[2] \in Int
      BY <3>1
    <3>3. later - o[2] >= Duration
      BY <3>1, <3>2, RunStoreConstants
    <3> QED
      BY <3>1, <3>3
  <2> QED
    BY <1>1, <2>1 DEF RunTrue
<1> QED
  BY <1>1 DEF RecordTrue

\* What a step leaves of it
LEMMA TimeFrame ==
  ASSUME TypeOK, ObserverOK, TimeTrue, TypeOK', clock.utc <= clock'.utc,
         origins \subseteq origins'
  PROVE  /\ \A v \in {flash["rc0"], flash["rc1"]} :
              Readable(v) => RecordTrue(v, clock'.utc, origins')
         /\ co.loaded # None => RecordTrue(co.loaded, clock'.utc, origins')
         /\ op # None => RecordTrue(op.record, clock'.utc, origins')
         /\ ram # None =>
              RunTrue(ram, clock.up, clock.utc, clock'.utc, origins')
<1>1. clock.utc \in Nat /\ clock'.utc \in Nat
  BY DEF TypeOK
<1>2. origins \in SUBSET ((RunIds \cup {None}) \X Int)
  BY DEF ObserverOK
<1>3. /\ \A r, up, utc : RunTrue(r, up, utc, clock.utc, origins)
           => RunTrue(r, up, utc, clock'.utc, origins')
      /\ \A v : RecordTrue(v, clock.utc, origins)
           => RecordTrue(v, clock'.utc, origins')
  BY <1>1, <1>2, TrueGrows
<1> QED
  BY <1>3 DEF TimeTrue

\* The time a recovery gives a loaded fermentation
LEMMA RecoveredTrue ==
  ASSUME TypeOK, NEW v \in Records, v.utc # None, NEW ending \in BOOLEAN,
         v.snapshot.run.phase = "Fermenting",
         NEW known \in SUBSET ((RunIds \cup {None}) \X Int),
         RecordTrue(v, clock.utc, known)
  PROVE  RunTrue(Recovered(v, ending), clock.up, clock.utc, clock.utc, known)
<1> DEFINE r == v.snapshot.run
           time == RecoveredTime(v)
           start == v.utc - (Earlier(r) + v.snapshot.at - r.entered)
<1>1. /\ r \in RunStates /\ v.snapshot.at \in Nat /\ v.utc \in Nat
      /\ clock.utc \in Nat /\ clock.up \in Nat
  BY DEF TypeOK, Records, Snapshots
<1>2. r.entered \in Nat /\ Earlier(r) \in Int
  BY <1>1 DEF RunStates, Earlier
<1>3. time = Earlier(r) + (v.snapshot.at - r.entered) + (clock.utc - v.utc)
  BY DEF RecoveredTime, Earlier
<1>4. <<r.id, start>> \in known
  BY DEF RecordTrue, RunTrue
<1> HIDE DEF r
<1>5. time \in Int /\ start = clock.utc - time /\ start \in Int
  BY <1>1, <1>2, <1>3
<1> HIDE DEF time, start
<1>6. CASE time < Duration
  <2> DEFINE after == Run(r.id, "Fermenting", clock.up, time)
  <2>1. Recovered(v, ending) = after
    BY <1>6 DEF Recovered, r, time
  <2>2. /\ after.phase = "Fermenting" /\ after.id = r.id
        /\ after.entered = clock.up /\ after.prior = time
    BY DEF Run
  <2>3. Earlier(after) = time
    BY <1>5, <2>2, RunStoreNone DEF Earlier
  <2> HIDE DEF after
  <2>4. clock.utc - (Earlier(after) + clock.up - after.entered) = start
    BY <1>1, <1>5, <2>2, <2>3
  <2> QED
    BY <1>4, <2>1, <2>2, <2>4 DEF RunTrue
<1>7. CASE ~(time < Duration) /\ ending
  <2>1. Recovered(v, ending).phase = "Standby"
    BY <1>7 DEF Recovered, NoRun, Run, time
  <2> QED
    BY <2>1 DEF RunTrue
<1>8. CASE ~(time < Duration) /\ ~ending
  <2>1. /\ Recovered(v, ending).phase = "Completed"
        /\ Recovered(v, ending).id = r.id
    BY <1>8 DEF Recovered, Run, r, time
  <2>2. clock.utc - start >= Duration
    BY <1>1, <1>5, <1>8, RunStoreConstants
  <2>3. \E o \in known : o[1] = r.id /\ clock.utc - o[2] >= Duration
    BY <1>4, <2>2
  <2> QED
    BY <2>1, <2>3 DEF RunTrue
<1> QED
  BY <1>6, <1>7, <1>8

\* The run that is written has its true time.
LEMMA StartsTrue ==
  ASSUME Structure, ObserverOK, TimeTrue, Observe, NEW kind, NEW after,
         NEW ids, NEW id, NEW target, NEW fallback, NEW t,
         Starts(kind, after, ids, id, target, fallback, t)
  PROVE  RunTrue(after, clock.up, clock.utc, clock.utc, origins')
<1>1. /\ TypeOK /\ Steady /\ op = None /\ op' = t /\ kind \in Kinds
      /\ Admitted(t, id) /\ BeginFits(kind, after, id, fallback)
      /\ clock.utc \in Nat /\ clock.up \in Nat /\ clock' = clock
  BY DEF Structure, Starts, Begun, TypeOK
<1>2. /\ t \in Transactions /\ t # None /\ t.kind = kind /\ t.after = after
      /\ t.record = Checkpoint(co.epoch, co.next, Utc,
                               Snapshot(after, ids, clock.up))
  BY StartsFields
<1>3. /\ t.record.utc = Utc /\ t.record.snapshot.run = after
      /\ after.phase = "Fermenting" => Utc = clock.utc
      /\ ValidSnapshot(t.record.snapshot)
  BY <1>1, <1>2 DEF Checkpoint, Snapshot, Admitted, Utc
<1>4. /\ origins \subseteq origins'
      /\ after.phase = "Fermenting" /\ kind \in {"Command", "Transition"} =>
           <<after.id, clock.utc>> \in origins'
  <2>1. origins' = origins \cup
          IF op = None /\ op' # None /\ op'.after.phase = "Fermenting"
             /\ op'.kind \in {"Command", "Transition"}
          THEN {<<op'.after.id, op'.record.utc>>} ELSE {}
    BY DEF Observe
  <2> QED
    BY <1>1, <1>2, <1>3, <2>1
<1>5. /\ \A v \in {flash["rc0"], flash["rc1"]} :
           Readable(v) => RecordTrue(v, clock.utc, origins)
      /\ co.loaded # None => RecordTrue(co.loaded, clock.utc, origins)
      /\ ram # None => RunTrue(ram, clock.up, clock.utc, clock.utc, origins)
      /\ ram # None /\ ram.prior # None =>
           ram.phase \in {"Fermenting", "RecoveryEvaluation"}
  BY DEF TimeTrue
<1>6. \A r : RunTrue(r, clock.up, clock.utc, clock.utc, origins)
        => RunTrue(r, clock.up, clock.utc, clock.utc, origins')
  BY <1>1, <1>4, TrueGrows DEF ObserverOK
<1>7. ASSUME after.phase = "Fermenting", kind \in {"Command", "Transition"},
             after.entered = clock.up, after.prior \in {0, None}
      PROVE  RunTrue(after, clock.up, clock.utc, clock.utc, origins')
  <2>1. Earlier(after) = 0
    BY <1>7 DEF Earlier
  <2>2. clock.utc - (Earlier(after) + clock.up - after.entered) = clock.utc
    BY <1>1, <1>7, <2>1
  <2> QED
    BY <1>4, <1>7, <2>2 DEF RunTrue
<1>8. CASE kind = "Command"
  <2>1. \/ after.phase \notin {"Fermenting", "Completed"}
        \/ /\ after.phase = "Fermenting" /\ after.entered = clock.up
           /\ after.prior = 0
    BY <1>1, <1>8 DEF BeginFits, CommandFits, NoRun, Run
  <2> QED
    BY <1>7, <1>8, <2>1 DEF RunTrue
<1>9. CASE kind = "Transition"
  <2>1. PICK phase \in NextPhases(ram) :
          after = Run(ram.id, phase, clock.up, ram.prior)
    BY <1>1, <1>9 DEF BeginFits, TransitionFits
  <2>2. /\ after.id = ram.id /\ after.phase = phase
        /\ after.entered = clock.up /\ after.prior = ram.prior
    BY <2>1 DEF Run
  <2>3. ram # None /\ ram \in RunStates
    BY <1>1, <1>9 DEF BeginFits, TransitionFits, TypeOK
  <2>4. CASE phase = "Fermenting"
    <3>1. ram.phase = "ReachingTarget"
      BY <2>4 DEF NextPhases
    <3>2. ram.prior = None
      BY <1>5, <2>3, <3>1
    <3> QED
      BY <1>7, <1>9, <2>2, <2>4, <3>2
  <2>5. CASE phase = "Completed"
    <3>1. /\ ram.phase = "Fermenting"
          /\ clock.up - ram.entered + Earlier(ram) >= Duration
      BY <2>5 DEF NextPhases, Earlier
    <3> DEFINE start == clock.utc - (Earlier(ram) + clock.up - ram.entered)
    <3>2. <<ram.id, start>> \in origins
      BY <1>5, <2>3, <3>1 DEF RunTrue
    <3>3. Earlier(ram) \in Int /\ ram.entered \in Nat
      BY <2>3 DEF RunStates, Earlier
    <3>4. clock.utc - start >= Duration
      BY <1>1, <3>1, <3>3, RunStoreConstants
    <3> HIDE DEF start
    <3>5. \E o \in origins' : o[1] = after.id /\ clock.utc - o[2] >= Duration
      BY <1>4, <2>2, <3>2, <3>4
    <3> QED
      BY <2>2, <2>5, <3>5 DEF RunTrue
  <2>6. CASE phase \notin {"Fermenting", "Completed"}
    BY <2>2, <2>6 DEF RunTrue
  <2> QED
    BY <2>4, <2>5, <2>6
<1>10. CASE kind = "Periodic"
  <2>1. after = ram /\ ram # None
    BY <1>1, <1>10 DEF BeginFits, PeriodicFits
  <2> QED
    BY <1>5, <1>6, <2>1
<1>11. ASSUME co.loaded # None, co.loaded.utc # None, NEW ending \in BOOLEAN,
              LoadedRun.phase = "Fermenting",
              after = Recovered(co.loaded, ending)
       PROVE  RunTrue(after, clock.up, clock.utc, clock.utc, origins')
  <2>1. co.loaded \in Records
    BY <1>1, <1>11 DEF TypeOK, Coordinators
  <2>2. RunTrue(Recovered(co.loaded, ending), clock.up, clock.utc, clock.utc,
                origins)
    BY <1>1, <1>5, <1>11, <2>1, RecoveredTrue DEF ObserverOK, LoadedRun
  <2> QED
    BY <1>6, <1>11, <2>2
<1>12. CASE kind = "Recover"
  BY <1>1, <1>11, <1>12 DEF BeginFits, RecoverFits
<1>13. CASE kind = "Discard"
  <2>1. after.phase = "Standby"
    BY <1>1, <1>13 DEF BeginFits, DiscardFits, NoRun, Run
  <2> QED
    BY <2>1 DEF RunTrue
<1>14. CASE kind = "Fallback"
  <2>1. co.state = "FallbackRecoveryPending"
    BY <1>1, <1>14 DEF BeginFits, FallbackFits
  <2>2. co.loaded # None
    BY <1>1, <2>1 DEF Steady, Standing
  <2>3. CASE LoadedRun.phase = "Preheating" /\ after = LoadedRun
    BY <2>3 DEF RunTrue
  <2>4. CASE /\ LoadedRun.phase = "Fermenting" /\ co.loaded.utc # None
             /\ after = Recovered(co.loaded, TRUE)
    BY <1>11, <2>2, <2>4
  <2> QED
    BY <1>1, <1>14, <2>3, <2>4 DEF BeginFits, FallbackFits
<1> QED
  BY <1>1, <1>8, <1>9, <1>10, <1>12, <1>13, <1>14 DEF Kinds

\* The record that is written is true, and so is what stays.
LEMMA StartsTime ==
  ASSUME Structure, ObserverOK, TimeTrue, Observe, StartsSome,
         Structure', origins \subseteq origins'
  PROVE  TimeTrue'
<1>1. PICK kind, after, ids, id, target, fallback, t :
        Starts(kind, after, ids, id, target, fallback, t)
  BY DEF StartsSome
<1>2. /\ TypeOK /\ TypeOK' /\ op' = t /\ flash' = flash /\ ram' = ram
      /\ clock' = clock /\ co'.loaded = co.loaded /\ clock.utc \in Nat
  BY <1>1 DEF Structure, Starts, Begun, TypeOK, Coordinators
<1>3. RunTrue(after, clock.up, clock.utc, clock.utc, origins')
  BY <1>1, StartsTrue
<1>4. /\ t.after = after /\ t # None
      /\ t.record = Checkpoint(co.epoch, co.next, Utc,
                               Snapshot(after, ids, clock.up))
  BY <1>1, StartsFields
<1>5. /\ t.record.snapshot.run = after /\ t.record.snapshot.at = clock.up
      /\ ValidSnapshot(t.record.snapshot)
      /\ after.phase = "Fermenting" => t.record.utc = clock.utc
  BY <1>2, <1>4 DEF Structure, Underway
<1>6. RecordTrue(t.record, clock.utc, origins')
  <2>1. None \notin Nat
    BY RunStoreNone
  <2>2. RunTrue(after, clock.up, t.record.utc, clock.utc, origins')
    BY <1>3, <1>5 DEF RunTrue
  <2> QED
    BY <1>2, <1>5, <2>1, <2>2 DEF RecordTrue
<1>7. /\ \A v \in {flash["rc0"], flash["rc1"]} :
           Readable(v) => RecordTrue(v, clock'.utc, origins')
      /\ co.loaded # None => RecordTrue(co.loaded, clock'.utc, origins')
      /\ ram # None =>
           RunTrue(ram, clock.up, clock.utc, clock'.utc, origins')
  BY <1>2, TimeFrame
<1>8. ram # None /\ ram.prior # None =>
        ram.phase \in {"Fermenting", "RecoveryEvaluation"}
  BY DEF TimeTrue
<1> QED
  BY <1>2, <1>6, <1>7, <1>8 DEF TimeTrue

\* A run that is neither fermenting nor completed makes no claim.
Timeless(r) ==
  /\ r.phase \notin {"Fermenting", "Completed"}
  /\ r.prior # None => r.phase = "RecoveryEvaluation"

\* The clocks of the boot and of the wall go on together.
Together == clock'.utc - clock'.up = clock.utc - clock.up

\* What a step that begins no transaction owes
LEMMA TimeRest ==
  ASSUME Structure, Structure', ObserverOK, TimeTrue,
         origins \subseteq origins', clock.utc <= clock'.utc,
         \A k \in {"rc0", "rc1"} : Readable(flash'[k]) =>
           \/ flash'[k] \in {flash["rc0"], flash["rc1"]}
           \/ op # None /\ flash'[k] = op.record
           \/ flash'[k] \in {HandoffRecord(boot.epoch, 0),
                             HandoffRecord(boot.epoch, 1)},
         \/ co'.loaded \in {None, co.loaded}
         \/ co'.loaded \in {flash["rc0"], flash["rc1"]}
            /\ co'.loaded \in Records,
         op' = None \/ (op # None /\ op'.record = op.record),
         \/ ram' = None
         \/ ram # None /\ ram' = ram /\ Together
         \/ Timeless(ram')
         \/ op # None /\ ram' = op.after /\ clock' = clock
         \/ /\ co.loaded # None /\ ram'.id = LoadedRun.id
            /\ ram'.phase = "Completed" /\ LoadedRun.phase = "Completed"
            /\ ram'.prior = None
  PROVE  TimeTrue'
<1>1. TypeOK /\ TypeOK' /\ boot.epoch \in Nat
  BY DEF Structure, TypeOK
<1>2. /\ \A v \in {flash["rc0"], flash["rc1"]} :
           Readable(v) => RecordTrue(v, clock'.utc, origins')
      /\ co.loaded # None => RecordTrue(co.loaded, clock'.utc, origins')
      /\ op # None => RecordTrue(op.record, clock'.utc, origins')
      /\ ram # None =>
           RunTrue(ram, clock.up, clock.utc, clock'.utc, origins')
  BY <1>1, TimeFrame
<1>3. \A slot \in {0, 1} :
        RecordTrue(HandoffRecord(boot.epoch, slot), clock'.utc, origins')
  <2> TAKE slot \in {0, 1}
  <2> DEFINE v == HandoffRecord(boot.epoch, slot)
  <2>1. v.snapshot.run = NoRun(0) /\ ValidSnapshot(v.snapshot)
    BY <1>1, HandoffValues
  <2>2. NoRun(0).phase = "Standby"
    BY DEF NoRun, Run
  <2> HIDE DEF v
  <2>3. RecordTrue(v, clock'.utc, origins')
    BY <2>1, <2>2 DEF RecordTrue, RunTrue
  <2> QED
    BY <2>3 DEF v
<1>4. \A k \in {"rc0", "rc1"} :
        Readable(flash'[k]) => RecordTrue(flash'[k], clock'.utc, origins')
  BY <1>2, <1>3
<1>5. co'.loaded # None => RecordTrue(co'.loaded, clock'.utc, origins')
  BY <1>2, RunStoreNone DEF Readable
<1>6. op' # None => RecordTrue(op'.record, clock'.utc, origins')
  BY <1>2
<1>7. ram' # None =>
        /\ RunTrue(ram', clock'.up, clock'.utc, clock'.utc, origins')
        /\ ram'.prior # None =>
             ram'.phase \in {"Fermenting", "RecoveryEvaluation"}
  <2> SUFFICES ASSUME ram' # None
               PROVE  /\ RunTrue(ram', clock'.up, clock'.utc, clock'.utc,
                                 origins')
                      /\ ram'.prior # None =>
                           ram'.phase \in {"Fermenting", "RecoveryEvaluation"}
    OBVIOUS
  <2>1. CASE ram # None /\ ram' = ram /\ Together
    <3>1. /\ ram.prior # None =>
               ram.phase \in {"Fermenting", "RecoveryEvaluation"}
      BY <2>1 DEF TimeTrue
    <3>2. /\ clock.utc \in Nat /\ clock'.utc \in Nat /\ clock.up \in Nat
          /\ clock'.up \in Nat /\ ram.entered \in Int /\ Earlier(ram) \in Int
      BY <1>1, <2>1 DEF TypeOK, RunStates, Earlier
    <3>3. clock'.utc - (Earlier(ram) + clock'.up - ram.entered) =
            clock.utc - (Earlier(ram) + clock.up - ram.entered)
      BY <2>1, <3>2 DEF Together
    <3>4. RunTrue(ram, clock.up, clock.utc, clock'.utc, origins')
      BY <1>2, <2>1
    <3>5. RunTrue(ram, clock'.up, clock'.utc, clock'.utc, origins')
      BY <3>3, <3>4 DEF RunTrue
    <3> QED
      BY <2>1, <3>1, <3>5
  <2>2. CASE Timeless(ram')
    BY <2>2 DEF Timeless, RunTrue
  <2>3. CASE op # None /\ ram' = op.after /\ clock' = clock
    <3>1. /\ op.record.snapshot.run = op.after
          /\ op.record.snapshot.at = clock.up
          /\ ValidSnapshot(op.record.snapshot)
          /\ op.after.phase = "Fermenting" => op.record.utc = clock.utc
      BY <2>3 DEF Structure, Underway
    <3>2. RunTrue(op.after, clock.up, op.record.utc, clock'.utc, origins')
      BY <1>2, <2>3, <3>1 DEF RecordTrue
    <3>3. RunTrue(op.after, clock.up, clock.utc, clock'.utc, origins')
      BY <3>1, <3>2 DEF RunTrue
    <3>4. op.after.prior # None => op.after.phase = "Fermenting"
      BY <3>1 DEF ValidSnapshot
    <3> QED
      BY <2>3, <3>3, <3>4
  <2>4. CASE /\ co.loaded # None /\ ram'.id = LoadedRun.id
             /\ ram'.phase = "Completed" /\ LoadedRun.phase = "Completed"
             /\ ram'.prior = None
    <3>1. RecordTrue(co.loaded, clock'.utc, origins')
      BY <1>2, <2>4
    <3> QED
      BY <2>4, <3>1 DEF RecordTrue, RunTrue, LoadedRun
  <2> QED
    BY <2>1, <2>2, <2>3, <2>4
<1> QED
  BY <1>4, <1>5, <1>6, <1>7 DEF TimeTrue

\* The phases of what a step publishes
LEMMA WriteTime ==
  ASSUME Structure, Structure', ObserverOK, TimeTrue, WriteStep,
         origins \subseteq origins'
  PROVE  TimeTrue'
<1>1. /\ op # None /\ op \in Transactions /\ TypeOK
      /\ clock' = clock
      /\ op.step = "CheckpointSlot" =>
           /\ flash'["rc0"] \in {flash["rc0"], op.record, Corrupt}
           /\ flash'["rc1"] \in {flash["rc1"], op.record, Corrupt}
      /\ op.step # "CheckpointSlot" =>
           /\ flash'["rc0"] = flash["rc0"] /\ flash'["rc1"] = flash["rc1"]
      /\ \/ AdvanceTransaction
         \/ FailTransaction("NotWritten")
         \/ FailTransaction("Indeterminate")
  BY WriteCases
<1>2. /\ clock.utc <= clock'.utc /\ Together
  BY <1>1 DEF TypeOK, Together
<1>3. \A k \in {"rc0", "rc1"} : Readable(flash'[k]) =>
        \/ flash'[k] \in {flash["rc0"], flash["rc1"]}
        \/ flash'[k] = op.record
  BY <1>1 DEF Readable
<1>4. ASSUME NEW result \in {"NotWritten", "Indeterminate"},
             FailTransaction(result)
      PROVE  TimeTrue'
  <2>1. /\ op' = None /\ co'.loaded = co.loaded
        /\ op.kind = "Recover" =>
             ram' = Run(LoadedRun.id, "RecoveryEvaluation", clock.up,
                        LoadedRun.prior)
        /\ op.kind # "Recover" => ram' = ram
    BY <1>1, <1>4, FailFields
  <2>2. op.kind = "Recover" => Timeless(ram')
    BY <2>1 DEF Timeless, Run
  <2>3. ram' = None \/ (ram # None /\ ram' = ram) \/ Timeless(ram')
    BY <2>1, <2>2
  <2> QED
    BY <1>1, <1>2, <1>3, <2>1, <2>3, TimeRest
<1>5. CASE AdvanceTransaction /\ op.step = "CommittedHead"
  <2>1. op' = None /\ co'.loaded = None /\ ram' = op.after
    BY <1>1, <1>5, SuccessFields
  <2> QED
    BY <1>1, <1>2, <1>3, <2>1, TimeRest
<1>6. CASE AdvanceTransaction /\ op.step # "CommittedHead"
  <2>1. /\ op'.record = op.record /\ co'.loaded = co.loaded /\ ram' = ram
    BY <1>1, <1>6, AdvanceFields
  <2>2. ram' = None \/ (ram # None /\ ram' = ram)
    BY <2>1
  <2> QED
    BY <1>1, <1>2, <1>3, <2>1, <2>2, TimeRest
<1> QED
  BY <1>1, <1>4, <1>5, <1>6

\* Recovery that is not taken, and a terminal run
LEMMA DecidedTime ==
  ASSUME Structure, Structure', ObserverOK, TimeTrue,
         origins \subseteq origins', op = None, boot.handoff = "None",
         UNCHANGED <<flash, boot, clock, budget>>,
         \/ /\ RejectRecovery \/ AwaitTrustedTime
            /\ co.state = "LoadedActiveRun"
            /\ LoadedRun.phase = "Fermenting"
            /\ app.life \in {"Initializing", "Ready"}
         \/ /\ RestoreTerminal /\ app.life = "Initializing"
            /\ app.class \in {"CompletedRun", "TerminalRunFault"}
  PROVE  TimeTrue'
<1>1. /\ TypeOK /\ Waiting /\ Steady /\ clock.utc <= clock'.utc
      /\ \A k \in {"rc0", "rc1"} : Readable(flash'[k]) =>
           flash'[k] \in {flash["rc0"], flash["rc1"]}
  BY DEF Structure, TypeOK
<1>2. CASE /\ RejectRecovery \/ AwaitTrustedTime
           /\ co.state = "LoadedActiveRun"
           /\ LoadedRun.phase = "Fermenting"
           /\ app.life \in {"Initializing", "Ready"}
  <2>1. /\ op' = None /\ co'.loaded = co.loaded
        /\ ram' = Run(LoadedRun.id, "RecoveryEvaluation", clock.up,
                      LoadedRun.prior)
    BY <1>2, RejectStructure
  <2>2. Timeless(ram')
    BY <2>1 DEF Timeless, Run
  <2> QED
    BY <1>1, <2>1, <2>2, TimeRest
<1>3. CASE /\ RestoreTerminal /\ app.life = "Initializing"
           /\ app.class \in {"CompletedRun", "TerminalRunFault"}
  <2>1. /\ ram'.id = LoadedRun.id /\ ram'.phase = LoadedRun.phase
        /\ ram'.prior = LoadedRun.prior /\ co'.loaded = None
        /\ co.state = "LoadedActiveRun"
    BY <1>3, RestoreStructure
  <2>2. op' = None
    BY <1>3 DEF RestoreTerminal
  <2>3. LoadedRun.phase \in {"Completed", "Fault"}
    BY <1>1, <1>3 DEF Waiting
  <2>4. co.loaded # None
    BY <1>1, <2>1 DEF Steady, Standing
  <2>5. LoadedRun.prior = None
    BY <2>3, <2>4 DEF TimeTrue, RecordTrue, ValidSnapshot, LoadedRun
  <2>6. LoadedRun.phase = "Fault" => Timeless(ram')
    BY <2>1, <2>5 DEF Timeless
  <2> QED
    BY <1>1, <2>1, <2>2, <2>3, <2>4, <2>5, <2>6, TimeRest
<1> QED
  BY <1>2, <1>3

\* A boot decision gives no run a false time.
LEMMA BootTime ==
  ASSUME Structure, Structure', ObserverOK, TimeTrue, ProcessBoot, Observe,
         origins \subseteq origins'
  PROVE  TimeTrue'
<1>1. /\ op = None /\ app.life = "Initializing" /\ app.class # None
      /\ ram = None /\ boot.handoff = "None" /\ TypeOK
      /\ UNCHANGED <<flash, boot, clock, budget>>
      /\ \/ StartsSome
         \/ /\ RejectRecovery \/ AwaitTrustedTime
            /\ co.state = "LoadedActiveRun" /\ co.loaded # None
            /\ LoadedRun.phase = "Fermenting"
         \/ /\ RestoreTerminal
            /\ app.class \in {"CompletedRun", "TerminalRunFault"}
         \/ /\ Shown(None) /\ app'.life \in {"Ready", "ServiceRequired"}
            /\ \/ ram' = ram
               \/ co.state = "ReadyEmpty" /\ ram' = NoRun(0)
         \/ /\ Shown(LoadedRun) /\ app'.life = "Ready" /\ ram' = ram
            /\ co.state = "FallbackRecoveryPending"
  BY BootCases DEF Structure
<1>2. CASE StartsSome
  BY <1>2, StartsTime
<1>3. CASE /\ RejectRecovery \/ AwaitTrustedTime
           /\ co.state = "LoadedActiveRun" /\ co.loaded # None
           /\ LoadedRun.phase = "Fermenting"
  BY <1>1, <1>3, DecidedTime
<1>4. CASE /\ RestoreTerminal
           /\ app.class \in {"CompletedRun", "TerminalRunFault"}
  BY <1>1, <1>4, DecidedTime
<1>5. CASE /\ Shown(None) \/ Shown(LoadedRun)
           /\ ram' \in {None, NoRun(0)}
  <2>1. /\ op' = None /\ co' = co /\ clock.utc <= clock'.utc
        /\ \A k \in {"rc0", "rc1"} : Readable(flash'[k]) =>
             flash'[k] \in {flash["rc0"], flash["rc1"]}
    BY <1>1, <1>5 DEF Shown, TypeOK
  <2>2. ram' = None \/ Timeless(ram')
    BY <1>5 DEF Timeless, NoRun, Run
  <2> QED
    BY <2>1, <2>2, TimeRest
<1> QED
  BY <1>1, <1>2, <1>3, <1>4, <1>5

\* Every step
LEMMA TimeStep ==
  ASSUME Structure, Structure', ObserverOK, TimeTrue, MCNext
  PROVE  TimeTrue'
<1>1. Next /\ Observe /\ TypeOK /\ clock.utc \in Nat /\ clock.up \in Nat
  BY DEF MCNext, Structure, TypeOK
<1>2. origins \subseteq origins'
  BY <1>1 DEF Observe
<1>3. ASSUME ram' = ram \/ ram' = None, clock.utc <= clock'.utc, Together,
             flash'["rc0"] = flash["rc0"], flash'["rc1"] = flash["rc1"],
             co' = co, op' = op
      PROVE  TimeTrue'
  <2>1. ram' = None \/ (ram # None /\ ram' = ram)
    BY <1>3
  <2>2. \A k \in {"rc0", "rc1"} : Readable(flash'[k]) =>
          flash'[k] \in {flash["rc0"], flash["rc1"]}
    BY <1>3
  <2> QED
    BY <1>2, <1>3, <2>1, <2>2, TimeRest
<1>4. clock' = clock => Together /\ clock.utc <= clock'.utc
  BY <1>1 DEF Together
<1>5. CASE WriteStep
  BY <1>2, <1>5, WriteTime
<1>6. CASE \E s \in Surfaces : Prepare(s) \/ Confirm(s)
  <2>1. PICK s \in Surfaces : Prepare(s) \/ Confirm(s)
    BY <1>6
  <2>2. CASE Prepare(s)
    BY <1>3, <1>4, <2>2 DEF Prepare
  <2>3. CASE Confirm(s) /\ StartsSome
    BY <1>1, <1>2, <2>3, StartsTime
  <2>4. CASE UNCHANGED <<flash, boot, co, op, ram, clock, budget>>
    BY <1>3, <1>4, <2>4
  <2> QED
    BY <2>1, <2>2, <2>3, <2>4, ConfirmCases
<1>7. CASE PersistTransition \/ CheckpointPeriodic \/ ResumeFallback
  BY <1>1, <1>2, <1>7, TransitionStarts, PeriodicStarts, FallbackStarts,
     StartsTime
<1>8. CASE Update
  <2>1. /\ op = None /\ app.life = "Ready" /\ boot.handoff = "None"
        /\ co.state = "LoadedActiveRun" /\ LoadedRun.phase = "Fermenting"
        /\ UNCHANGED <<flash, boot, clock, budget>>
        /\ StartsSome \/ RejectRecovery \/ AwaitTrustedTime
    BY <1>8, UpdateCases
  <2>2. CASE StartsSome
    BY <1>1, <1>2, <2>2, StartsTime
  <2>3. CASE RejectRecovery \/ AwaitTrustedTime
    BY <1>2, <2>1, <2>3, DecidedTime
  <2> QED
    BY <2>1, <2>2, <2>3
<1>9. CASE BootLoad \/ HandoffConsume
  <2>1. /\ op = None /\ op' = None /\ flash' = flash /\ clock' = clock
        /\ boot' \in [epoch : Nat \ {0}, handoff : {"None"}]
        /\ boot'.epoch = boot.epoch
        /\ LoadRun(boot.epoch)
    BY <1>9, LoadCases
  <2>2. /\ ram' = None
        /\ \E load : /\ LoadSound(load, boot.epoch)
                     /\ co'.state = load.state /\ co'.head = load.head
                     /\ co'.loaded = load.record
                     /\ co'.epoch = boot.epoch
    BY <2>1, LoadStructure
  <2>3. \/ co'.loaded = None
        \/ co'.loaded \in {flash["rc0"], flash["rc1"]}
           /\ co'.loaded \in Records
    BY <2>2 DEF LoadSound
  <2>4. \A k \in {"rc0", "rc1"} : Readable(flash'[k]) =>
          flash'[k] \in {flash["rc0"], flash["rc1"]}
    BY <2>1
  <2> QED
    BY <1>2, <1>4, <2>1, <2>2, <2>3, <2>4, TimeRest
<1>10. CASE ProcessBoot
  BY <1>1, <1>2, <1>10, BootTime
<1>11. CASE FactoryReset
  BY <1>3, <1>4, <1>11 DEF FactoryReset
<1>12. CASE \/ HandoffSlot \/ HandoffCommit \/ HandoffFinalize
            \/ HandoffRejected
  <2>1. HandoffStep
    BY <1>12, HandoffSteps
  <2>2. \A k \in {"rc0", "rc1"} : Readable(flash'[k]) =>
          \/ flash'[k] \in {flash["rc0"], flash["rc1"]}
          \/ flash'[k] \in {HandoffRecord(boot.epoch, 0),
                            HandoffRecord(boot.epoch, 1)}
    BY <2>1 DEF HandoffStep, Readable
  <2>3. /\ ram' = None \/ (ram # None /\ ram' = ram)
        /\ op' = op /\ co' = co /\ clock' = clock
        /\ op' = None \/ (op # None /\ op'.record = op.record)
    BY <2>1 DEF HandoffStep
  <2> QED
    BY <1>2, <1>4, <2>2, <2>3, TimeRest
<1>13. CASE Tick \/ TimeBecomesKnown
  <2>1. /\ Quiet /\ clock'.utc >= clock.utc /\ clock'.utc \in Nat
        /\ ram # None => clock'.utc - clock'.up = clock.utc - clock.up
    BY <1>13, ClockStructure
  <2>2. /\ clock.utc <= clock'.utc
        /\ ram' = None \/ (ram # None /\ ram' = ram /\ Together)
        /\ co' = co /\ flash' = flash
        /\ op' = None \/ (op # None /\ op'.record = op.record)
    BY <1>1, <2>1 DEF Quiet, Together
  <2>3. \A k \in {"rc0", "rc1"} : Readable(flash'[k]) =>
          flash'[k] \in {flash["rc0"], flash["rc1"]}
    BY <2>2
  <2> QED
    BY <1>2, <2>2, <2>3, TimeRest
<1>14. CASE PowerLoss
  <2>1. /\ ram' = None /\ op' = None /\ flash' = flash
        /\ co' = Uninitialized(boot.epoch)
        /\ clock' = [clock EXCEPT !.up = 0, !.known = FALSE]
    BY <1>14 DEF PowerLoss
  <2>2. co'.loaded = None /\ clock'.utc = clock.utc
    BY <1>1, <2>1 DEF Uninitialized, TypeOK
  <2>3. \A k \in {"rc0", "rc1"} : Readable(flash'[k]) =>
          flash'[k] \in {flash["rc0"], flash["rc1"]}
    BY <2>1
  <2> QED
    BY <1>1, <1>2, <2>1, <2>2, <2>3, TimeRest
<1>15. CASE LoseRecord
  <2>1. UNCHANGED <<boot, co, app, ram, op, clock>> /\ TypeOK
    BY <1>1, <1>15 DEF LoseRecord
  <2>2. PICK k \in Keys, v \in {Absent, Corrupt} :
          flash' = [flash EXCEPT ![k] = v]
    BY <1>15 DEF LoseRecord
  <2>3. \A i \in {"rc0", "rc1"} : Readable(flash'[i]) =>
          flash'[i] \in {flash["rc0"], flash["rc1"]}
    BY <2>1, <2>2 DEF TypeOK, Keys, Readable
  <2>4. /\ ram' = None \/ (ram # None /\ ram' = ram)
        /\ op' = None \/ (op # None /\ op'.record = op.record)
    BY <2>1
  <2> QED
    BY <1>2, <1>4, <2>1, <2>3, <2>4, TimeRest
<1> QED
  BY <1>1, <1>5, <1>6, <1>7, <1>8, <1>9, <1>10, <1>11, <1>12, <1>13, <1>14,
     <1>15 DEF Next

-----------------------------------------------------------------------------
(* Which run a head, a slot or a request can name *)

\* A run of the storage epoch in force
Ours(id) == id[1] = boot.epoch /\ boot.handoff = "None"

HeadNames(h) ==
  {h.current.snapshot.run.id}
    \cup IF h.fallback = None THEN {} ELSE {h.fallback.snapshot.run.id}

IsCommitted(h) == Readable(h) /\ h.state = "Committed"

\* The heads a run can come from: in flash, in RAM or still to be written
HeadsIn ==
  {h \in {flash["rh0"]} : IsCommitted(h)}
    \cup {h \in {co.head} : h # None /\ Standing \in Usable}
    \cup IF op = None THEN {} ELSE {op.committed}

\* The runs that were published, and the one that may be without a write
Seen ==
  DOMAIN runs \cup IF co.loaded = None THEN {} ELSE {LoadedRun.id}

Taken == Seen \cup IF op = None THEN {} ELSE {op.after.id}

\* The next identity is above every run of its epoch, and no request names
\* a run that is already there.
Placed ==
  \A id \in Taken : id # None =>
    /\ id[1] <= boot.epoch
    /\ boot.handoff # "None" => id[1] < boot.epoch
    /\ app.nextId \notin {None, 0} /\ id[1] = app.epoch => id[2] < app.nextId
    /\ \A s \in Surfaces :
         app.requests[s] # None => app.requests[s].run # id

\* The requests hold different identities that were given out.
Asked ==
  \A s \in Surfaces : app.requests[s] # None =>
    LET q == app.requests[s] IN
    /\ q.id = q.run[2] /\ q.run[1] <= app.epoch
    /\ boot.handoff # "None" => q.run[1] < boot.epoch
    /\ app.nextId \notin {None, 0} /\ q.run[1] = app.epoch => q.id < app.nextId
    /\ \A other \in Surfaces \ {s} :
         app.requests[other] # None => app.requests[other].run # q.run

\* A head's high water is above every run of its epoch.
HeadOver(h, seen, epoch) ==
  /\ \A id \in seen \cup HeadNames(h) :
       id # None /\ id[1] = h.epoch => id[2] <= h.highWater
  /\ \A id \in HeadNames(h) : id # None => id[1] <= epoch

\* Without a head there is no run yet.
Over ==
  boot.handoff = "None" =>
    /\ \A h \in HeadsIn : HeadOver(h, Seen, boot.epoch)
    /\ co.head = None /\ Standing \in Usable =>
         \A id \in Seen : id # None => id[1] < boot.epoch

\* The runs that RAM names
Named ==
  (IF ram = None THEN {} ELSE {ram.id})
    \cup (IF app.fallback = None THEN {} ELSE {app.fallback.id})
    \cup (IF co.loaded = None THEN {} ELSE {LoadedRun.id})
    \cup IF op = None THEN {} ELSE {op.after.id}

\* Neither RAM nor a head names a run that was ended.
EndedKept ==
  \A id \in DOMAIN runs : runs[id] = "Ended" =>
    id \notin Named /\ \A h \in HeadsIn : id \notin HeadNames(h)

\* Every committed head names the run whose end was never asked for.
LiveKept ==
  \A id \in DOMAIN runs : runs[id] = "Live" /\ Ours(id) =>
    \A h \in HeadsIn : h.current.snapshot.run.id = id

\* The head that was loaded from is still the one in flash.
LoadedNamed ==
  boot.handoff = "None" /\ Standing = "LoadedActiveRun"
    /\ IsCommitted(flash["rh0"])
  => flash["rh0"].current.snapshot.run.id = LoadedRun.id

\* With a run published, head and slots are only absent when they were lost.
Started ==
  (\E id \in DOMAIN runs : Ours(id)) =>
    /\ flash["rh0"] = Absent => budget.lost >= 1
    /\ flash["rc0"] = Absent /\ flash["rc1"] = Absent =>
         /\ budget.lost >= 1
         /\ flash["rh0"] = Absent => budget.lost >= 2

RamKnown == ram # None /\ Active(ram) => ram.id \in DOMAIN runs

IdentityInv ==
  /\ RamKnown
  /\ budget.lost <= 1 =>
       /\ Placed /\ Asked /\ Over /\ EndedKept /\ LiveKept /\ LoadedNamed
       /\ Started

\* What the observer makes of a step
LEMMA ObserveFacts ==
  ASSUME Observe, ObserverOK
  PROVE  /\ DOMAIN runs' = DOMAIN runs \cup Ids(ram')
         /\ RamKnown'
         /\ \A id \in DOMAIN runs' : runs'[id] = "Live" =>
              \/ id \notin DOMAIN runs /\ id \in Ids(ram')
              \/ /\ id \in DOMAIN runs /\ runs[id] = "Live"
                 /\ op = None /\ op' # None /\ ~Active(op'.after) =>
                      id \notin Concerned
         /\ \A id \in DOMAIN runs' : runs'[id] = "Ended" =>
              /\ id \in DOMAIN runs
              /\ \/ runs[id] = "Ended"
                 \/ /\ op # None /\ op' = None /\ ram' # None
                    /\ ~Active(ram') /\ id \in Concerned
<1>1. runs' = [id \in DOMAIN runs \cup Ids(ram') |->
                 IF id \in DOMAIN runs THEN Status(id, runs[id]) ELSE "Live"]
  BY DEF Observe
<1>2. DOMAIN runs' = DOMAIN runs \cup Ids(ram')
  BY <1>1
<1>3. \A id \in DOMAIN runs' :
        /\ id \in DOMAIN runs => runs'[id] = Status(id, runs[id])
        /\ id \notin DOMAIN runs => runs'[id] = "Live" /\ id \in Ids(ram')
  BY <1>1
<1>4. RamKnown'
  BY <1>2 DEF RamKnown, Ids
<1>5. ASSUME NEW id \in DOMAIN runs', runs'[id] = "Live"
      PROVE  \/ id \notin DOMAIN runs /\ id \in Ids(ram')
             \/ /\ id \in DOMAIN runs /\ runs[id] = "Live"
                /\ op = None /\ op' # None /\ ~Active(op'.after) =>
                     id \notin Concerned
  <2>1. CASE id \in DOMAIN runs
    <3>1. Status(id, runs[id]) = "Live"
      BY <1>3, <1>5, <2>1
    <3>2. /\ runs[id] = "Live"
          /\ op = None /\ op' # None /\ ~Active(op'.after) =>
               id \notin Concerned
      BY <3>1 DEF Status
    <3> QED
      BY <2>1, <3>2
  <2> QED
    BY <1>3, <2>1
<1>6. ASSUME NEW id \in DOMAIN runs', runs'[id] = "Ended"
      PROVE  /\ id \in DOMAIN runs
             /\ \/ runs[id] = "Ended"
                \/ /\ op # None /\ op' = None /\ ram' # None
                   /\ ~Active(ram') /\ id \in Concerned
  <2>1. id \in DOMAIN runs /\ Status(id, runs[id]) = "Ended"
    BY <1>3, <1>6
  <2>2. \/ runs[id] = "Ended"
        \/ /\ op # None /\ op' = None /\ ram' # None
           /\ ~Active(ram') /\ id \in Concerned
    BY <2>1 DEF Status
  <2> QED
    BY <2>1, <2>2
<1> QED
  BY <1>2, <1>4, <1>5, <1>6

\* A head in use is sane.
LEMMA HeadsInSane ==
  ASSUME Structure
  PROVE  \A h \in HeadsIn : HeadSane(h) /\ h # None
<1>1. \A h \in HeadsIn : HeadSane(h)
  BY DEF Structure, HeadKept, Steady, Underway, HeadsIn, IsCommitted
<1> QED
  BY <1>1, RunStoreNone DEF HeadSane, Heads

\* A sane head names its current run, or none.
LEMMA SaneNames ==
  ASSUME NEW h, HeadSane(h)
  PROVE  /\ HeadNames(h) \subseteq {h.current.snapshot.run.id, None}
         /\ HeadNames(h) \subseteq RunIds \cup {None}
         /\ ~Active(h.current.snapshot.run) => HeadNames(h) = {None}
         /\ h.epoch \in Nat /\ h.highWater \in Nat
<1>1. h \in CommittedHeads
  BY DEF HeadSane
<1>2. /\ h.current \in References /\ h.fallback \in References \cup {None}
      /\ h.epoch \in Nat /\ h.highWater \in Nat
  BY <1>1 DEF CommittedHeads
<1>3. /\ h.current.snapshot.run \in RunStates
      /\ h.fallback # None => h.fallback.snapshot.run \in RunStates
  BY <1>2 DEF References, Snapshots
<1>4. /\ h.current.snapshot.run.id \in RunIds \cup {None}
      /\ h.fallback # None =>
           h.fallback.snapshot.run.id \in RunIds \cup {None}
  BY <1>3 DEF RunStates
<1>5. HeadNames(h) \subseteq {h.current.snapshot.run.id, None}
  BY DEF HeadNames, HeadSane, Active
<1>6. ~Active(h.current.snapshot.run) => HeadNames(h) = {None}
  BY DEF HeadNames, HeadSane, ValidHead, Active
<1> QED
  BY <1>2, <1>4, <1>5, <1>6

\* A step that brings no head, no run and no request of its own
LEMMA IdentityFrame ==
  ASSUME Structure, ObserverOK, Observe, RamKnown,
         Placed, Asked, Over, EndedKept, LiveKept, LoadedNamed,
         boot' = boot, Taken' \subseteq Taken, HeadsIn' \subseteq HeadsIn,
         Named' \subseteq Named \cup {None},
         \A h \in HeadsIn' : Seen' \subseteq Seen \cup HeadNames(h),
         co'.head = None /\ Standing' \in Usable =>
           Seen' \subseteq Seen /\ co.head = None /\ Standing \in Usable,
         \A s \in Surfaces : app'.requests[s] # None =>
           app'.requests[s] = app.requests[s] /\ app'.epoch = app.epoch,
         app'.nextId \notin {None, 0} =>
           app'.nextId = app.nextId /\ app'.epoch = app.epoch,
         op # None /\ op' = None /\ ram' # None /\ ~Active(ram') =>
           \A id \in Concerned :
             id \notin Named' /\ \A h \in HeadsIn' : id \notin HeadNames(h),
         \A id \in Ids(ram') \ DOMAIN runs :
           \A h \in HeadsIn' : h.current.snapshot.run.id = id,
         Standing' = "LoadedActiveRun" =>
           /\ Standing = "LoadedActiveRun" /\ LoadedRun' = LoadedRun
           /\ IsCommitted(flash'["rh0"]) => flash'["rh0"] = flash["rh0"]
  PROVE  Placed' /\ Asked' /\ Over' /\ EndedKept' /\ LiveKept' /\ LoadedNamed'
<1>1. Placed'
  <2> SUFFICES ASSUME NEW id \in Taken', id # None
               PROVE  /\ id[1] <= boot'.epoch
                      /\ boot'.handoff # "None" => id[1] < boot'.epoch
                      /\ app'.nextId \notin {None, 0} /\ id[1] = app'.epoch
                           => id[2] < app'.nextId
                      /\ \A s \in Surfaces : app'.requests[s] # None
                           => app'.requests[s].run # id
    BY DEF Placed
  <2>1. /\ id[1] <= boot.epoch
        /\ boot.handoff # "None" => id[1] < boot.epoch
        /\ app.nextId \notin {None, 0} /\ id[1] = app.epoch
             => id[2] < app.nextId
        /\ \A s \in Surfaces : app.requests[s] # None
             => app.requests[s].run # id
    BY DEF Placed
  <2> QED
    BY <2>1
<1>2. Asked'
  <2> SUFFICES ASSUME NEW s \in Surfaces, app'.requests[s] # None
               PROVE  LET q == app'.requests[s] IN
                      /\ q.id = q.run[2] /\ q.run[1] <= app'.epoch
                      /\ boot'.handoff # "None" => q.run[1] < boot'.epoch
                      /\ app'.nextId \notin {None, 0} /\ q.run[1] = app'.epoch
                           => q.id < app'.nextId
                      /\ \A other \in Surfaces \ {s} :
                           app'.requests[other] # None
                             => app'.requests[other].run # q.run
    BY DEF Asked
  <2>1. /\ app'.requests[s] = app.requests[s] /\ app'.epoch = app.epoch
        /\ \A other \in Surfaces : app'.requests[other] # None =>
             app'.requests[other] = app.requests[other]
        /\ app'.nextId \notin {None, 0} => app'.nextId = app.nextId
    OBVIOUS
  <2>2. LET q == app.requests[s] IN
        /\ q.id = q.run[2] /\ q.run[1] <= app.epoch
        /\ boot.handoff # "None" => q.run[1] < boot.epoch
        /\ app.nextId \notin {None, 0} /\ q.run[1] = app.epoch
             => q.id < app.nextId
        /\ \A other \in Surfaces \ {s} :
             app.requests[other] # None => app.requests[other].run # q.run
    BY <2>1 DEF Asked
  <2> QED
    BY <2>1, <2>2
<1>3. Over'
  <2> SUFFICES ASSUME boot.handoff = "None"
               PROVE  /\ \A h \in HeadsIn' : HeadOver(h, Seen', boot'.epoch)
                      /\ co'.head = None /\ Standing' \in Usable =>
                           \A id \in Seen' : id # None => id[1] < boot'.epoch
    BY DEF Over
  <2>1. ASSUME NEW h \in HeadsIn'
        PROVE  HeadOver(h, Seen', boot'.epoch)
    <3>1. HeadOver(h, Seen, boot.epoch)
      BY <2>1 DEF Over
    <3>2. Seen' \subseteq Seen \cup HeadNames(h)
      BY <2>1
    <3> QED
      BY <3>1, <3>2 DEF HeadOver
  <2>2. co'.head = None /\ Standing' \in Usable =>
          \A id \in Seen' : id # None => id[1] < boot'.epoch
    BY DEF Over
  <2> QED
    BY <2>1, <2>2
<1>4. EndedKept'
  <2> SUFFICES ASSUME NEW id \in DOMAIN runs', runs'[id] = "Ended"
               PROVE  /\ id \notin Named'
                      /\ \A h \in HeadsIn' : id \notin HeadNames(h)
    BY DEF EndedKept
  <2>1. /\ id \in DOMAIN runs
        /\ \/ runs[id] = "Ended"
           \/ /\ op # None /\ op' = None /\ ram' # None
              /\ ~Active(ram') /\ id \in Concerned
    BY ObserveFacts
  <2>2. id # None
    BY <2>1, RunStoreNone DEF ObserverOK
  <2>3. CASE runs[id] = "Ended"
    BY <2>1, <2>2, <2>3 DEF EndedKept
  <2> QED
    BY <2>1, <2>3
<1>5. LiveKept'
  <2> SUFFICES ASSUME NEW id \in DOMAIN runs', runs'[id] = "Live", Ours(id)',
                      NEW h \in HeadsIn'
               PROVE  h.current.snapshot.run.id = id
    BY DEF LiveKept
  <2>1. \/ id \notin DOMAIN runs /\ id \in Ids(ram')
        \/ id \in DOMAIN runs /\ runs[id] = "Live"
    BY ObserveFacts
  <2>2. Ours(id)
    BY DEF Ours
  <2> QED
    BY <2>1, <2>2 DEF LiveKept
<1>6. LoadedNamed'
  BY DEF LoadedNamed
<1> QED
  BY <1>1, <1>2, <1>3, <1>4, <1>5, <1>6

\* Nothing becomes absent by a step that loses no record.
LEMMA StartedKept ==
  ASSUME Started, Observe, ObserverOK, boot' = boot, TypeOK,
         budget'.lost = budget.lost,
         flash'["rh0"] = Absent => flash["rh0"] = Absent,
         flash'["rc0"] = Absent => flash["rc0"] = Absent,
         flash'["rc1"] = Absent => flash["rc1"] = Absent,
         Ids(ram') \subseteq DOMAIN runs
         \/ /\ flash'["rh0"] # Absent
            /\ {flash'["rc0"], flash'["rc1"]} # {Absent}
  PROVE  Started'
<1>1. DOMAIN runs' = DOMAIN runs \cup Ids(ram')
  BY ObserveFacts
<1>2. CASE /\ flash'["rh0"] # Absent
           /\ {flash'["rc0"], flash'["rc1"]} # {Absent}
  BY <1>2 DEF Started
<1>3. CASE Ids(ram') \subseteq DOMAIN runs
  BY <1>1, <1>3 DEF Started, Ours
<1> QED
  BY <1>2, <1>3

Identities ==
  Placed /\ Asked /\ Over /\ EndedKept /\ LiveKept /\ LoadedNamed /\ Started

\* What a write leaves in flash is named already and is not absent.
LEMMA WriteHeads ==
  ASSUME Structure, WriteStep
  PROVE  /\ IsCommitted(flash'["rh0"]) =>
              \/ flash'["rh0"] = flash["rh0"]
              \/ flash'["rh0"] = op.committed
         /\ op.step # "CommittedHead" /\ IsCommitted(flash'["rh0"]) =>
              flash'["rh0"] = flash["rh0"]
         /\ flash'["rh0"] = Absent => flash["rh0"] = Absent
         /\ flash'["rc0"] = Absent => flash["rc0"] = Absent
         /\ flash'["rc1"] = Absent => flash["rc1"] = Absent
         /\ op.committed.current.snapshot.run = op.after
<1>1. /\ op \in Transactions /\ Underway
      /\ op.step = "CheckpointSlot" =>
           /\ flash'["rh0"] = flash["rh0"]
           /\ flash'["rc0"] \in {flash["rc0"], op.record, Corrupt}
           /\ flash'["rc1"] \in {flash["rc1"], op.record, Corrupt}
      /\ op.step # "CheckpointSlot" =>
           /\ flash'["rc0"] = flash["rc0"] /\ flash'["rc1"] = flash["rc1"]
           /\ flash'["rh0"] \in {flash["rh0"], StepValue, Corrupt}
  BY WriteCases
<1>2. /\ op.record \in Records /\ op.prepared \in PreparedHeads
      /\ op.committed \in CommittedHeads
  BY <1>1 DEF Transactions
<1>3. /\ op.prepared.state = "Prepared"
      /\ op.prepared \in Heads /\ op.committed \in Heads
  BY <1>2 DEF PreparedHeads, Heads
<1>4. Absent \notin {op.record, op.prepared, op.committed, Corrupt}
  BY <1>2, <1>3, RunStoreNone
<1>5. op.step # "CheckpointSlot" => StepValue \in {op.prepared, op.committed}
  BY DEF StepValue
<1>6. op.committed.current.snapshot.run = op.after
  BY <1>1 DEF Underway, Reference
<1>7. CASE op.step = "CheckpointSlot"
  BY <1>1, <1>4, <1>6, <1>7
<1>8. CASE op.step # "CheckpointSlot"
  <2>1. flash'["rh0"] \in {flash["rh0"], op.prepared, op.committed, Corrupt}
    BY <1>1, <1>5, <1>8
  <2>2. IsCommitted(flash'["rh0"]) =>
          flash'["rh0"] \in {flash["rh0"], op.committed}
    BY <1>3, <2>1 DEF IsCommitted, Readable
  <2>3. op.step # "CommittedHead" /\ IsCommitted(flash'["rh0"]) =>
          flash'["rh0"] = flash["rh0"]
    <3> SUFFICES ASSUME op.step # "CommittedHead", IsCommitted(flash'["rh0"])
                 PROVE  flash'["rh0"] = flash["rh0"]
      OBVIOUS
    <3>1. op.step = "PreparedHead"
      BY <1>1, <1>8 DEF Transactions
    <3>2. StepValue = op.prepared
      BY <3>1 DEF StepValue
    <3> QED
      BY <1>1, <1>3, <1>8, <3>2 DEF IsCommitted, Readable
  <2> QED
    BY <1>1, <1>4, <1>6, <1>8, <2>1, <2>2, <2>3
<1> QED
  BY <1>7, <1>8

\* A failed write names no other run than before.
LEMMA FailIdentity ==
  ASSUME Structure, ObserverOK, Observe, RamKnown, Identities, WriteStep,
         NEW result \in {"NotWritten", "Indeterminate"},
         FailTransaction(result),
         result = "NotWritten" => \A k \in Keys : flash'[k] = flash[k]
  PROVE  Identities'
<1>1. /\ op # None /\ op \in Transactions /\ TypeOK /\ Steady /\ Modes
      /\ Underway /\ Present /\ boot' = boot /\ budget'.lost = budget.lost
  BY WriteCases
<1>2. /\ op' = None /\ co'.head = co.head
      /\ co'.loaded = co.loaded /\ co'.epoch = co.epoch
      /\ co'.state \in {op.rollback, "BlockedIndeterminate"}
      /\ co'.state # "BlockedIndeterminate" => result = "NotWritten"
      /\ app'.epoch = app.epoch /\ app'.fallback = app.fallback
      /\ app'.requests = app.requests /\ app'.nextId = app.nextId
      /\ op.kind = "Recover" =>
           ram' = Run(LoadedRun.id, "RecoveryEvaluation", clock.up,
                      LoadedRun.prior)
      /\ op.kind # "Recover" => ram' = ram
  BY <1>1, FailFields
<1>3. /\ IsCommitted(flash'["rh0"]) =>
           \/ flash'["rh0"] = flash["rh0"]
           \/ flash'["rh0"] = op.committed
      /\ flash'["rh0"] = Absent => flash["rh0"] = Absent
      /\ flash'["rc0"] = Absent => flash["rc0"] = Absent
      /\ flash'["rc1"] = Absent => flash["rc1"] = Absent
      /\ op.committed.current.snapshot.run = op.after
  BY WriteHeads
<1>4. /\ Standing' = co'.state /\ Standing = op.rollback
      /\ op.rollback \in Usable /\ LoadedRun' = LoadedRun
      /\ boot.handoff = "None"
  BY <1>1, <1>2 DEF Standing, Transactions, LoadedRun, Modes
<1>5. op.kind = "Recover" =>
        /\ op.rollback = "LoadedActiveRun" /\ op.after.id = LoadedRun.id
        /\ co.loaded # None /\ LoadedRun.id = CurrentRun.id
        /\ Active(CurrentRun) /\ ram'.id = LoadedRun.id
  BY <1>1, <1>2, <1>4 DEF Underway, Steady, Run, Usable
<1>6. \/ ram' = ram
      \/ /\ op.kind = "Recover" /\ ram'.id = LoadedRun.id
         /\ Ids(ram') \subseteq {LoadedRun.id} /\ Active(ram')
  BY <1>2, <1>5 DEF Ids, Active
<1>7. Ids(ram') \subseteq Seen
  <2>1. Ids(ram) \subseteq DOMAIN runs
    BY DEF RamKnown, Ids
  <2>2. CASE ram' = ram
    <3>1. Ids(ram') = Ids(ram)
      BY <2>2
    <3> QED
      BY <2>1, <3>1 DEF Seen
  <2>3. CASE ram' # ram
    <3>1. Ids(ram') \subseteq {LoadedRun.id} /\ co.loaded # None
      BY <1>5, <1>6, <2>3
    <3> QED
      BY <3>1 DEF Seen
  <2> QED
    BY <2>2, <2>3
<1>8. DOMAIN runs' = DOMAIN runs \cup Ids(ram')
  BY ObserveFacts
<1>9. Seen' \subseteq Seen /\ Taken' \subseteq Taken
  BY <1>2, <1>4, <1>7, <1>8 DEF Seen, Taken
<1>10. HeadsIn' \subseteq HeadsIn
  BY <1>1, <1>2, <1>3, <1>4 DEF HeadsIn, Usable
<1>11. Named' \subseteq Named
  BY <1>2, <1>4, <1>5, <1>6 DEF Named
<1>12. ram' # None /\ ~Active(ram') => Concerned = {}
  <2> SUFFICES ASSUME ram' # None, ~Active(ram')
               PROVE  Concerned = {}
    OBVIOUS
  <2>1. CASE ram' = ram
    <3>1. ram # None /\ ~Active(ram)
      BY <2>1
    <3> QED
      BY <3>1 DEF Concerned, Ids
  <2>2. CASE ram' # ram
    BY <1>6, <2>2
  <2> QED
    BY <2>1, <2>2
<1>13. \A id \in Ids(ram') \ DOMAIN runs :
         \A h \in HeadsIn' : h.current.snapshot.run.id = id
  <2> SUFFICES ASSUME NEW id \in Ids(ram') \ DOMAIN runs, NEW h \in HeadsIn'
               PROVE  h.current.snapshot.run.id = id
    OBVIOUS
  <2>1. Ids(ram) \subseteq DOMAIN runs
    BY DEF RamKnown, Ids
  <2>2. op.kind = "Recover" /\ id = LoadedRun.id
    <3>1. CASE ram' = ram
      <4>1. Ids(ram') = Ids(ram)
        BY <3>1
      <4> QED
        BY <2>1, <4>1
    <3>2. CASE ram' # ram
      BY <1>6, <3>2
    <3> QED
      BY <3>1, <3>2
  <2>3. \/ h = flash'["rh0"] /\ IsCommitted(flash'["rh0"])
        \/ h = co.head
    BY <1>2 DEF HeadsIn
  <2>4. h = co.head => h.current.snapshot.run.id = id
    BY <1>5, <2>2 DEF CurrentRun
  <2>5. IsCommitted(flash["rh0"]) =>
          flash["rh0"].current.snapshot.run.id = LoadedRun.id
    BY <1>4, <1>5, <2>2 DEF Identities, LoadedNamed
  <2>6. op.committed.current.snapshot.run.id = LoadedRun.id
    BY <1>3, <1>5, <2>2
  <2> QED
    BY <1>3, <2>2, <2>3, <2>4, <2>5, <2>6
<1>14. Standing' = "LoadedActiveRun" =>
         /\ Standing = "LoadedActiveRun" /\ LoadedRun' = LoadedRun
         /\ IsCommitted(flash'["rh0"]) => flash'["rh0"] = flash["rh0"]
  BY <1>2, <1>4 DEF Keys
<1>15. Placed' /\ Asked' /\ Over' /\ EndedKept' /\ LiveKept' /\ LoadedNamed'
  <2>1. co'.head = None /\ Standing' \in Usable =>
          Seen' \subseteq Seen /\ co.head = None /\ Standing \in Usable
    BY <1>2, <1>4, <1>9
  <2> QED
    BY <1>1, <1>2, <1>9, <1>10, <1>11, <1>12, <1>13, <1>14, <2>1,
       IdentityFrame DEF Identities
<1>16. Started'
  <2>1. Ids(ram') \subseteq DOMAIN runs
        \/ /\ flash'["rh0"] # Absent
           /\ {flash'["rc0"], flash'["rc1"]} # {Absent}
    <3>1. CASE ram' = ram
      BY <3>1 DEF RamKnown, Ids
    <3>2. CASE ram' # ram
      <4>1. op.rollback = "LoadedActiveRun"
        BY <1>5, <1>6, <3>2
      <4>2. /\ flash["rh0"] # Absent
            /\ {flash["rc0"], flash["rc1"]} # {Absent}
        BY <1>1, <1>4, <4>1 DEF Present
      <4>3. \/ flash["rc0"] # Absent
            \/ flash["rc1"] # Absent
        BY <4>2
      <4>4. {flash'["rc0"], flash'["rc1"]} # {Absent}
        BY <1>3, <4>3
      <4> QED
        BY <1>3, <4>2, <4>4
    <3> QED
      BY <3>1, <3>2
  <2> QED
    BY <1>1, <1>3, <2>1, StartedKept DEF Identities
<1> QED
  BY <1>15, <1>16 DEF Identities

\* The run of a state, when it has one
LEMMA IdsFacts ==
  ASSUME NEW r
  PROVE  /\ Ids(r) \subseteq {r.id} /\ None \notin Ids(r)
         /\ r # None /\ Active(r) => Ids(r) = {r.id}
         /\ None \notin Concerned
<1>1. None \notin Ids(r) /\ None \notin Ids(ram)
      /\ None \notin Ids(co.loaded.snapshot.run)
  BY DEF Ids, Active
<1>2. None \notin Concerned
  BY <1>1 DEF Concerned
<1> QED
  BY <1>1, <1>2 DEF Ids

\* A finished write: its run is known, or its run has ended.
LEMMA SuccessIdentity ==
  ASSUME Structure, ObserverOK, Observe, RamKnown, Identities, WriteStep,
         AdvanceTransaction, op.step = "CommittedHead",
         flash'[StepKey] = StepValue
  PROVE  Identities'
<1>1. /\ op # None /\ op \in Transactions /\ TypeOK /\ Modes
      /\ Underway /\ Present /\ boot' = boot /\ budget'.lost = budget.lost
      /\ flash'["rc0"] = flash["rc0"] /\ flash'["rc1"] = flash["rc1"]
  BY WriteCases
<1>2. /\ op' = None /\ co'.head = op.committed
      /\ co'.loaded = None
      /\ co'.state = IF Active(op.after) THEN "Ready" ELSE "ReadyEmpty"
      /\ app'.epoch = app.epoch /\ app'.fallback = None
      /\ app'.requests = app.requests /\ app'.nextId = app.nextId
      /\ ram' = op.after /\ op.after \in RunStates
  BY <1>1, SuccessFields
<1>3. /\ flash'["rh0"] = Absent => flash["rh0"] = Absent
      /\ flash'["rc0"] = Absent => flash["rc0"] = Absent
      /\ flash'["rc1"] = Absent => flash["rc1"] = Absent
      /\ op.committed.current.snapshot.run = op.after
  BY WriteHeads
<1>4. flash'["rh0"] = op.committed
  BY DEF StepKey, StepValue
<1>5. /\ HeadSane(op.committed) /\ boot.handoff = "None"
      /\ op.committed \in CommittedHeads
  BY <1>1 DEF Underway, Modes, Transactions
<1>6. op.committed \in Heads /\ op.committed # None /\ op.committed # Absent
  BY <1>5, RunStoreNone DEF Heads
<1>7. /\ ~Active(op.after) => HeadNames(op.committed) = {None}
      /\ op.after.id \in HeadNames(op.committed)
  BY <1>3, <1>5, SaneNames DEF HeadNames
<1>8. HeadsIn' \subseteq {op.committed} /\ op.committed \in HeadsIn
  BY <1>1, <1>2, <1>4 DEF HeadsIn
<1>9. op.after # None
  BY <1>2, RunStoreNone
<1>10. /\ Ids(ram') \subseteq {op.after.id} /\ None \notin Concerned
       /\ DOMAIN runs' = DOMAIN runs \cup Ids(ram')
  BY <1>2, IdsFacts, ObserveFacts
<1>11. Seen' = DOMAIN runs'
  BY <1>2 DEF Seen
<1>12. /\ Taken' = Seen' /\ Seen' \subseteq Seen \cup {op.after.id}
       /\ Taken = Seen \cup {op.after.id}
  BY <1>1, <1>2, <1>10, <1>11 DEF Taken, Seen
<1>13. Named' = {op.after.id} /\ op.after.id \in Named
  BY <1>1, <1>2, <1>9 DEF Named
<1>14. ram' # None /\ ~Active(ram') =>
         \A id \in Concerned :
           id \notin Named' /\ \A h \in HeadsIn' : id \notin HeadNames(h)
  BY <1>2, <1>7, <1>8, <1>10, <1>13 DEF Active
<1>15. \A id \in Ids(ram') \ DOMAIN runs :
         \A h \in HeadsIn' : h.current.snapshot.run.id = id
  BY <1>3, <1>8, <1>10
<1>16. Standing' \in {"Ready", "ReadyEmpty"}
  BY <1>2 DEF Standing
<1>17. /\ Taken' \subseteq Taken /\ HeadsIn' \subseteq HeadsIn
       /\ Named' \subseteq Named \cup {None}
       /\ \A h \in HeadsIn' : Seen' \subseteq Seen \cup HeadNames(h)
       /\ co'.head # None
  BY <1>2, <1>6, <1>7, <1>8, <1>12, <1>13
<1>18. Placed' /\ Asked' /\ Over' /\ EndedKept' /\ LiveKept' /\ LoadedNamed'
  BY <1>1, <1>2, <1>14, <1>15, <1>16, <1>17, IdentityFrame DEF Identities
<1>19. Started'
  <2>1. flash'["rh0"] # Absent /\ {flash'["rc0"], flash'["rc1"]} # {Absent}
    BY <1>1, <1>4, <1>5, <1>6 DEF Present
  <2> QED
    BY <1>1, <1>3, <2>1, StartedKept DEF Identities
<1> QED
  BY <1>18, <1>19 DEF Identities

\* A write that goes on puts a named head into flash.
LEMMA AdvanceIdentity ==
  ASSUME Structure, ObserverOK, Observe, RamKnown, Identities, WriteStep,
         AdvanceTransaction, op.step # "CommittedHead"
  PROVE  Identities'
<1>1. /\ op # None /\ op \in Transactions /\ TypeOK /\ Modes
      /\ Underway /\ Present /\ boot' = boot /\ budget'.lost = budget.lost
  BY WriteCases
<1>2. /\ op' # None /\ op'.after = op.after
      /\ op'.rollback = op.rollback /\ op'.committed = op.committed
      /\ co'.head = co.head /\ co'.loaded = co.loaded
      /\ ram' = ram /\ app' = app
  BY <1>1, AdvanceFields
<1>3. /\ IsCommitted(flash'["rh0"]) => flash'["rh0"] = flash["rh0"]
      /\ flash'["rh0"] = Absent => flash["rh0"] = Absent
      /\ flash'["rc0"] = Absent => flash["rc0"] = Absent
      /\ flash'["rc1"] = Absent => flash["rc1"] = Absent
  BY WriteHeads
<1>4. Standing' = Standing /\ LoadedRun' = LoadedRun
  BY <1>1, <1>2 DEF Standing, LoadedRun
<1>5. Ids(ram') \subseteq DOMAIN runs
  <2>1. Ids(ram') = Ids(ram)
    BY <1>2
  <2>2. Ids(ram) \subseteq DOMAIN runs
    BY DEF RamKnown, Ids
  <2> QED
    BY <2>1, <2>2
<1>6. DOMAIN runs' = DOMAIN runs
  BY <1>5, ObserveFacts
<1>7. Seen' = Seen
  BY <1>2, <1>4, <1>6 DEF Seen
<1>8. Taken' = Taken
  BY <1>1, <1>2, <1>7 DEF Taken
<1>9. HeadsIn' \subseteq HeadsIn
  BY <1>1, <1>2, <1>3, <1>4 DEF HeadsIn
<1>10. Named' = Named
  BY <1>1, <1>2, <1>4 DEF Named
<1>11. Placed' /\ Asked' /\ Over' /\ EndedKept' /\ LiveKept' /\ LoadedNamed'
  BY <1>1, <1>2, <1>3, <1>4, <1>5, <1>7, <1>8, <1>9, <1>10, IdentityFrame
  DEF Identities
<1>12. Started'
  BY <1>1, <1>3, <1>5, StartedKept DEF Identities
<1> QED
  BY <1>11, <1>12 DEF Identities

\* Every outcome of a write keeps the identities.
LEMMA WriteIdentity ==
  ASSUME Structure, ObserverOK, Observe, RamKnown, Identities, WriteStep
  PROVE  Identities'
<1>1. \/ /\ AdvanceTransaction
         /\ flash'[StepKey] = StepValue
      \/ /\ FailTransaction("NotWritten")
         /\ \A k \in Keys : flash'[k] = flash[k]
      \/ FailTransaction("Indeterminate")
  BY WriteCases
<1>2. CASE AdvanceTransaction /\ flash'[StepKey] = StepValue
  BY <1>2, SuccessIdentity, AdvanceIdentity
<1>3. CASE /\ FailTransaction("NotWritten")
           /\ \A k \in Keys : flash'[k] = flash[k]
  BY <1>3, FailIdentity
<1>4. CASE FailTransaction("Indeterminate")
  BY <1>4, FailIdentity
<1> QED
  BY <1>1, <1>2, <1>3, <1>4

\* A request that becomes a run
Starting(after, id) ==
  /\ co.state \in {"Ready", "ReadyEmpty"} /\ ram # None /\ ~Active(ram)
  /\ \E s \in Surfaces :
       /\ app.requests[s] # None
       /\ after.id = app.requests[s].run /\ id = app.requests[s].id
       /\ app'.requests[s] = None

\* Which run a transaction can be about
LEMMA StartNames ==
  ASSUME Structure, op = None, NEW kind \in Kinds, NEW after, NEW id,
         NEW fallback, BeginFits(kind, after, id, fallback)
  PROVE  /\ \/ after.id = None
            \/ ram # None /\ after.id = ram.id
            \/ /\ co.loaded # None /\ after.id = LoadedRun.id
               /\ co.state \in {"LoadedActiveRun", "FallbackRecoveryPending"}
            \/ Starting(after, id)
         /\ \A s \in Surfaces : app'.requests[s] # None =>
              app'.requests[s] = app.requests[s]
         /\ app'.nextId = app.nextId
<1>1. TypeOK /\ Steady /\ Standing = co.state
  BY DEF Structure, Standing
<1>2. /\ app \in Applications
      /\ app.requests \in [Surfaces -> Requests \cup {None}]
  BY <1>1 DEF TypeOK, Applications
<1>3. CASE kind = "Command"
  <2>1. /\ co.state \in {"Ready", "ReadyEmpty"} /\ ram # None
        /\ CommandFits(after, id)
    BY <1>3 DEF BeginFits, CommandFits
  <2>2. PICK s \in Surfaces :
          /\ app.requests[s] # None /\ id = app.requests[s].id
          /\ app' = [app EXCEPT !.requests[s] = None]
          /\ \/ /\ ~Active(ram)
                /\ after = Run(app.requests[s].run, "Preheating", clock.up,
                               None)
             \/ Active(ram) /\ after = NoRun(clock.up)
             \/ /\ ram.phase = "Fermenting"
                /\ after = Run(ram.id, "Fermenting", clock.up, 0)
    BY <2>1 DEF CommandFits
  <2>3. /\ app'.nextId = app.nextId
        /\ app'.requests = [app.requests EXCEPT ![s] = None]
    BY <1>2, <2>2 DEF Applications
  <2>4. /\ app'.requests[s] = None
        /\ \A other \in Surfaces : app'.requests[other] # None =>
             app'.requests[other] = app.requests[other]
    BY <1>2, <2>3
  <2>5. CASE /\ ~Active(ram)
             /\ after = Run(app.requests[s].run, "Preheating", clock.up, None)
    <3>1. after.id = app.requests[s].run
      BY <2>5 DEF Run
    <3>2. Starting(after, id)
      BY <2>1, <2>2, <2>4, <2>5, <3>1 DEF Starting
    <3> QED
      BY <2>3, <2>4, <3>2
  <2>6. CASE after = NoRun(clock.up)
    BY <2>3, <2>4, <2>6 DEF NoRun, Run
  <2>7. CASE after = Run(ram.id, "Fermenting", clock.up, 0)
    BY <2>1, <2>3, <2>4, <2>7 DEF Run
  <2> QED
    BY <2>2, <2>5, <2>6, <2>7
<1>4. CASE kind # "Command"
  <2>1. app'.requests = app.requests /\ app'.nextId = app.nextId
    BY <1>4 DEF BeginFits
  <2>2. co.state \in {"LoadedActiveRun", "FallbackRecoveryPending"} =>
          co.loaded # None
    BY <1>1 DEF Steady
  <2>3. CASE kind \in {"Transition", "Periodic"}
    BY <2>1, <2>3, KindFacts
  <2>4. CASE kind = "Recover"
    BY <2>1, <2>2, <2>4, KindFacts
  <2>5. CASE kind = "Discard"
    BY <2>1, <2>5, KindFacts DEF Active
  <2>6. CASE kind = "Fallback"
    <3>1. /\ co.state = "FallbackRecoveryPending"
          /\ \/ after = LoadedRun
             \/ after = Recovered(co.loaded, TRUE)
      BY <2>6 DEF BeginFits, FallbackFits
    <3>2. after.id \in {LoadedRun.id, None}
      BY <3>1 DEF Recovered, Run, NoRun, LoadedRun
    <3> QED
      BY <2>1, <2>2, <3>1, <3>2
  <2> QED
    BY <1>4, <2>3, <2>4, <2>5, <2>6 DEF Kinds
<1> QED
  BY <1>3, <1>4

\* The run of the head is the one an end is about.
LEMMA HeadConcerned ==
  ASSUME Structure, op = None, co.state \in Usable, co.head # None,
         Active(CurrentRun)
  PROVE  /\ Concerned = {CurrentRun.id}
         /\ ram # None => ram.id = CurrentRun.id
         /\ co.state # "ReadyEmpty"
<1>1. Steady /\ Standing = co.state
  BY DEF Structure, Standing
<1>2. co.state \in {"Ready", "LoadedActiveRun", "FallbackRecoveryPending"}
  BY <1>1 DEF Steady, Usable
<1>3. CurrentRun.id # None
  BY DEF Active
<1>4. ram # None => ram.id = CurrentRun.id
  BY <1>1, <1>2 DEF Steady
<1>5. CASE ram # None
  <2>1. Ids(ram) = {CurrentRun.id}
    BY <1>3, <1>4, <1>5, IdsFacts DEF Active
  <2> QED
    BY <1>2, <1>4, <1>5, <2>1 DEF Concerned
<1>6. CASE ram = None
  <2>1. co.loaded # None /\ LoadedRun.id = CurrentRun.id
    BY <1>1, <1>2, <1>6 DEF Steady
  <2>2. LoadedRun # None
    <3>1. co.loaded \in Records
      BY <2>1 DEF Structure, TypeOK, Coordinators
    <3>2. LoadedRun \in RunStates
      BY <3>1 DEF Records, Snapshots, LoadedRun
    <3> QED
      BY <3>2, RunStoreNone
  <2>3. Ids(LoadedRun) = {CurrentRun.id}
    BY <1>3, <2>1, <2>2, IdsFacts DEF Active
  <2> QED
    BY <1>2, <1>6, <2>1, <2>3 DEF Concerned, LoadedRun
<1> QED
  BY <1>5, <1>6

\* The runs seen have identities.
LEMMA SeenType ==
  ASSUME Structure, ObserverOK
  PROVE  Seen \subseteq RunIds \cup {None}
<1>1. DOMAIN runs \subseteq RunIds
  BY DEF ObserverOK
<1>2. co.loaded # None => co.loaded \in Records
  BY DEF Structure, TypeOK, Coordinators
<1>3. co.loaded # None => LoadedRun \in RunStates
  BY <1>2 DEF Records, Snapshots, LoadedRun
<1>4. co.loaded # None => LoadedRun.id \in RunIds \cup {None}
  BY <1>3 DEF RunStates
<1> QED
  BY <1>1, <1>4 DEF Seen

\* The high water of a new head is above every run, the new one included.
LEMMA NewHeadOver ==
  ASSUME Structure, ObserverOK, op = None, boot.handoff = "None",
         Placed, Asked, Over, co.state \in Usable, NEW after \in RunStates,
         NEW id \in Nat \cup {None},
         id # None => HighWater(co) # None /\ id > HighWater(co),
         \/ after.id \in Seen \cup {None}
         \/ \E s \in Surfaces :
              /\ app.requests[s] # None /\ after.id = app.requests[s].run
              /\ id = app.requests[s].id,
         NEW h, HeadSane(h), h.current.snapshot.run = after,
         h.epoch = co.epoch, h.highWater = NewHighWater(id)
  PROVE  HeadOver(h, Seen, boot.epoch)
<1>1. /\ TypeOK /\ Steady /\ Modes /\ Standing = co.state
      /\ co.epoch = boot.epoch /\ app.epoch = boot.epoch
  BY DEF Structure, Standing, Modes
<1>2. /\ co.head # None => co.head \in HeadsIn /\ HeadSane(co.head)
      /\ co.head # None => co.head.epoch = co.epoch
  BY <1>1 DEF HeadsIn, Steady
<1>3. ASSUME co.head # None
      PROVE  /\ co.head.highWater \in Nat
             /\ \A i \in Seen : i # None /\ i[1] = co.epoch =>
                  i[2] <= co.head.highWater
  <2>1. HeadOver(co.head, Seen, boot.epoch)
    BY <1>2, <1>3 DEF Over
  <2>2. co.head.highWater \in Nat
    BY <1>2, <1>3, SaneNames
  <2> QED
    BY <1>2, <1>3, <2>1, <2>2 DEF HeadOver
<1>4. ASSUME co.head = None
      PROVE  \A i \in Seen : i # None => i[1] < boot.epoch
  BY <1>1, <1>4 DEF Over
<1>5. boot.epoch \in Nat /\ Seen \subseteq Taken
  BY <1>1 DEF TypeOK, Taken
<1>6. /\ HeadNames(h) \subseteq {after.id, None}
      /\ HeadNames(h) \subseteq RunIds \cup {None}
      /\ h.highWater \in Nat
  BY SaneNames
<1>7. ASSUME NEW i \in Seen \cup {None}, i # None, i[1] = co.epoch,
             i \in RunIds
      PROVE  i[2] <= h.highWater
  <2>1. i[1] \in Nat /\ i[2] \in Nat
    BY <1>7 DEF RunIds
  <2>2. co.head # None /\ i[2] <= co.head.highWater
    BY <1>1, <1>3, <1>4, <1>5, <1>7
  <2>3. CASE id = None
    BY <2>2, <2>3 DEF NewHighWater
  <2>4. CASE id # None
    <3>1. HighWater(co) = co.head.highWater
      BY <2>2 DEF HighWater
    <3>2. id > co.head.highWater /\ h.highWater = id
      BY <2>4, <3>1 DEF NewHighWater
    <3>3. co.head.highWater \in Nat /\ id \in Nat
      BY <1>3, <2>2, <2>4
    <3> QED
      BY <2>1, <2>2, <3>2, <3>3
  <2> QED
    BY <2>3, <2>4
<1>8. ASSUME NEW s \in Surfaces, app.requests[s] # None,
             after.id = app.requests[s].run, id = app.requests[s].id
      PROVE  after.id[2] <= h.highWater /\ after.id[1] <= boot.epoch
  <2>1. /\ app.requests[s].id = app.requests[s].run[2]
        /\ app.requests[s].run[1] <= app.epoch
    BY <1>8 DEF Asked
  <2>2. app.requests[s] \in Requests
    BY <1>1, <1>8 DEF TypeOK, Applications
  <2>3. id \in Nat
    BY <1>8, <2>2 DEF Requests
  <2>4. id # None
    BY <2>3, RunStoreNone
  <2>5. h.highWater = id /\ after.id[2] = id
    BY <1>8, <2>1, <2>4 DEF NewHighWater
  <2> QED
    BY <1>1, <1>8, <2>1, <2>3, <2>5
<1>9. Seen \subseteq RunIds \cup {None}
  BY SeenType
<1>10. ASSUME NEW i \in Seen \cup HeadNames(h), i # None, i[1] = h.epoch
       PROVE  i[2] <= h.highWater
  <2>1. CASE i \in Seen
    BY <1>7, <1>9, <1>10, <2>1
  <2>2. CASE i \notin Seen
    BY <1>6, <1>8, <1>10, <2>2
  <2> QED
    BY <2>1, <2>2
<1>11. ASSUME NEW i \in HeadNames(h), i # None
       PROVE  i[1] <= boot.epoch
  <2>1. CASE i \in Seen
    BY <1>5, <1>11, <2>1 DEF Placed
  <2>2. CASE i \notin Seen
    BY <1>6, <1>8, <1>11, <2>2
  <2> QED
    BY <2>1, <2>2
<1> QED
  BY <1>10, <1>11 DEF HeadOver

\* A transaction names the run it is about, or a run that is new.
LEMMA StartsIdentity ==
  ASSUME Structure, Structure', ObserverOK, Observe, RamKnown, Identities,
         StartsSome
  PROVE  Identities'
<1>1. PICK kind, after, ids, id, target, fallback, t :
        Starts(kind, after, ids, id, target, fallback, t)
  BY DEF StartsSome
<1>2. /\ op = None /\ op' = t /\ co' = [co EXCEPT !.state = "Busy"]
      /\ app'.epoch = app.epoch /\ app'.fallback = app.fallback
      /\ app.life \in {"Initializing", "Ready"}
      /\ flash' = flash /\ boot' = boot /\ ram' = ram /\ budget' = budget
      /\ co.state \in Usable /\ kind \in Kinds /\ after \in RunStates
      /\ id \in Nat \cup {None}
      /\ BeginFits(kind, after, id, fallback) /\ Admitted(t, id)
  BY <1>1 DEF Starts, Begun
<1>3. /\ t # None /\ t.after = after /\ t.rollback = co.state
      /\ t.committed.highWater = NewHighWater(id)
  BY <1>1, StartsFields
<1>4. /\ TypeOK /\ Steady /\ Modes /\ Standing = co.state
      /\ boot.handoff = "None" /\ co.epoch = boot.epoch
      /\ app.epoch = boot.epoch
  BY <1>2 DEF Structure, Standing, Modes
<1>5. Underway'
  BY <1>2, <1>3 DEF Structure
<1>6. /\ co'.head = co.head /\ co'.loaded = co.loaded /\ co'.epoch = co.epoch
      /\ Standing' = Standing /\ LoadedRun' = LoadedRun
  BY <1>2, <1>3, <1>4 DEF TypeOK, Coordinators, Standing, LoadedRun
<1>7. /\ HeadSane(t.committed) /\ t.committed.epoch = co.epoch
      /\ t.committed.current.snapshot.run = after
  BY <1>2, <1>3, <1>5, <1>6 DEF Underway, Reference
<1>8. HeadNames(t.committed) \subseteq {after.id, None}
  BY <1>7, SaneNames
<1>9. /\ \/ after.id = None
         \/ ram # None /\ after.id = ram.id
         \/ /\ co.loaded # None /\ after.id = LoadedRun.id
            /\ co.state \in {"LoadedActiveRun", "FallbackRecoveryPending"}
         \/ Starting(after, id)
      /\ \A s \in Surfaces : app'.requests[s] # None =>
           app'.requests[s] = app.requests[s]
      /\ app'.nextId = app.nextId
  BY <1>2, StartNames
<1>10. DOMAIN runs' = DOMAIN runs /\ Ids(ram') \subseteq DOMAIN runs
  <2>1. Ids(ram') = Ids(ram)
    BY <1>2
  <2>2. Ids(ram) \subseteq DOMAIN runs
    BY DEF RamKnown, Ids
  <2> QED
    BY <2>1, <2>2, ObserveFacts
<1>11. Seen' = Seen /\ Taken = Seen
  BY <1>2, <1>6, <1>10 DEF Seen, Taken
<1>12. Taken' = Seen \cup {after.id}
  BY <1>2, <1>3, <1>11 DEF Taken
<1>13. HeadsIn' = HeadsIn \cup {t.committed}
  <2>1. \A x : x \in HeadsIn' <=>
          \/ x = flash["rh0"] /\ IsCommitted(x)
          \/ x = co.head /\ x # None /\ Standing \in Usable
          \/ x = t.committed
    BY <1>2, <1>3, <1>6 DEF HeadsIn
  <2>2. \A x : x \in HeadsIn <=>
          \/ x = flash["rh0"] /\ IsCommitted(x)
          \/ x = co.head /\ x # None /\ Standing \in Usable
    BY <1>2 DEF HeadsIn
  <2> QED
    BY <2>1, <2>2
<1>14. Named' = Named \cup {after.id}
  BY <1>2, <1>3, <1>6 DEF Named
<1>15. after.id \in Seen \cup {None} \/ Starting(after, id)
  <2>1. ram # None /\ ram.id # None => ram.id \in Seen
    BY DEF RamKnown, Active, Seen
  <2>2. co.loaded # None => LoadedRun.id \in Seen
    BY DEF Seen
  <2> QED
    BY <1>9, <2>1, <2>2
<1>16. Placed'
  <2> SUFFICES ASSUME NEW i \in Taken', i # None
               PROVE  /\ i[1] <= boot'.epoch
                      /\ boot'.handoff # "None" => i[1] < boot'.epoch
                      /\ app'.nextId \notin {None, 0} /\ i[1] = app'.epoch
                           => i[2] < app'.nextId
                      /\ \A s \in Surfaces : app'.requests[s] # None
                           => app'.requests[s].run # i
    BY DEF Placed
  <2>1. CASE i \in Seen
    <3>1. /\ i[1] <= boot.epoch
          /\ app.nextId \notin {None, 0} /\ i[1] = app.epoch
               => i[2] < app.nextId
          /\ \A s \in Surfaces : app.requests[s] # None
               => app.requests[s].run # i
      BY <1>11, <2>1 DEF Placed, Identities
    <3> QED
      BY <1>2, <1>4, <1>9, <3>1
  <2>2. CASE i \notin Seen
    <3>1. i = after.id /\ Starting(after, id)
      BY <1>12, <1>15, <2>2
    <3>2. PICK s \in Surfaces :
            /\ app.requests[s] # None
            /\ i = app.requests[s].run /\ id = app.requests[s].id
            /\ app'.requests[s] = None
      BY <3>1 DEF Starting
    <3>3. /\ app.requests[s].id = app.requests[s].run[2]
          /\ app.requests[s].run[1] <= app.epoch
          /\ app.nextId \notin {None, 0} /\ app.requests[s].run[1] = app.epoch
               => app.requests[s].id < app.nextId
          /\ \A other \in Surfaces \ {s} :
               app.requests[other] # None
                 => app.requests[other].run # app.requests[s].run
      BY <3>2 DEF Asked, Identities
    <3> QED
      BY <1>2, <1>4, <1>9, <3>2, <3>3
  <2> QED
    BY <2>1, <2>2
<1>17. Asked'
  <2> SUFFICES ASSUME NEW s \in Surfaces, app'.requests[s] # None
               PROVE  LET q == app'.requests[s] IN
                      /\ q.id = q.run[2] /\ q.run[1] <= app'.epoch
                      /\ boot'.handoff # "None" => q.run[1] < boot'.epoch
                      /\ app'.nextId \notin {None, 0} /\ q.run[1] = app'.epoch
                           => q.id < app'.nextId
                      /\ \A other \in Surfaces \ {s} :
                           app'.requests[other] # None
                             => app'.requests[other].run # q.run
    BY DEF Asked
  <2>1. /\ app'.requests[s] = app.requests[s]
        /\ \A other \in Surfaces : app'.requests[other] # None =>
             app'.requests[other] = app.requests[other]
    BY <1>9
  <2>2. LET q == app.requests[s] IN
        /\ q.id = q.run[2] /\ q.run[1] <= app.epoch
        /\ app.nextId \notin {None, 0} /\ q.run[1] = app.epoch
             => q.id < app.nextId
        /\ \A other \in Surfaces \ {s} :
             app.requests[other] # None => app.requests[other].run # q.run
    BY <2>1 DEF Asked, Identities
  <2> QED
    BY <1>2, <1>4, <1>9, <2>1, <2>2
<1>18. Over'
  <2>1. HeadOver(t.committed, Seen, boot.epoch)
    <3>1. id # None => HighWater(co) # None /\ id > HighWater(co)
      BY <1>2 DEF Admitted
    <3>2. \/ after.id \in Seen \cup {None}
          \/ \E s \in Surfaces :
               /\ app.requests[s] # None /\ after.id = app.requests[s].run
               /\ id = app.requests[s].id
      BY <1>15 DEF Starting
    <3>3. Placed /\ Asked /\ Over
      BY DEF Identities
    <3> QED
      BY <1>2, <1>3, <1>4, <1>7, <3>1, <3>2, <3>3, NewHeadOver
  <2>2. \A h \in HeadsIn : HeadOver(h, Seen, boot.epoch)
    BY <1>4 DEF Identities, Over
  <2>3. \A h \in HeadsIn' : HeadOver(h, Seen', boot'.epoch)
    BY <1>2, <1>11, <1>13, <2>1, <2>2
  <2>4. co'.head = None /\ Standing' \in Usable =>
          \A i \in Seen' : i # None => i[1] < boot'.epoch
    BY <1>2, <1>4, <1>6, <1>11 DEF Identities, Over
  <2> QED
    BY <2>3, <2>4 DEF Over
<1>19. EndedKept'
  <2> SUFFICES ASSUME NEW i \in DOMAIN runs', runs'[i] = "Ended"
               PROVE  /\ i \notin Named'
                      /\ \A h \in HeadsIn' : i \notin HeadNames(h)
    BY DEF EndedKept
  <2>1. i \in DOMAIN runs /\ runs[i] = "Ended"
    BY <1>2, ObserveFacts
  <2>2. i # None /\ i \in Taken
    BY <1>11, <2>1, RunStoreNone DEF ObserverOK, Seen
  <2>3. i \notin Named /\ \A h \in HeadsIn : i \notin HeadNames(h)
    BY <2>1 DEF EndedKept, Identities
  <2>4. /\ ram # None => ram.id # i
        /\ co.loaded # None => LoadedRun.id # i
    BY <2>3 DEF Named
  <2>5. \A s \in Surfaces : app.requests[s] # None => app.requests[s].run # i
    BY <2>2 DEF Placed, Identities
  <2>6. i # after.id
    BY <1>9, <2>2, <2>4, <2>5 DEF Starting
  <2> QED
    BY <1>8, <1>13, <1>14, <2>2, <2>3, <2>6
<1>20. LiveKept'
  <2> SUFFICES ASSUME NEW i \in DOMAIN runs', runs'[i] = "Live", Ours(i)',
                      NEW h \in HeadsIn'
               PROVE  h.current.snapshot.run.id = i
    BY DEF LiveKept
  <2>1. /\ i \in DOMAIN runs /\ runs[i] = "Live"
        /\ ~Active(after) => i \notin Concerned
    BY <1>2, <1>3, <1>10, ObserveFacts
  <2>2. Ours(i)
    BY <1>2 DEF Ours
  <2>3. \A g \in HeadsIn : g.current.snapshot.run.id = i
    BY <2>1, <2>2 DEF LiveKept, Identities
  <2>4. i # None /\ i \in Seen
    BY <2>1, RunStoreNone DEF ObserverOK, Seen
  <2>5. co.head # None
    <3>1. co.head = None => i[1] < boot.epoch
      BY <1>2, <1>4, <2>4 DEF Over, Identities
    <3> QED
      BY <1>4, <2>2, <3>1 DEF Ours, TypeOK
  <2>6. CurrentRun.id = i /\ Active(CurrentRun)
    <3>1. co.head \in HeadsIn
      BY <1>2, <1>4, <2>5 DEF HeadsIn
    <3> QED
      BY <2>3, <2>4, <3>1 DEF CurrentRun, Active
  <2>7. /\ Concerned = {i} /\ (ram # None => ram.id = i)
        /\ co.state # "ReadyEmpty"
    BY <1>2, <2>5, <2>6, HeadConcerned
  <2>8. Active(after)
    BY <2>1, <2>7
  <2>9. after.id = i
    <3>1. ~Starting(after, id)
      BY <2>4, <2>7 DEF Starting, Active
    <3>2. co.state \in {"LoadedActiveRun", "FallbackRecoveryPending"} =>
            LoadedRun.id = i
      BY <1>4, <2>6 DEF Steady
    <3> QED
      BY <1>9, <2>7, <2>8, <3>1, <3>2 DEF Active
  <2> QED
    BY <1>7, <1>13, <2>3, <2>9
<1>21. LoadedNamed'
  <2>1. LoadedNamed
    BY DEF Identities
  <2> QED
    BY <1>2, <1>6, <2>1 DEF LoadedNamed
<1>22. Started'
  BY <1>2, <1>4, <1>10, StartedKept DEF Identities
<1> QED
  BY <1>16, <1>17, <1>18, <1>19, <1>20, <1>21, <1>22 DEF Identities

\* A step that leaves flash, coordinator and transaction as they are
LEMMA QuietIdentity ==
  ASSUME Structure, ObserverOK, Observe, RamKnown, Identities,
         boot' = boot, flash' = flash, budget'.lost = budget.lost, op' = op,
         co'.head = co.head, co'.loaded = co.loaded, co'.state = co.state,
         Ids(ram') \subseteq DOMAIN runs, Named' \subseteq Named \cup {None},
         \A s \in Surfaces : app'.requests[s] # None =>
           app'.requests[s] = app.requests[s],
         app'.nextId = app.nextId, app'.epoch = app.epoch
  PROVE  Identities'
<1>1. Standing' = Standing /\ LoadedRun' = LoadedRun
  BY DEF Standing, LoadedRun
<1>2. DOMAIN runs' = DOMAIN runs
  BY ObserveFacts
<1>3. Seen' = Seen
  BY <1>1, <1>2 DEF Seen
<1>4. Taken' = Taken
  BY <1>3 DEF Taken
<1>5. HeadsIn' = HeadsIn
  BY <1>1 DEF HeadsIn
<1>6. Placed' /\ Asked' /\ Over' /\ EndedKept' /\ LiveKept' /\ LoadedNamed'
  BY <1>1, <1>3, <1>4, <1>5, IdentityFrame DEF Identities
<1>7. Started'
  BY StartedKept DEF Identities, Structure
<1> QED
  BY <1>6, <1>7 DEF Identities

\* The loaded run is published without a write.
LEMMA PublishedIdentity ==
  ASSUME Structure, ObserverOK, Observe, RamKnown, Identities,
         op = None, op' = None, co.state = "LoadedActiveRun",
         boot.handoff = "None",
         UNCHANGED <<flash, boot, clock, budget>>,
         ram' # None, ram'.id = LoadedRun.id,
         co'.head = co.head, co'.loaded \in {co.loaded, None},
         co'.state \in {co.state, "BlockedIndeterminate", "Ready"},
         co'.state = co.state => co'.loaded = co.loaded,
         app'.requests = app.requests, app'.nextId = app.nextId,
         app'.epoch = app.epoch, app'.fallback = None
  PROVE  Identities'
<1>1. /\ TypeOK /\ Steady /\ Present /\ Standing = co.state
      /\ Standing' = co'.state
  BY DEF Structure, Standing
<1>2. /\ co.loaded # None /\ LoadedRun.id = CurrentRun.id
      /\ co.head # None
  BY <1>1 DEF Steady, Usable
<1>3. Ids(ram') \subseteq {LoadedRun.id} /\ LoadedRun.id \in Seen
  BY <1>2, IdsFacts DEF Seen
<1>4. co'.loaded # None => LoadedRun' = LoadedRun
  BY DEF LoadedRun
<1>5. DOMAIN runs' = DOMAIN runs \cup Ids(ram')
  BY ObserveFacts
<1>6. Seen' \subseteq Seen
  BY <1>3, <1>4, <1>5 DEF Seen
<1>7. Taken' \subseteq Taken
  BY <1>6 DEF Taken
<1>8. HeadsIn' \subseteq HeadsIn
  BY <1>1 DEF HeadsIn, Usable
<1>9. Named' \subseteq Named
  BY <1>2, <1>4 DEF Named
<1>10. \A id \in Ids(ram') \ DOMAIN runs :
         \A h \in HeadsIn' : h.current.snapshot.run.id = id
  <2> SUFFICES ASSUME NEW id \in Ids(ram') \ DOMAIN runs, NEW h \in HeadsIn'
               PROVE  h.current.snapshot.run.id = id
    OBVIOUS
  <2>1. id = LoadedRun.id
    BY <1>3
  <2>2. h \in HeadsIn
    BY <1>8
  <2>3. \/ h = flash["rh0"] /\ IsCommitted(flash["rh0"])
        \/ h = co.head
    BY <2>2 DEF HeadsIn
  <2>4. IsCommitted(flash["rh0"]) =>
          flash["rh0"].current.snapshot.run.id = LoadedRun.id
    BY <1>1 DEF LoadedNamed, Identities
  <2> QED
    BY <1>2, <2>1, <2>3, <2>4 DEF CurrentRun
<1>11. Standing' = "LoadedActiveRun" =>
         /\ Standing = "LoadedActiveRun" /\ LoadedRun' = LoadedRun
         /\ IsCommitted(flash'["rh0"]) => flash'["rh0"] = flash["rh0"]
  BY <1>1, <1>2, <1>4
<1>12. Placed' /\ Asked' /\ Over' /\ EndedKept' /\ LiveKept' /\ LoadedNamed'
  BY <1>1, <1>2, <1>6, <1>7, <1>8, <1>9, <1>10, <1>11, IdentityFrame
  DEF Identities
<1>13. Started'
  <2>1. flash["rh0"] # Absent /\ {flash["rc0"], flash["rc1"]} # {Absent}
    BY <1>1 DEF Present
  <2> QED
    BY <1>1, <2>1, StartedKept DEF Identities
<1> QED
  BY <1>12, <1>13 DEF Identities

\* A recovery that is rejected or waits names no other run.
LEMMA RejectIdentity ==
  ASSUME Structure, ObserverOK, Observe, RamKnown, Identities,
         op = None, co.state = "LoadedActiveRun",
         boot.handoff = "None", app.life \in {"Initializing", "Ready"},
         LoadedRun.phase = "Fermenting",
         RejectRecovery \/ AwaitTrustedTime,
         UNCHANGED <<flash, boot, clock, budget>>
  PROVE  Identities'
<1>1. /\ op' = None
      /\ app'.requests = app.requests
      /\ app'.nextId = app.nextId /\ app'.epoch = app.epoch
      /\ app'.fallback = None
      /\ co'.head = co.head /\ co'.loaded = co.loaded
      /\ co'.state \in {co.state, "BlockedIndeterminate"}
      /\ ram' = Run(LoadedRun.id, "RecoveryEvaluation", clock.up,
                    LoadedRun.prior)
      /\ Structure'
  BY RejectStructure
<1>2. ram'.id = LoadedRun.id
  BY <1>1 DEF Run
<1>3. ram' # None
  <2>1. ram' \in RunStates \cup {None} /\ TypeOK
    BY <1>1 DEF Structure, TypeOK
  <2>2. co.loaded \in Records
    BY DEF Structure, Steady, Standing, TypeOK, Coordinators
  <2>3. LoadedRun \in RunStates /\ clock.up \in Nat
    BY <2>2 DEF Records, Snapshots, LoadedRun, Structure, TypeOK
  <2>4. /\ LoadedRun.id \in RunIds \cup {None}
        /\ LoadedRun.prior \in Int \cup {None}
    BY <2>3 DEF RunStates
  <2>5. ram' \in RunStates
    BY <1>1, <2>3, <2>4, RunType
  <2> QED
    BY <2>5, RunStoreNone
<1> QED
  BY <1>1, <1>2, <1>3, PublishedIdentity

\* Nor does a boot that publishes what it has.
LEMMA BootIdentity ==
  ASSUME Structure, Structure', ObserverOK, Observe, RamKnown, Identities,
         ProcessBoot
  PROVE  Identities'
<1>1. /\ op = None /\ app.life = "Initializing" /\ app.class # None
      /\ boot.handoff = "None" /\ ram = None /\ app.fallback = None
      /\ UNCHANGED <<flash, boot, clock, budget>>
      /\ \/ StartsSome
         \/ /\ RejectRecovery \/ AwaitTrustedTime
            /\ co.state = "LoadedActiveRun" /\ co.loaded # None
            /\ LoadedRun.phase = "Fermenting"
         \/ /\ RestoreTerminal
            /\ app.class \in {"CompletedRun", "TerminalRunFault"}
         \/ /\ Shown(None) /\ app'.life \in {"Ready", "ServiceRequired"}
            /\ \/ ram' = ram
               \/ co.state = "ReadyEmpty" /\ ram' = NoRun(0)
         \/ /\ Shown(LoadedRun) /\ app'.life = "Ready" /\ ram' = ram
            /\ co.state = "FallbackRecoveryPending"
  BY BootCases
<1>2. CASE StartsSome
  BY <1>2, StartsIdentity
<1>3. CASE /\ RejectRecovery \/ AwaitTrustedTime
           /\ co.state = "LoadedActiveRun" /\ LoadedRun.phase = "Fermenting"
  BY <1>1, <1>3, RejectIdentity
<1>4. CASE RestoreTerminal
           /\ app.class \in {"CompletedRun", "TerminalRunFault"}
  <2>1. /\ ram' # None /\ ram'.id = LoadedRun.id
        /\ co'.state = "Ready" /\ co'.head = co.head /\ co'.loaded = None
        /\ app'.requests = app.requests /\ app'.nextId = app.nextId
        /\ app'.epoch = app.epoch
        /\ app'.fallback = None /\ co.state = "LoadedActiveRun"
    BY <1>1, <1>4, RestoreStructure
  <2>2. op' = None
    BY <1>1, <1>4 DEF RestoreTerminal
  <2> QED
    BY <1>1, <2>1, <2>2, PublishedIdentity
<1>5. ASSUME NEW fallback \in {None, LoadedRun}, Shown(fallback),
             fallback # None => co.loaded # None,
             ram' \in {None, NoRun(0)}
      PROVE  Identities'
  <2>1. /\ app' = [app EXCEPT !.life = app'.life, !.class = None,
                              !.fallback = fallback]
        /\ UNCHANGED <<flash, boot, co, op, clock, budget>>
    BY <1>5 DEF Shown
  <2>2. /\ app'.requests = app.requests /\ app'.nextId = app.nextId
        /\ app'.epoch = app.epoch /\ app'.fallback = fallback
    BY <2>1 DEF Structure, TypeOK, Applications
  <2>3. Ids(ram') = {}
    BY <1>5 DEF Ids, NoRun, Run, Active
  <2>4. ram' # None => ram'.id = None
    BY <1>5 DEF NoRun, Run
  <2>5. LoadedRun' = LoadedRun
    BY <2>1 DEF LoadedRun
  <2>6. Named' \subseteq Named \cup {None}
    BY <1>5, <2>1, <2>2, <2>4, <2>5 DEF Named
  <2> QED
    BY <2>1, <2>2, <2>3, <2>6, QuietIdentity
<1>6. CASE /\ Shown(None)
           /\ \/ ram' = ram
              \/ co.state = "ReadyEmpty" /\ ram' = NoRun(0)
  BY <1>1, <1>5, <1>6
<1>7. CASE /\ Shown(LoadedRun) /\ ram' = ram
           /\ co.state = "FallbackRecoveryPending"
  <2>1. co.loaded # None
    BY <1>1, <1>7 DEF Structure, Steady, Standing
  <2> QED
    BY <1>1, <1>5, <1>7, <2>1
<1> QED
  BY <1>1, <1>2, <1>3, <1>4, <1>6, <1>7

\* A prepared start takes an identity no run has had.
LEMMA PrepareIdentity ==
  ASSUME Structure, ObserverOK, Observe, RamKnown, Identities,
         NEW s \in Surfaces, Prepare(s)
  PROVE  Identities'
<1>1. /\ app.nextId \in Nat \ {0} /\ app.requests[s] = None
      /\ app' = [app EXCEPT
           !.requests[s] = [id |-> app.nextId,
                            run |-> <<app.epoch, app.nextId>>],
           !.nextId = AfterId(@)]
      /\ budget' = [budget EXCEPT !.presses = @ - 1]
      /\ UNCHANGED <<flash, boot, co, ram, op, clock>>
      /\ app.life = "Ready" /\ TypeOK /\ Modes
  BY DEF Structure, TypeOK, Applications, Prepare, Serving
<1>2. /\ boot.handoff = "None" /\ app.epoch = boot.epoch
      /\ boot.epoch \in Nat
  BY <1>1 DEF Modes, TypeOK
<1>3. /\ app'.requests[s] = [id |-> app.nextId,
                             run |-> <<app.epoch, app.nextId>>]
      /\ \A other \in Surfaces \ {s} :
           app'.requests[other] = app.requests[other]
      /\ app'.nextId = AfterId(app.nextId) /\ app'.epoch = app.epoch
      /\ app'.fallback = app.fallback
  BY <1>1 DEF TypeOK, Applications
<1>4. budget'.lost = budget.lost
  BY <1>1 DEF TypeOK
<1>5. app'.nextId = 0 \/ app'.nextId = app.nextId + 1
  BY <1>3 DEF AfterId
<1>6. Standing' = Standing /\ LoadedRun' = LoadedRun
  BY <1>1 DEF Standing, LoadedRun
<1>7. Ids(ram') \subseteq DOMAIN runs /\ DOMAIN runs' = DOMAIN runs
  <2>1. Ids(ram') = Ids(ram)
    BY <1>1
  <2>2. Ids(ram) \subseteq DOMAIN runs
    BY DEF RamKnown, Ids
  <2> QED
    BY <2>1, <2>2, ObserveFacts
<1>8. Seen' = Seen
  BY <1>1, <1>6, <1>7 DEF Seen
<1>9. Taken' = Taken
  BY <1>1, <1>8 DEF Taken
<1>10. HeadsIn' = HeadsIn
  BY <1>1, <1>6 DEF HeadsIn
<1>11. Named' = Named
  BY <1>1, <1>3, <1>6 DEF Named
<1>12. Taken \subseteq RunIds \cup {None}
  <2>1. op # None => op.after.id \in RunIds \cup {None}
    <3>1. op # None => op \in Transactions
      BY <1>1 DEF TypeOK
    <3>2. op # None => op.after \in RunStates
      BY <3>1 DEF Transactions
    <3> QED
      BY <3>2 DEF RunStates
  <2> QED
    BY <2>1, SeenType DEF Taken
<1>13. Placed'
  <2> SUFFICES ASSUME NEW i \in Taken', i # None
               PROVE  /\ i[1] <= boot'.epoch
                      /\ boot'.handoff # "None" => i[1] < boot'.epoch
                      /\ app'.nextId \notin {None, 0} /\ i[1] = app'.epoch
                           => i[2] < app'.nextId
                      /\ \A t \in Surfaces : app'.requests[t] # None
                           => app'.requests[t].run # i
    BY DEF Placed
  <2>1. i[1] \in Nat /\ i[2] \in Nat
    BY <1>9, <1>12 DEF RunIds
  <2>2. /\ i[1] <= boot.epoch
        /\ i[1] = app.epoch => i[2] < app.nextId
        /\ \A t \in Surfaces : app.requests[t] # None
             => app.requests[t].run # i
    BY <1>1, <1>9, RunStoreNone DEF Placed, Identities
  <2>3. app'.nextId \notin {None, 0} /\ i[1] = app'.epoch
          => i[2] < app'.nextId
    BY <1>1, <1>3, <1>5, <2>1, <2>2
  <2>4. app'.requests[s].run # i
    <3>1. app'.requests[s].run = <<app.epoch, app.nextId>>
      BY <1>3
    <3> QED
      BY <1>1, <2>2, <3>1
  <2>5. \A t \in Surfaces : app'.requests[t] # None
          => app'.requests[t].run # i
    BY <1>3, <2>2, <2>4
  <2> QED
    BY <1>1, <1>2, <2>2, <2>3, <2>5
<1>14. Asked'
  <2>1. \A t \in Surfaces : app.requests[t] # None =>
          /\ app.requests[t].id = app.requests[t].run[2]
          /\ app.requests[t].run[1] <= app.epoch
          /\ app.requests[t].run[1] = app.epoch =>
               app.requests[t].id < app.nextId
          /\ app.requests[t].id \in Nat
    <3>1. \A t \in Surfaces : app.requests[t] # None =>
            app.requests[t] \in Requests
      BY <1>1 DEF TypeOK, Applications
    <3> QED
      BY <1>1, <3>1, RunStoreNone DEF Asked, Identities, Requests
  <2>2. /\ app'.requests[s].id = app.nextId
        /\ app'.requests[s].run = <<app.epoch, app.nextId>>
        /\ app'.requests[s].run[1] = app.epoch
        /\ app'.requests[s].run[2] = app.nextId
    BY <1>3
  <2>3. \A t \in Surfaces \ {s} : app'.requests[t] # None =>
          app'.requests[t].run # app'.requests[s].run
    <3> SUFFICES ASSUME NEW t \in Surfaces \ {s}, app'.requests[t] # None,
                        app'.requests[t].run = app'.requests[s].run
                 PROVE  FALSE
      OBVIOUS
    <3>1. /\ app.requests[t].id = app.requests[t].run[2]
          /\ app.requests[t].run[1] = app.epoch =>
               app.requests[t].id < app.nextId
          /\ app.requests[t].run = app'.requests[s].run
      BY <1>3, <2>1
    <3> QED
      BY <1>1, <2>2, <3>1
  <2> SUFFICES ASSUME NEW t \in Surfaces, app'.requests[t] # None
               PROVE  LET q == app'.requests[t] IN
                      /\ q.id = q.run[2] /\ q.run[1] <= app'.epoch
                      /\ boot'.handoff # "None" => q.run[1] < boot'.epoch
                      /\ app'.nextId \notin {None, 0} /\ q.run[1] = app'.epoch
                           => q.id < app'.nextId
                      /\ \A other \in Surfaces \ {t} :
                           app'.requests[other] # None
                             => app'.requests[other].run # q.run
    BY DEF Asked
  <2>4. CASE t = s
    BY <1>1, <1>2, <1>3, <1>5, <2>2, <2>3, <2>4
  <2>5. CASE t # s
    <3>1. app'.requests[t] = app.requests[t]
      BY <1>3, <2>5
    <3>2. /\ app.requests[t].id = app.requests[t].run[2]
          /\ app.requests[t].run[1] <= app.epoch
          /\ app.requests[t].run[1] = app.epoch =>
               app.requests[t].id < app.nextId
          /\ app.requests[t].id \in Nat
      BY <2>1, <3>1
    <3>3. \A other \in Surfaces \ {t} : app'.requests[other] # None
            => app'.requests[other].run # app'.requests[t].run
      <4>1. \A other \in Surfaces \ {t} : app.requests[other] # None
              => app.requests[other].run # app.requests[t].run
        BY <3>1 DEF Asked, Identities
      <4> QED
        BY <1>3, <2>3, <2>5, <3>1, <4>1
    <3>4. app'.nextId \notin {None, 0} /\ app'.requests[t].run[1] = app'.epoch
            => app'.requests[t].id < app'.nextId
      BY <1>1, <1>3, <1>5, <3>1, <3>2
    <3> QED
      BY <1>1, <1>2, <1>3, <3>1, <3>2, <3>3, <3>4
  <2> QED
    BY <2>4, <2>5
<1>15. Over'
  BY <1>1, <1>6, <1>8, <1>10 DEF Over, Identities
<1>16. EndedKept'
  <2>1. \A i \in DOMAIN runs' : runs'[i] = "Ended" =>
          i \in DOMAIN runs /\ runs[i] = "Ended"
    BY <1>1, ObserveFacts
  <2> QED
    BY <1>10, <1>11, <2>1 DEF EndedKept, Identities
<1>17. LiveKept'
  <2>1. \A i \in DOMAIN runs' : runs'[i] = "Live" =>
          i \in DOMAIN runs /\ runs[i] = "Live"
    BY <1>7, ObserveFacts
  <2> QED
    BY <1>1, <1>10, <2>1 DEF LiveKept, Ours, Identities
<1>18. LoadedNamed' /\ Started'
  <2>1. LoadedNamed'
    BY <1>1, <1>6 DEF LoadedNamed, Identities
  <2>2. Started'
    BY <1>1, <1>4, <1>7, StartedKept DEF Identities
  <2> QED
    BY <2>1, <2>2
<1> QED
  BY <1>13, <1>14, <1>15, <1>16, <1>17, <1>18 DEF Identities

\* A run ends, in RAM, with the power.
LEMMA PowerLossIdentity ==
  ASSUME Structure, ObserverOK, Observe, RamKnown, Identities, PowerLoss
  PROVE  Identities'
<1>1. /\ co' = Uninitialized(boot.epoch) /\ app' = Off(boot.epoch)
      /\ ram' = None /\ op' = None /\ flash' = flash /\ boot' = boot
      /\ budget' = [budget EXCEPT !.troubles = @ - 1] /\ TypeOK
  BY DEF PowerLoss, Structure
<1>2. /\ budget'.lost = budget.lost /\ co'.head = None /\ co'.loaded = None
      /\ co'.state = "Uninitialized" /\ app'.fallback = None
      /\ app'.nextId = None /\ \A s \in Surfaces : app'.requests[s] = None
  BY <1>1 DEF Uninitialized, Off, NoRequests, TypeOK
<1>3. Ids(ram') = {} /\ Standing' = "Uninitialized"
  BY <1>1, <1>2 DEF Ids, Standing
<1>4. DOMAIN runs' = DOMAIN runs
  BY <1>3, ObserveFacts
<1>5. Seen' \subseteq Seen
  BY <1>2, <1>4 DEF Seen
<1>6. Taken' \subseteq Taken
  BY <1>1, <1>5 DEF Taken
<1>7. HeadsIn' \subseteq HeadsIn
  BY <1>1, <1>3 DEF HeadsIn, Usable
<1>8. Named' = {}
  BY <1>1, <1>2 DEF Named
<1>9. Placed' /\ Asked' /\ Over' /\ EndedKept' /\ LiveKept' /\ LoadedNamed'
  BY <1>1, <1>2, <1>3, <1>5, <1>6, <1>7, <1>8, IdentityFrame
  DEF Identities, Usable
<1>10. Started'
  BY <1>1, <1>2, <1>3, StartedKept DEF Identities
<1> QED
  BY <1>9, <1>10 DEF Identities

\* One record that is lost leaves the others.
LEMMA LoseRecordIdentity ==
  ASSUME Structure, ObserverOK, Observe, RamKnown, Identities, LoseRecord,
         budget'.lost <= 1
  PROVE  Identities'
<1>1. /\ UNCHANGED <<boot, co, app, ram, op, clock>> /\ TypeOK
      /\ budget' = [budget EXCEPT !.troubles = @ - 1, !.damage = TRUE,
                                  !.lost = @ + 1]
      /\ app.life = "Off" /\ Modes
  BY DEF Structure, LoseRecord
<1>2. PICK k \in Keys, v \in {Absent, Corrupt} :
        flash' = [flash EXCEPT ![k] = v]
  BY DEF LoseRecord
<1>3. \A i \in Keys : flash'[i] = IF i = k THEN v ELSE flash[i]
  BY <1>1, <1>2 DEF TypeOK
<1>4. budget'.lost = budget.lost + 1 /\ budget.lost = 0 /\ budget'.lost = 1
  BY <1>1 DEF TypeOK
<1>5. ram = None /\ op = None
  BY <1>1 DEF Modes
<1>6. Ids(ram') = {} /\ Standing' = Standing /\ LoadedRun' = LoadedRun
  BY <1>1, <1>5 DEF Ids, Standing, LoadedRun
<1>7. DOMAIN runs' = DOMAIN runs
  BY <1>6, ObserveFacts
<1>8. Seen' = Seen
  BY <1>1, <1>6, <1>7 DEF Seen
<1>9. Taken' = Taken
  BY <1>1, <1>8 DEF Taken
<1>10. IsCommitted(flash'["rh0"]) => flash'["rh0"] = flash["rh0"]
  BY <1>3 DEF IsCommitted, Readable, Keys
<1>11. HeadsIn' \subseteq HeadsIn
  BY <1>1, <1>6, <1>10 DEF HeadsIn
<1>12. Named' = Named
  BY <1>1, <1>6 DEF Named
<1>13. Placed' /\ Asked' /\ Over' /\ EndedKept' /\ LiveKept' /\ LoadedNamed'
  BY <1>1, <1>5, <1>6, <1>8, <1>9, <1>10, <1>11, <1>12, IdentityFrame
  DEF Identities
<1>14. Started'
  <2> SUFFICES ASSUME NEW id \in DOMAIN runs', Ours(id)'
               PROVE  flash'["rh0"] # Absent \/ flash'["rc0"] # Absent
                        \/ flash'["rc1"] # Absent
    BY <1>4 DEF Started
  <2>1. Ours(id) /\ id \in DOMAIN runs
    BY <1>1, <1>7 DEF Ours
  <2>2. /\ flash["rh0"] # Absent
        /\ flash["rc0"] # Absent \/ flash["rc1"] # Absent
    BY <1>4, <2>1 DEF Started, Identities
  <2>3. "rh0" \in Keys /\ "rc0" \in Keys /\ "rc1" \in Keys
    BY DEF Keys
  <2>4. CASE k = "rh0"
    BY <1>3, <2>2, <2>3, <2>4
  <2>5. CASE k # "rh0"
    BY <1>3, <2>2, <2>3, <2>5
  <2> QED
    BY <2>4, <2>5
<1> QED
  BY <1>13, <1>14 DEF Identities

\* With a handoff open no run is of the epoch in force.
LEMMA AwayIdentity ==
  ASSUME Structure, ObserverOK, Observe, RamKnown, Identities,
         op = None, op' = None, ram' = ram, co' = co,
         boot'.handoff # "None", boot'.epoch \in Nat,
         boot'.epoch >= boot.epoch,
         boot.handoff = "None" => boot'.epoch > boot.epoch,
         app'.epoch = app.epoch, app'.fallback = app.fallback,
         app'.requests = app.requests, app'.nextId = app.nextId,
         IsCommitted(flash'["rh0"]) =>
           \/ flash'["rh0"] = flash["rh0"]
           \/ HeadNames(flash'["rh0"]) = {None}
  PROVE  Identities'
<1>1. /\ TypeOK /\ Modes /\ boot.epoch \in Nat /\ app.epoch \in Nat
      /\ app.epoch <= boot.epoch
  BY DEF Structure, TypeOK, Modes, Applications
<1>2. Ids(ram') \subseteq DOMAIN runs /\ DOMAIN runs' = DOMAIN runs
  <2>1. Ids(ram') = Ids(ram)
    OBVIOUS
  <2>2. Ids(ram) \subseteq DOMAIN runs
    BY DEF RamKnown, Ids
  <2> QED
    BY <2>1, <2>2, ObserveFacts
<1>3. LoadedRun' = LoadedRun /\ Standing' = Standing
  BY DEF LoadedRun, Standing
<1>4. Taken' = Taken /\ Seen' = Seen
  BY <1>2, <1>3 DEF Taken, Seen
<1>5. Named' = Named
  BY <1>3 DEF Named
<1>6. \A h \in HeadsIn' : h \in HeadsIn \/ HeadNames(h) = {None}
  BY <1>3 DEF HeadsIn
<1>7. Taken \subseteq RunIds \cup {None}
  BY SeenType DEF Taken
<1>8. Placed'
  <2> SUFFICES ASSUME NEW i \in Taken', i # None
               PROVE  /\ i[1] <= boot'.epoch
                      /\ boot'.handoff # "None" => i[1] < boot'.epoch
                      /\ app'.nextId \notin {None, 0} /\ i[1] = app'.epoch
                           => i[2] < app'.nextId
                      /\ \A s \in Surfaces : app'.requests[s] # None
                           => app'.requests[s].run # i
    BY DEF Placed
  <2>1. /\ i[1] <= boot.epoch
        /\ boot.handoff # "None" => i[1] < boot.epoch
        /\ app.nextId \notin {None, 0} /\ i[1] = app.epoch
             => i[2] < app.nextId
        /\ \A s \in Surfaces : app.requests[s] # None
             => app.requests[s].run # i
    BY <1>4 DEF Placed, Identities
  <2>2. i[1] \in Nat
    BY <1>4, <1>7 DEF RunIds
  <2>3. i[1] < boot'.epoch
    BY <1>1, <2>1, <2>2
  <2> QED
    BY <2>1, <2>2, <2>3
<1>9. Asked'
  <2> SUFFICES ASSUME NEW s \in Surfaces, app'.requests[s] # None
               PROVE  LET q == app'.requests[s] IN
                      /\ q.id = q.run[2] /\ q.run[1] <= app'.epoch
                      /\ boot'.handoff # "None" => q.run[1] < boot'.epoch
                      /\ app'.nextId \notin {None, 0} /\ q.run[1] = app'.epoch
                           => q.id < app'.nextId
                      /\ \A other \in Surfaces \ {s} :
                           app'.requests[other] # None
                             => app'.requests[other].run # q.run
    BY DEF Asked
  <2>1. LET q == app.requests[s] IN
        /\ q.id = q.run[2] /\ q.run[1] <= app.epoch
        /\ boot.handoff # "None" => q.run[1] < boot.epoch
        /\ app.nextId \notin {None, 0} /\ q.run[1] = app.epoch
             => q.id < app.nextId
        /\ \A other \in Surfaces \ {s} :
             app.requests[other] # None => app.requests[other].run # q.run
    BY DEF Asked, Identities
  <2>2. app.requests[s].run[1] \in Nat
    <3>1. app.requests[s] \in Requests
      BY <1>1 DEF TypeOK, Applications
    <3> QED
      BY <3>1 DEF Requests, RunIds
  <2>3. app.requests[s].run[1] < boot'.epoch
    BY <1>1, <2>1, <2>2
  <2> QED
    BY <2>1, <2>3
<1>10. EndedKept'
  <2> SUFFICES ASSUME NEW i \in DOMAIN runs', runs'[i] = "Ended"
               PROVE  /\ i \notin Named'
                      /\ \A h \in HeadsIn' : i \notin HeadNames(h)
    BY DEF EndedKept
  <2>1. i \in DOMAIN runs /\ runs[i] = "Ended"
    BY ObserveFacts
  <2>2. i # None
    BY <2>1, RunStoreNone DEF ObserverOK
  <2> QED
    BY <1>5, <1>6, <2>1, <2>2 DEF EndedKept, Identities
<1>11. Over' /\ LiveKept' /\ LoadedNamed' /\ Started'
  BY DEF Over, LiveKept, LoadedNamed, Started, Ours
<1> QED
  BY <1>8, <1>9, <1>10, <1>11 DEF Identities

\* The runs of a reset device are of an earlier epoch.
LEMMA ResetIdentity ==
  ASSUME Structure, ObserverOK, Observe, RamKnown, Identities,
         FactoryReset \/ HandoffStep
  PROVE  Identities'
<1>1. TypeOK /\ Modes /\ boot.epoch \in Nat
  BY DEF Structure, TypeOK
<1>2. CASE FactoryReset
  <2>1. /\ op = None /\ UNCHANGED <<flash, co, ram, op>>
        /\ boot' = [epoch |-> boot.epoch + 1, handoff |-> "Pending"]
        /\ app' = [app EXCEPT !.life = "Handoff"]
    BY <1>2 DEF FactoryReset, Idle
  <2>2. /\ app'.epoch = app.epoch /\ app'.fallback = app.fallback
        /\ app'.requests = app.requests /\ app'.nextId = app.nextId
    BY <1>1, <2>1 DEF TypeOK, Applications
  <2>3. /\ boot'.handoff # "None" /\ boot'.epoch \in Nat
        /\ boot'.epoch > boot.epoch /\ boot'.epoch >= boot.epoch
    BY <1>1, <2>1
  <2> QED
    BY <2>1, <2>2, <2>3, AwayIdentity
<1>3. CASE HandoffStep
  <2>1. /\ op = None /\ UNCHANGED <<co, ram, op>>
        /\ boot' = [boot EXCEPT !.handoff = boot'.handoff]
        /\ boot'.handoff \in {"Pending", "Committed"}
        /\ boot.handoff # "None"
        /\ app' = app \/ app' = [app EXCEPT !.life = "ServiceRequired"]
        /\ flash'["rh0"] \in {flash["rh0"], HandoffHead(boot.epoch), Corrupt}
    BY <1>1, <1>3 DEF HandoffStep, Modes
  <2>2. /\ app'.epoch = app.epoch /\ app'.fallback = app.fallback
        /\ app'.requests = app.requests /\ app'.nextId = app.nextId
    BY <1>1, <2>1 DEF TypeOK, Applications
  <2>3. boot'.epoch = boot.epoch
    BY <1>1, <2>1 DEF TypeOK
  <2>4. HeadNames(HandoffHead(boot.epoch)) = {None}
    BY <1>1, HandoffValues DEF HeadNames, NoRun, Run
  <2>5. IsCommitted(flash'["rh0"]) =>
          \/ flash'["rh0"] = flash["rh0"]
          \/ HeadNames(flash'["rh0"]) = {None}
    BY <2>1, <2>4 DEF IsCommitted, Readable
  <2> QED
    BY <1>1, <2>1, <2>2, <2>3, <2>5, AwayIdentity
<1> QED
  BY <1>2, <1>3

\* A refused command only drops its request.
LEMMA RefusedIdentity ==
  ASSUME Structure, ObserverOK, Observe, RamKnown, Identities,
         NEW s \in Surfaces, app' = [app EXCEPT !.requests[s] = None],
         UNCHANGED <<flash, boot, co, op, ram, clock, budget>>
  PROVE  Identities'
<1>1. /\ app'.nextId = app.nextId /\ app'.epoch = app.epoch
      /\ app'.fallback = app.fallback
      /\ \A t \in Surfaces : app'.requests[t] # None =>
           app'.requests[t] = app.requests[t]
  BY DEF Structure, TypeOK, Applications
<1>2. Ids(ram') \subseteq DOMAIN runs
  <2>1. Ids(ram') = Ids(ram)
    OBVIOUS
  <2> QED
    BY <2>1 DEF RamKnown, Ids
<1>3. LoadedRun' = LoadedRun
  BY DEF LoadedRun
<1>4. Named' = Named
  BY <1>1, <1>3 DEF Named
<1> QED
  BY <1>1, <1>2, <1>4, QuietIdentity

\* Time names no run.
LEMMA ClockIdentity ==
  ASSUME Structure, ObserverOK, Observe, RamKnown, Identities,
         Tick \/ TimeBecomesKnown
  PROVE  Identities'
<1>1. UNCHANGED <<flash, boot, co, app, ram, op, budget>>
  BY DEF Tick, TimeBecomesKnown
<1>2. Ids(ram') \subseteq DOMAIN runs
  <2>1. Ids(ram') = Ids(ram)
    BY <1>1
  <2> QED
    BY <2>1 DEF RamKnown, Ids
<1>3. LoadedRun' = LoadedRun
  BY <1>1 DEF LoadedRun
<1>4. Named' = Named
  BY <1>1, <1>3 DEF Named
<1> QED
  BY <1>1, <1>2, <1>4, QuietIdentity

\* What a boot has loaded is named by the head it has read.
LoadNames ==
  /\ co'.head # None /\ co'.state \in Usable =>
       /\ co'.head = flash["rh0"] /\ co'.head.epoch = boot.epoch
       /\ IsCommitted(flash["rh0"]) /\ HeadSane(flash["rh0"])
  /\ co'.head = None /\ co'.state \in Usable =>
       /\ co'.state = "ReadyEmpty" /\ flash["rh0"] = Absent
       /\ flash["rc0"] = Absent /\ flash["rc1"] = Absent
  /\ co'.loaded # None =>
       /\ LoadedRun'.id \in HeadNames(flash["rh0"])
       /\ IsCommitted(flash["rh0"])
       /\ co'.state \in Usable /\ co'.head # None
  /\ co'.state = "LoadedActiveRun" =>
       flash["rh0"].current.snapshot.run.id = LoadedRun'.id

\* A sound load is named by the head in flash.
LEMMA LoadNamed ==
  ASSUME NEW load, LoadSound(load, boot.epoch), co'.state = load.state,
         co'.head = load.head, co'.loaded = load.record
  PROVE  LoadNames
<1>1. LoadedRun' = load.record.snapshot.run
  BY DEF LoadedRun
<1>2. load.head # None /\ load.state \in Usable =>
        /\ load.head = flash["rh0"] /\ load.head.epoch = boot.epoch
        /\ IsCommitted(flash["rh0"]) /\ HeadSane(flash["rh0"])
  <2> SUFFICES ASSUME load.head # None, load.state \in Usable
               PROVE  /\ load.head = flash["rh0"]
                      /\ load.head.epoch = boot.epoch
                      /\ IsCommitted(flash["rh0"]) /\ HeadSane(flash["rh0"])
    OBVIOUS
  <2>1. /\ load.head = flash["rh0"] /\ load.head.epoch = boot.epoch
        /\ load.head.state = "Committed" /\ HeadSane(load.head)
        /\ load.head \in Heads
    BY DEF LoadSound
  <2> QED
    BY <2>1, RunStoreNone DEF IsCommitted, Readable
<1>3. load.record # None =>
        load.record.snapshot.run.id \in HeadNames(load.head)
  <2> SUFFICES ASSUME load.record # None
               PROVE  load.record.snapshot.run.id \in HeadNames(load.head)
    OBVIOUS
  <2>1. /\ load.head # None
        /\ load.state \in {"ReadyEmpty", "LoadedActiveRun",
                           "FallbackRecoveryPending"}
    BY DEF LoadSound, Usable
  <2>2. CASE load.state \in {"ReadyEmpty", "LoadedActiveRun"}
    <3>1. load.record.snapshot = load.head.current.snapshot
      BY <2>1, <2>2 DEF LoadSound
    <3> QED
      BY <3>1 DEF HeadNames
  <2>3. CASE load.state = "FallbackRecoveryPending"
    <3>1. /\ load.record.snapshot = load.head.fallback.snapshot
          /\ load.head.fallback # None
      BY <2>1, <2>3 DEF LoadSound
    <3> QED
      BY <3>1 DEF HeadNames
  <2> QED
    BY <2>1, <2>2, <2>3
<1>4. load.record # None => load.head # None /\ load.state \in Usable
  BY DEF LoadSound
<1>5. load.state = "LoadedActiveRun" =>
        /\ load.head # None
        /\ load.record.snapshot = load.head.current.snapshot
  BY DEF LoadSound
<1>6. load.state = "LoadedActiveRun" => load.state \in Usable
  BY DEF Usable
<1>7. load.head = None /\ load.state \in Usable =>
        /\ load.state = "ReadyEmpty" /\ flash["rh0"] = Absent
        /\ flash["rc0"] = Absent /\ flash["rc1"] = Absent
  BY DEF LoadSound
<1> QED
  BY <1>1, <1>2, <1>3, <1>4, <1>5, <1>6, <1>7 DEF LoadNames

\* What a boot makes of what it finds
LoadBasics ==
  /\ op = None /\ op' = None /\ flash' = flash /\ TypeOK /\ LoadNames
  /\ boot'.epoch = boot.epoch /\ boot'.handoff = "None"
  /\ boot.epoch \in Nat
  /\ boot' \in [epoch : Nat \ {0}, handoff : {"None"}]
  /\ app'.epoch = boot.epoch /\ app'.fallback = None /\ ram' = None
  /\ app'.requests = app.requests /\ app'.nextId = Identity(co')
  /\ budget'.lost = budget.lost
  /\ DOMAIN runs' = DOMAIN runs /\ Ids(ram') = {}
  /\ Standing' = co'.state
  /\ HeadsIn' \subseteq {flash["rh0"]} /\ HeadsIn' \subseteq HeadsIn
  /\ \A i \in Seen' :
       /\ i \in RunIds \cup {None}
       /\ \/ i \in DOMAIN runs
          \/ /\ co'.loaded # None
             /\ i \in HeadNames(flash["rh0"]) /\ flash["rh0"] \in HeadsIn
  /\ Taken' = Seen' /\ DOMAIN runs \subseteq Seen
  /\ DOMAIN runs \subseteq Taken

\* What BootLoad and HandoffConsume have in common
LEMMA LoadGives ==
  ASSUME Structure, ObserverOK, Observe, BootLoad \/ HandoffConsume
  PROVE  LoadBasics
<1>1. /\ op = None /\ op' = None /\ flash' = flash
      /\ boot' \in [epoch : Nat \ {0}, handoff : {"None"}]
      /\ boot'.epoch = boot.epoch /\ boot'.handoff = "None"
      /\ LoadRun(boot.epoch) /\ clock' = clock
  BY LoadCases
<1>2. TypeOK /\ boot.epoch \in Nat
  BY DEF Structure, TypeOK
<1>3. /\ app'.epoch = boot.epoch /\ app'.fallback = None /\ ram' = None
      /\ app'.requests = app.requests /\ app'.nextId = Identity(co')
      /\ LoadNames
  <2>1. /\ app'.epoch = boot.epoch /\ app'.fallback = None /\ ram' = None
        /\ app'.requests = app.requests /\ app'.nextId = Identity(co')
        /\ \E load : /\ LoadSound(load, boot.epoch)
                     /\ co'.state = load.state /\ co'.head = load.head
                     /\ co'.loaded = load.record
    BY <1>1, LoadStructure
  <2> QED
    BY <2>1, LoadNamed
<1>4. budget'.lost = budget.lost
  <2>1. Damage \/ UNCHANGED budget
    BY <1>1 DEF LoadRun
  <2> QED
    BY <1>2, <2>1 DEF Damage, TypeOK
<1>5. DOMAIN runs' = DOMAIN runs /\ Ids(ram') = {}
  <2>1. Ids(ram') = {}
    BY <1>3 DEF Ids
  <2> QED
    BY <2>1, ObserveFacts
<1>6. Standing' = co'.state
  BY <1>1 DEF Standing
<1>7. HeadsIn' \subseteq {flash["rh0"]} /\ HeadsIn' \subseteq HeadsIn
  BY <1>1, <1>3, <1>6 DEF HeadsIn, LoadNames
<1>8. co'.loaded # None => flash["rh0"] \in HeadsIn
  BY <1>3 DEF HeadsIn, LoadNames
<1>9. \A i \in Seen' :
        \/ i \in DOMAIN runs
        \/ /\ co'.loaded # None
           /\ i \in HeadNames(flash["rh0"]) /\ flash["rh0"] \in HeadsIn
  BY <1>3, <1>5, <1>8 DEF Seen, LoadNames
<1>10. \A i \in Seen' : i \in RunIds \cup {None}
  <2>1. DOMAIN runs \subseteq RunIds
    BY DEF ObserverOK
  <2>2. flash["rh0"] \in HeadsIn =>
          HeadNames(flash["rh0"]) \subseteq RunIds \cup {None}
    BY HeadsInSane, SaneNames
  <2> QED
    BY <1>9, <2>1, <2>2
<1>11. /\ Taken' = Seen' /\ DOMAIN runs \subseteq Seen
       /\ DOMAIN runs \subseteq Taken
  BY <1>1 DEF Taken, Seen
<1> QED
  BY <1>1, <1>2, <1>3, <1>4, <1>5, <1>6, <1>7, <1>9, <1>10, <1>11
  DEF LoadBasics

\* A load brings back no run that was ended.
LEMMA LoadKept ==
  ASSUME Observe, ObserverOK, EndedKept, LoadBasics
  PROVE  EndedKept' /\ LoadedNamed'
<1>1. /\ op = None /\ op' = None /\ flash' = flash /\ LoadNames
      /\ ram' = None /\ app'.fallback = None /\ HeadsIn' \subseteq HeadsIn
      /\ Standing' = co'.state
  BY DEF LoadBasics
<1>2. EndedKept'
  <2> SUFFICES ASSUME NEW i \in DOMAIN runs', runs'[i] = "Ended"
               PROVE  /\ i \notin Named'
                      /\ \A h \in HeadsIn' : i \notin HeadNames(h)
    BY DEF EndedKept
  <2>1. i \in DOMAIN runs /\ runs[i] = "Ended"
    BY <1>1, ObserveFacts
  <2>2. \A h \in HeadsIn : i \notin HeadNames(h)
    BY <2>1 DEF EndedKept
  <2>3. i \in Named' => co'.loaded # None /\ i = LoadedRun'.id
    BY <1>1 DEF Named
  <2>4. co'.loaded # None =>
          LoadedRun'.id \in HeadNames(flash["rh0"]) /\ flash["rh0"] \in HeadsIn
    BY <1>1 DEF LoadNames, HeadsIn
  <2> QED
    BY <1>1, <2>2, <2>3, <2>4
<1>3. LoadedNamed'
  BY <1>1 DEF LoadedNamed, LoadNames
<1> QED
  BY <1>2, <1>3

\* A boot with no handoff open
LEMMA LoadHere ==
  ASSUME Structure, ObserverOK, Observe, Identities, LoadBasics,
         boot.handoff = "None", app.life \in {"Off", "Handoff"},
         budget.lost <= 1
  PROVE  Placed' /\ Asked' /\ Over' /\ LiveKept' /\ Started'
<1>1. /\ op = None /\ op' = None /\ flash' = flash /\ TypeOK /\ LoadNames
      /\ boot'.epoch = boot.epoch /\ boot'.handoff = "None"
      /\ boot.epoch \in Nat
      /\ boot' \in [epoch : Nat \ {0}, handoff : {"None"}]
      /\ app'.epoch = boot.epoch /\ app'.fallback = None /\ ram' = None
      /\ app'.requests = app.requests /\ app'.nextId = Identity(co')
      /\ budget'.lost = budget.lost
      /\ DOMAIN runs' = DOMAIN runs /\ Ids(ram') = {}
      /\ Standing' = co'.state
      /\ HeadsIn' \subseteq {flash["rh0"]} /\ HeadsIn' \subseteq HeadsIn
  BY DEF LoadBasics
<1>2. \A i \in Seen' :
        /\ i \in RunIds \cup {None}
        /\ \/ i \in DOMAIN runs
           \/ /\ co'.loaded # None
              /\ i \in HeadNames(flash["rh0"]) /\ flash["rh0"] \in HeadsIn
  BY DEF LoadBasics
<1>3. /\ Taken' = Seen' /\ DOMAIN runs \subseteq Seen
      /\ DOMAIN runs \subseteq Taken
  BY DEF LoadBasics
<1>4. Modes
  BY DEF Structure
<1>5. \A s \in Surfaces : app.requests[s] = None
  BY <1>4 DEF Modes, Off, NoRequests
<1>6. \A h \in HeadsIn : HeadOver(h, Seen, boot.epoch)
  BY DEF Over, Identities
<1>7. co'.head = None /\ co'.state \in Usable =>
        \A i \in DOMAIN runs : i[1] # boot.epoch
  <2> SUFFICES ASSUME co'.head = None, co'.state \in Usable,
                      NEW i \in DOMAIN runs, i[1] = boot.epoch
               PROVE  FALSE
    OBVIOUS
  <2>1. Ours(i)
    BY DEF Ours
  <2>2. /\ flash["rh0"] = Absent /\ flash["rc0"] = Absent
        /\ flash["rc1"] = Absent
    BY <1>1 DEF LoadNames
  <2>3. budget.lost >= 2
    BY <2>1, <2>2 DEF Started, Identities
  <2> QED
    BY <1>1, <2>3 DEF TypeOK
<1>8. \A i \in Seen' : i # None => i[1] <= boot.epoch
  <2> SUFFICES ASSUME NEW i \in Seen', i # None
               PROVE  i[1] <= boot.epoch
    OBVIOUS
  <2>1. CASE i \in DOMAIN runs
    BY <1>3, <2>1 DEF Placed, Identities
  <2>2. CASE i \in HeadNames(flash["rh0"]) /\ flash["rh0"] \in HeadsIn
    BY <1>6, <2>2 DEF HeadOver
  <2> QED
    BY <1>2, <2>1, <2>2
<1>9. \A i \in Seen' : i \in RunIds \cup {None}
  BY <1>2
<1>10. \A i \in Seen' :
        i # None /\ i[1] = boot.epoch /\ HighWater(co') # None =>
          i[2] <= HighWater(co') /\ HighWater(co') \in Nat
  <2> SUFFICES ASSUME NEW i \in Seen', i # None, i[1] = boot.epoch,
                      HighWater(co') # None
               PROVE  i[2] <= HighWater(co') /\ HighWater(co') \in Nat
    OBVIOUS
  <2>1. co'.state \in Usable
    BY DEF HighWater
  <2>2. co'.head # None
    BY <1>1, <1>2, <1>7, <2>1 DEF LoadNames
  <2>3. /\ co'.head = flash["rh0"] /\ co'.head.epoch = boot.epoch
        /\ flash["rh0"] \in HeadsIn /\ HeadSane(flash["rh0"])
    BY <1>1, <2>1, <2>2 DEF LoadNames, HeadsIn
  <2>4. HighWater(co') = flash["rh0"].highWater
    BY <2>1, <2>2, <2>3 DEF HighWater
  <2>5. i \in Seen \cup HeadNames(flash["rh0"])
    BY <1>2, <1>3
  <2> QED
    BY <1>6, <2>3, <2>4, <2>5, SaneNames DEF HeadOver
<1>11. Placed'
  <2> SUFFICES ASSUME NEW i \in Taken', i # None
               PROVE  /\ i[1] <= boot'.epoch
                      /\ boot'.handoff # "None" => i[1] < boot'.epoch
                      /\ app'.nextId \notin {None, 0} /\ i[1] = app'.epoch
                           => i[2] < app'.nextId
                      /\ \A s \in Surfaces : app'.requests[s] # None
                           => app'.requests[s].run # i
    BY DEF Placed
  <2>1. app'.nextId \notin {None, 0} /\ i[1] = app'.epoch
          => i[2] < app'.nextId
    <3> SUFFICES ASSUME app'.nextId \notin {None, 0}, i[1] = app'.epoch
                 PROVE  i[2] < app'.nextId
      OBVIOUS
    <3>1. HighWater(co') # None /\ app'.nextId = AfterId(HighWater(co'))
      BY <1>1 DEF Identity
    <3>2. i[2] <= HighWater(co') /\ HighWater(co') \in Nat
      BY <1>1, <1>3, <1>10, <3>1
    <3>3. app'.nextId = HighWater(co') + 1
      BY <3>1 DEF AfterId
    <3>4. i[2] \in Nat
      BY <1>3, <1>9 DEF RunIds
    <3> HIDE DEF HighWater
    <3> QED
      BY <3>2, <3>3, <3>4
  <2> QED
    BY <1>1, <1>3, <1>5, <1>8, <2>1
<1>12. Asked'
  BY <1>1, <1>5 DEF Asked
<1>13. Over'
  <2>1. ASSUME NEW h \in HeadsIn'
        PROVE  HeadOver(h, Seen', boot'.epoch)
    <3>1. h = flash["rh0"] /\ HeadOver(h, Seen, boot.epoch)
      BY <1>1, <1>6
    <3>2. Seen' \subseteq Seen \cup HeadNames(h)
      BY <1>2, <1>3, <3>1
    <3> QED
      BY <1>1, <3>1, <3>2 DEF HeadOver
  <2>2. co'.head = None /\ Standing' \in Usable =>
          \A i \in Seen' : i # None => i[1] < boot'.epoch
    <3> SUFFICES ASSUME co'.head = None, co'.state \in Usable,
                        NEW i \in Seen', i # None
                 PROVE  i[1] < boot.epoch
      BY <1>1
    <3>1. i \in DOMAIN runs
      BY <1>1, <1>2 DEF LoadNames
    <3>2. i[1] # boot.epoch /\ i[1] <= boot.epoch
      BY <1>7, <1>8, <3>1
    <3>3. i[1] \in Nat
      BY <1>9 DEF RunIds
    <3> QED
      BY <1>1, <3>2, <3>3
  <2> QED
    BY <2>1, <2>2 DEF Over
<1>14. LiveKept'
  <2> SUFFICES ASSUME NEW i \in DOMAIN runs', runs'[i] = "Live", Ours(i)',
                      NEW h \in HeadsIn'
               PROVE  h.current.snapshot.run.id = i
    BY DEF LiveKept
  <2>1. i \in DOMAIN runs /\ runs[i] = "Live"
    BY <1>1, ObserveFacts
  <2>2. Ours(i)
    BY <1>1 DEF Ours
  <2> QED
    BY <1>1, <2>1, <2>2 DEF LiveKept, Identities
<1>15. Started'
  <2>1. boot' = boot
    BY <1>1 DEF TypeOK
  <2> QED
    BY <1>1, <2>1, StartedKept DEF Identities
<1> QED
  BY <1>11, <1>12, <1>13, <1>14, <1>15

\* A boot at the end of a handoff: the head is the new epoch's, without a run.
LEMMA LoadAfterHandoff ==
  ASSUME Structure, ObserverOK, Observe, Identities, LoadBasics,
         boot.handoff # "None", flash["rh0"] = HandoffHead(boot.epoch)
  PROVE  Placed' /\ Asked' /\ Over' /\ LiveKept' /\ Started'
<1>1. /\ op = None /\ op' = None /\ flash' = flash /\ LoadNames
      /\ boot'.epoch = boot.epoch /\ boot'.handoff = "None"
      /\ boot.epoch \in Nat
      /\ app'.epoch = boot.epoch
      /\ app'.requests = app.requests /\ app'.nextId = Identity(co')
      /\ DOMAIN runs' = DOMAIN runs
      /\ Standing' = co'.state
      /\ HeadsIn' \subseteq {flash["rh0"]}
      /\ Taken' = Seen' /\ DOMAIN runs \subseteq Taken
  BY DEF LoadBasics
<1>2. /\ HeadNames(flash["rh0"]) = {None}
      /\ flash["rh0"].epoch = boot.epoch
  BY <1>1, HandoffValues DEF HeadNames, NoRun, Run
<1>3. \A i \in Seen' : i # None => i \in DOMAIN runs
  BY <1>2 DEF LoadBasics
<1>4. \A i \in Seen' : i # None =>
        /\ i[1] < boot.epoch
        /\ \A s \in Surfaces : app.requests[s] # None
             => app.requests[s].run # i
  BY <1>1, <1>3 DEF Placed, Identities
<1>5. \A i \in Seen' : i # None => i[1] \in Nat
  <2>1. \A i \in Seen' : i \in RunIds \cup {None}
    BY DEF LoadBasics
  <2> QED
    BY <2>1 DEF RunIds
<1>6. \A i \in Seen' : i # None => i[1] <= boot.epoch /\ i[1] # boot.epoch
  BY <1>1, <1>4, <1>5
<1>7. Placed'
  BY <1>1, <1>4, <1>6 DEF Placed
<1>8. Asked'
  <2> SUFFICES ASSUME NEW s \in Surfaces, app'.requests[s] # None
               PROVE  LET q == app'.requests[s] IN
                      /\ q.id = q.run[2] /\ q.run[1] <= app'.epoch
                      /\ boot'.handoff # "None" => q.run[1] < boot'.epoch
                      /\ app'.nextId \notin {None, 0} /\ q.run[1] = app'.epoch
                           => q.id < app'.nextId
                      /\ \A other \in Surfaces \ {s} :
                           app'.requests[other] # None
                             => app'.requests[other].run # q.run
    BY DEF Asked
  <2>1. LET q == app.requests[s] IN
        /\ q.id = q.run[2] /\ q.run[1] < boot.epoch
        /\ \A other \in Surfaces \ {s} :
             app.requests[other] # None => app.requests[other].run # q.run
    BY <1>1 DEF Asked, Identities
  <2>2. app.requests[s].run[1] \in Nat
    <3>1. app.requests[s] \in Requests
      BY <1>1 DEF Structure, TypeOK, Applications
    <3> QED
      BY <3>1 DEF Requests, RunIds
  <2>3. /\ app.requests[s].run[1] <= boot.epoch
        /\ app.requests[s].run[1] # boot.epoch
    BY <1>1, <2>1, <2>2
  <2> QED
    BY <1>1, <2>1, <2>3
<1>9. Over'
  <2>1. \A h \in HeadsIn' : HeadOver(h, Seen', boot'.epoch)
    BY <1>1, <1>2, <1>6 DEF HeadOver
  <2> QED
    BY <1>1, <1>4, <2>1 DEF Over
<1>10. \A i \in DOMAIN runs' : ~Ours(i)'
  <2>1. DOMAIN runs' \subseteq Seen' /\ None \notin DOMAIN runs
    BY RunStoreNone DEF Seen, ObserverOK
  <2> QED
    BY <1>1, <1>6, <2>1 DEF Ours
<1>11. LiveKept' /\ Started'
  BY <1>10 DEF LiveKept, Started
<1> QED
  BY <1>7, <1>8, <1>9, <1>11

\* A boot, with or without a handoff, keeps the identities.
LEMMA LoadIdentity ==
  ASSUME Structure, ObserverOK, Observe, Identities,
         BootLoad \/ HandoffConsume, budget.lost <= 1
  PROVE  Identities'
<1>1. /\ app.life \in {"Off", "Handoff"}
      /\ boot.handoff # "None" => flash["rh0"] = HandoffHead(boot.epoch)
  BY LoadCases
<1>2. LoadBasics
  BY LoadGives
<1>3. EndedKept' /\ LoadedNamed'
  BY <1>2, LoadKept DEF Identities
<1>4. Placed' /\ Asked' /\ Over' /\ LiveKept' /\ Started'
  BY <1>1, <1>2, LoadHere, LoadAfterHandoff
<1> QED
  BY <1>3, <1>4 DEF Identities

\* Every step
LEMMA IdentityStep ==
  ASSUME Structure, Structure', ObserverOK, IdentityInv, MCNext
  PROVE  IdentityInv'
<1>1. Next /\ Observe /\ RamKnown /\ TypeOK
  BY DEF MCNext, IdentityInv, Structure
<1>2. RamKnown'
  BY <1>1, ObserveFacts
<1>3. budget.lost <= 1 => Identities
  BY DEF IdentityInv, Identities
<1>4. SUFFICES ASSUME budget'.lost <= 1
               PROVE  Identities'
  BY <1>2 DEF IdentityInv, Identities
<1>5. ASSUME budget'.lost = budget.lost
      PROVE  budget.lost <= 1 /\ Identities
  BY <1>3, <1>4, <1>5
<1>6. CASE StartsSome
  <2>1. budget' = budget
    BY <1>6 DEF StartsSome, Starts, Begun
  <2> QED
    BY <1>1, <1>5, <1>6, <2>1, StartsIdentity
<1>7. CASE WriteStep
  <2>1. budget'.lost = budget.lost
    BY <1>7, WriteCases
  <2> QED
    BY <1>1, <1>5, <1>7, <2>1, WriteIdentity
<1>8. CASE \E s \in Surfaces : Prepare(s) \/ Confirm(s)
  <2>1. PICK s \in Surfaces : Prepare(s) \/ Confirm(s)
    BY <1>8
  <2>2. CASE Prepare(s)
    <3>1. budget'.lost = budget.lost
      BY <1>1, <2>2 DEF Prepare, TypeOK
    <3> QED
      BY <1>1, <1>5, <2>2, <3>1, PrepareIdentity
  <2>3. CASE Confirm(s)
    <3>1. CASE StartsSome
      BY <1>6, <3>1
    <3>2. CASE /\ app' = [app EXCEPT !.requests[s] = None]
               /\ UNCHANGED <<flash, boot, co, op, ram, clock, budget>>
      BY <1>1, <1>5, <3>2, RefusedIdentity
    <3> QED
      BY <2>3, <3>1, <3>2, ConfirmCases
  <2> QED
    BY <2>1, <2>2, <2>3
<1>9. CASE PersistTransition \/ CheckpointPeriodic \/ ResumeFallback
  BY <1>6, <1>9, TransitionStarts, PeriodicStarts, FallbackStarts
<1>10. CASE Update
  <2>1. /\ op = None /\ app.life = "Ready" /\ boot.handoff = "None"
        /\ co.state = "LoadedActiveRun" /\ LoadedRun.phase = "Fermenting"
        /\ UNCHANGED <<flash, boot, clock, budget>>
        /\ StartsSome \/ RejectRecovery \/ AwaitTrustedTime
    BY <1>10, UpdateCases
  <2>2. CASE RejectRecovery \/ AwaitTrustedTime
    BY <1>1, <1>5, <2>1, <2>2, RejectIdentity
  <2> QED
    BY <1>6, <2>1, <2>2
<1>11. CASE BootLoad \/ HandoffConsume
  <2>1. budget'.lost = budget.lost
    <3>1. Damage \/ UNCHANGED budget
      BY <1>11 DEF BootLoad, HandoffConsume, LoadRun
    <3> QED
      BY <1>1, <3>1 DEF Damage, TypeOK
  <2> QED
    BY <1>1, <1>5, <1>11, <2>1, LoadIdentity
<1>12. CASE ProcessBoot
  <2>1. budget' = budget
    BY <1>12 DEF ProcessBoot
  <2> QED
    BY <1>1, <1>5, <1>12, <2>1, BootIdentity
<1>13. CASE FactoryReset
  <2>1. budget' = budget
    BY <1>13 DEF FactoryReset
  <2> QED
    BY <1>1, <1>5, <1>13, <2>1, ResetIdentity
<1>14. CASE \/ HandoffSlot \/ HandoffCommit \/ HandoffFinalize
            \/ HandoffRejected
  <2>1. HandoffStep
    BY <1>14, HandoffSteps
  <2>2. budget'.lost = budget.lost
    BY <2>1 DEF HandoffStep
  <2> QED
    BY <1>1, <1>5, <2>1, <2>2, ResetIdentity
<1>15. CASE Tick \/ TimeBecomesKnown
  <2>1. budget' = budget
    BY <1>15 DEF Tick, TimeBecomesKnown
  <2> QED
    BY <1>1, <1>5, <1>15, <2>1, ClockIdentity
<1>16. CASE PowerLoss
  <2>1. budget'.lost = budget.lost
    BY <1>1, <1>16 DEF PowerLoss, TypeOK
  <2> QED
    BY <1>1, <1>5, <1>16, <2>1, PowerLossIdentity
<1>17. CASE LoseRecord
  <2>1. budget'.lost = budget.lost + 1 /\ budget.lost \in Nat
    BY <1>1, <1>17 DEF LoseRecord, TypeOK
  <2>2. Identities
    BY <1>3, <1>4, <2>1
  <2> QED
    BY <1>1, <1>4, <1>17, <2>2, LoseRecordIdentity
<1> QED
  BY <1>1, <1>7, <1>8, <1>9, <1>10, <1>11, <1>12, <1>13, <1>14, <1>15,
     <1>16, <1>17 DEF Next

-----------------------------------------------------------------------------
(* Every execution *)

\* The inductive invariant
RunStoreInv == Structure /\ ObserverOK /\ TimeTrue /\ IdentityInv

\* A device that was never used
LEMMA InitInv ==
  ASSUME MCInit
  PROVE  RunStoreInv
<1>1. Structure /\ runs = <<>> /\ origins = {}
  BY InitStructure DEF MCInit
<1>2. DOMAIN runs = {}
  BY <1>1
<1>3. ObserverOK
  BY <1>1, <1>2 DEF ObserverOK
<1>4. /\ flash["rh0"] = Absent /\ flash["rc0"] = Absent
      /\ flash["rc1"] = Absent
      /\ ram = None /\ op = None /\ co = Uninitialized(1) /\ app = Off(1)
  BY DEF MCInit, Init, Keys
<1>5. /\ co.state = "Uninitialized" /\ co.head = None /\ co.loaded = None
      /\ app.fallback = None /\ app.nextId = None
      /\ \A s \in Surfaces : app.requests[s] = None
  BY <1>4 DEF Uninitialized, Off, NoRequests
<1>6. TimeTrue
  BY <1>4, <1>5 DEF TimeTrue, Readable
<1>7. Standing \notin Usable /\ Standing # "LoadedActiveRun"
  BY <1>4, <1>5 DEF Standing, Usable
<1>8. HeadsIn = {} /\ Taken = {} /\ Seen = {}
  BY <1>2, <1>4, <1>5, <1>7 DEF HeadsIn, IsCommitted, Readable, Taken, Seen
<1>9. RamKnown /\ Placed /\ Asked
  BY <1>4, <1>5, <1>8 DEF RamKnown, Placed, Asked
<1>10. Over /\ EndedKept /\ LiveKept
  BY <1>2, <1>7, <1>8 DEF Over, EndedKept, LiveKept
<1>11. LoadedNamed /\ Started
  BY <1>2, <1>7 DEF LoadedNamed, Started
<1> QED
  BY <1>1, <1>3, <1>6, <1>9, <1>10, <1>11 DEF RunStoreInv, IdentityInv

\* A step that changes nothing
LEMMA StutterInv ==
  ASSUME RunStoreInv, UNCHANGED mcvars
  PROVE  TimeTrue' /\ IdentityInv'
<1>1. /\ flash' = flash /\ boot' = boot /\ co' = co /\ app' = app
      /\ ram' = ram /\ op' = op /\ clock' = clock /\ budget' = budget
      /\ runs' = runs /\ origins' = origins
  BY DEF mcvars
<1>2. TimeTrue'
  BY <1>1 DEF RunStoreInv, TimeTrue
<1>3. Standing' = Standing /\ LoadedRun' = LoadedRun
  BY <1>1 DEF Standing, LoadedRun
<1>4. HeadsIn' = HeadsIn /\ Named' = Named
  BY <1>1, <1>3 DEF HeadsIn, Named
<1>5. Seen' = Seen /\ \A id : Ours(id)' = Ours(id)
  BY <1>1, <1>3 DEF Seen, Ours
<1>6. Taken' = Taken
  BY <1>1, <1>5 DEF Taken
<1>7. RamKnown' = RamKnown
  BY <1>1 DEF RamKnown
<1>8. Placed' = Placed /\ Asked' = Asked
  BY <1>1, <1>6 DEF Placed, Asked
<1>9. Over' = Over /\ EndedKept' = EndedKept
  BY <1>1, <1>3, <1>4, <1>5 DEF Over, EndedKept
<1>10. LiveKept' = LiveKept /\ LoadedNamed' = LoadedNamed
  BY <1>1, <1>3, <1>4, <1>5 DEF LiveKept, LoadedNamed
<1>11. Started' = Started
  BY <1>1, <1>5 DEF Started
<1>12. IdentityInv' = IdentityInv
  BY <1>1, <1>7, <1>8, <1>9, <1>10, <1>11 DEF IdentityInv
<1> QED
  BY <1>2, <1>12 DEF RunStoreInv

\* Every step
LEMMA InvStep ==
  ASSUME RunStoreInv, [MCNext]_mcvars
  PROVE  RunStoreInv'
<1>1. [Next]_vars
  BY DEF MCNext, mcvars, vars
<1>2. Structure'
  BY <1>1, StructureStep DEF RunStoreInv
<1>3. ObserverOK'
  BY <1>2, ObserverStep DEF RunStoreInv
<1>4. TimeTrue' /\ IdentityInv'
  BY <1>2, StutterInv, TimeStep, IdentityStep DEF RunStoreInv
<1> QED
  BY <1>2, <1>3, <1>4 DEF RunStoreInv

\* Coordinator, application, flash and clock fit together, the records know
\* the true time, and heads, slots and requests name the right runs: through
\* every write, loss of power, recovery and handoff.
THEOREM RunStoreInvariant == MCSpec => []RunStoreInv
<1>1. MCInit => RunStoreInv
  BY InitInv
<1>2. RunStoreInv /\ [MCNext]_mcvars => RunStoreInv'
  BY InvStep
<1> QED
  BY <1>1, <1>2, PTL DEF MCSpec

\* Flash, coordinator, application and run keep their types.
THEOREM RunStoreTypeOK == MCSpec => []TypeOK
<1>1. RunStoreInv => TypeOK
  BY DEF RunStoreInv, Structure
<1> QED
  BY <1>1, RunStoreInvariant, PTL

\* What a load would find, and which head would name it
LEMMA LoadNow ==
  ASSUME RunStoreInv, NEW load, load = Load(flash, boot.epoch)
  PROVE  /\ load.record # None =>
              /\ flash["rh0"] \in HeadsIn
              /\ load.record.snapshot.run.id \in HeadNames(flash["rh0"])
         /\ load.status \in {"NoPersistedRun", "NoActiveRun"} =>
              \/ /\ flash["rh0"] = Absent /\ flash["rc0"] = Absent
                 /\ flash["rc1"] = Absent
              \/ /\ flash["rh0"] \in HeadsIn
                 /\ flash["rh0"].current.snapshot.run.id = None
<1>1. LoadSound(load, boot.epoch)
  BY LoadFacts DEF RunStoreInv, Structure
<1>2. load.state \in Usable /\ load.head # None =>
        /\ load.head = flash["rh0"] /\ flash["rh0"] \in HeadsIn
  <2> SUFFICES ASSUME load.state \in Usable, load.head # None
               PROVE  load.head = flash["rh0"] /\ flash["rh0"] \in HeadsIn
    OBVIOUS
  <2>1. /\ load.head = flash["rh0"] /\ load.head.state = "Committed"
        /\ load.head \in Heads
    BY <1>1 DEF LoadSound
  <2>2. IsCommitted(flash["rh0"])
    BY <2>1, RunStoreNone DEF IsCommitted, Readable
  <2> QED
    BY <2>1, <2>2 DEF HeadsIn
<1>3. ASSUME load.record # None
      PROVE  /\ flash["rh0"] \in HeadsIn
             /\ load.record.snapshot.run.id \in HeadNames(flash["rh0"])
  <2>1. /\ load.head # None /\ load.state \in Usable
        /\ load.state \in {"ReadyEmpty", "LoadedActiveRun",
                           "FallbackRecoveryPending"}
    BY <1>1, <1>3 DEF LoadSound, Usable
  <2>2. CASE load.state \in {"ReadyEmpty", "LoadedActiveRun"}
    <3>1. load.record.snapshot = load.head.current.snapshot
      BY <1>1, <2>1, <2>2 DEF LoadSound
    <3> QED
      BY <1>2, <2>1, <3>1 DEF HeadNames
  <2>3. CASE load.state = "FallbackRecoveryPending"
    <3>1. /\ load.record.snapshot = load.head.fallback.snapshot
          /\ load.head.fallback # None
      BY <1>1, <2>3 DEF LoadSound
    <3> QED
      BY <1>2, <2>1, <3>1 DEF HeadNames
  <2> QED
    BY <2>1, <2>2, <2>3
<1>4. ASSUME load.status \in {"NoPersistedRun", "NoActiveRun"}
      PROVE  \/ /\ flash["rh0"] = Absent /\ flash["rc0"] = Absent
                /\ flash["rc1"] = Absent
             \/ /\ flash["rh0"] \in HeadsIn
                /\ flash["rh0"].current.snapshot.run.id = None
  <2>1. load.state = "ReadyEmpty" /\ load.state \in Usable
    BY <1>1, <1>4 DEF LoadSound, Usable
  <2>2. CASE load.head = None
    BY <1>1, <2>1, <2>2 DEF LoadSound
  <2>3. CASE load.head # None
    <3>1. /\ ~Active(load.record.snapshot.run)
          /\ load.record.snapshot = load.head.current.snapshot
      BY <1>1, <2>1, <2>3 DEF LoadSound
    <3> QED
      BY <1>2, <2>1, <2>3, <3>1 DEF Active
  <2> QED
    BY <2>2, <2>3
<1> QED
  BY <1>3, <1>4

\* A run whose end was never asked for is found again by every load, whatever
\* power loss came in between and whichever one record was lost at rest.
THEOREM RunStoreNeverForgotten == MCSpec => []RunNeverForgotten
<1>1. ASSUME RunStoreInv
      PROVE  RunNeverForgotten
  <2> DEFINE load == Load(flash, boot.epoch)
  <2> SUFFICES ASSUME budget.lost <= 1, NEW id \in DOMAIN runs,
                      runs[id] = "Live", id[1] = boot.epoch,
                      boot.handoff = "None",
                      load.status \in {"NoPersistedRun", "NoActiveRun"}
               PROVE  FALSE
    BY DEF RunNeverForgotten
  <2>1. LiveKept /\ Started /\ budget.lost \in Nat
    BY <1>1 DEF RunStoreInv, IdentityInv, Structure, TypeOK
  <2>2. Ours(id)
    BY DEF Ours
  <2>3. \/ /\ flash["rh0"] = Absent /\ flash["rc0"] = Absent
           /\ flash["rc1"] = Absent
        \/ /\ flash["rh0"] \in HeadsIn
           /\ flash["rh0"].current.snapshot.run.id = None
    BY <1>1, LoadNow
  <2>4. CASE /\ flash["rh0"] = Absent /\ flash["rc0"] = Absent
             /\ flash["rc1"] = Absent
    BY <2>1, <2>2, <2>4 DEF Started
  <2>5. CASE /\ flash["rh0"] \in HeadsIn
             /\ flash["rh0"].current.snapshot.run.id = None
    <3>1. id = None
      BY <2>1, <2>2, <2>5 DEF LiveKept
    <3>2. id \in RunIds
      BY <1>1 DEF RunStoreInv, ObserverOK
    <3> QED
      BY <3>1, <3>2, RunStoreNone
  <2> QED
    BY <2>3, <2>4, <2>5
<1> QED
  BY <1>1, RunStoreInvariant, PTL

\* A run that was ended is not published, not offered and not loaded again,
\* as long as no more than one record was lost at rest.
THEOREM RunStoreEndedStays == MCSpec => []EndedRunStaysEnded
<1>1. ASSUME RunStoreInv
      PROVE  EndedRunStaysEnded
  <2> DEFINE load == Load(flash, boot.epoch)
  <2> SUFFICES ASSUME budget.lost <= 1, NEW id \in DOMAIN runs,
                      runs[id] = "Ended"
               PROVE  /\ ram # None => ram.id # id
                      /\ app.fallback # None => app.fallback.id # id
                      /\ load.record # None =>
                           load.record.snapshot.run.id # id
    BY DEF EndedRunStaysEnded
  <2>1. id \notin Named /\ \A h \in HeadsIn : id \notin HeadNames(h)
    BY <1>1 DEF RunStoreInv, IdentityInv, EndedKept
  <2>2. load.record # None =>
          /\ flash["rh0"] \in HeadsIn
          /\ load.record.snapshot.run.id \in HeadNames(flash["rh0"])
    BY <1>1, LoadNow
  <2> QED
    BY <2>1, <2>2 DEF Named
<1> QED
  BY <1>1, RunStoreInvariant, PTL

\* A fermenting run has been given exactly the time that passed on the wall
\* since its phase began, over every restart, and a completed one at least
\* its duration, however many records were lost.
THEOREM RunStoreTimeTrue == MCSpec => []FermentingTimeTrue
<1>1. ASSUME RunStoreInv
      PROVE  FermentingTimeTrue
  BY <1>1 DEF RunStoreInv, TimeTrue, RunTrue, Earlier, FermentingTimeTrue
<1> QED
  BY <1>1, RunStoreInvariant, PTL

=============================================================================
