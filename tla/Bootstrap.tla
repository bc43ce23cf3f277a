----------------------------- MODULE Bootstrap -----------------------------
(***************************************************************************)
(* What the device finds when the power comes on, and how it gets from     *)
(* there to a configuration, an authorised run store and an access domain. *)
(*                                                                         *)
(* Three kinds of persistent state have to agree without a transaction:    *)
(* the bootstrap record in its two slots (which epoch the device is in and *)
(* how far an initialisation, a factory reset, the handoff of the run      *)
(* store and the handoff of the authentication domain got), the initial    *)
(* configuration graph of an epoch, and the two authentication records.    *)
(* Every write is a step; the power may fail between any two, a write may  *)
(* fail, and its outcome may stay unknown.  One task works at a time: boot *)
(* runs before the surfaces start, and a reset drains the authentication   *)
(* operations before it touches anything.                                  *)
(*                                                                         *)
(* Time is counted in units of the shortest lockout (30 s).                *)
(***************************************************************************)
EXTENDS Integers, FiniteSets

CONSTANTS
    Absent, Corrupt, None,
    Documents,      \* records of the initial graph before the root (four)
    Attempts,       \* wrong secrets before a lockout: web password and PIN
    LockCap,        \* longest lockout of each, in units
    StageMax,       \* the lockout stage stops here (31)
    EpochMax,       \* bound: storage epochs
    TroubleMax      \* bound: failed writes and corruptions

Kinds == {"web", "pin"}

\* ConfigurationBootstrapRecord: the records the two slots can hold.
BootRecords ==
    [seq: Nat, epoch: Nat, state: {"Initializing", "Initialized", "Resetting"},
     schema: 1 .. 3, handoff: {"None", "Pending", "Committed", "Consumed"},
     prev: Nat \cup {None}, cur: Nat \cup {None},
     auth: {"None", "Unconsumed", "InProgress", "Consumed", "Indeterminate"},
     authSeq: Nat]

\* AuthProvisioningRoot
Roots ==
    [epoch: Nat, binding: Nat,
     state: {"Unprovisioned", "Provisioning", "Provisioned", "Indeterminate",
             "RecoveryRequired"}]

\* AuthLockoutState
Locks == [failed: Nat, stage: 0 .. StageMax, remaining: Nat]

\* AuthenticationCredentialRecord
Credentials == [epoch: Nat, web: BOOLEAN, lock: [Kinds -> Locks]]

\* AuthenticationBootstrapContext
AuthContexts == [epoch: Nat, binding: Nat, replace: BOOLEAN]

\* LockoutClock
LockClocks == [for: Locks, left: Nat]

ASSUME BootstrapAssumption ==
    /\ Documents \in Nat /\ StageMax \in Nat \ {0}
    /\ Attempts \in [Kinds -> Nat \ {0}] /\ LockCap \in [Kinds -> Nat \ {0}]
    /\ EpochMax \in Nat \ {0} /\ TroubleMax \in Nat

ASSUME AbsentAssumption ==
    /\ \A x \in {Absent, Corrupt} :
          x \notin BootRecords \cup Roots \cup Credentials
    /\ Absent # Corrupt
    /\ None \notin Nat \cup AuthContexts \cup LockClocks \cup Kinds
                    \cup {"Pending", "Committed"}

\* Doubling never makes a lockout vanish.
ASSUME DoublingAssumption == \A n \in 0 .. StageMax : 2 ^ n \in Nat \ {0}

VARIABLES
    slots,    \* the bootstrap records in cb0 and cb1
    graph,    \* [epoch, written, intact]: initial graph of an epoch; the root
              \* is record Documents + 1
    root,     \* the provisioning root of the authentication domain
    creds,    \* the credential record
    mode,     \* ConfigurationServiceMode
    job,      \* the operation under way: where it is, whether a reset, the
              \* proof of the run handoff, storageEpoch_, the admission of a
              \* reset without runtime, mayReplaceOldEpoch, the secret changed
    ctx,      \* authenticationContext_: [epoch, binding, replace], or None
    clock,    \* LockoutClock of each secret: [for, left], or None
    trouble,  \* faults so far
    seen      \* observed: [world, tries, owed] (see the properties)

vars == <<slots, graph, root, creds, mode, job, ctx, clock, trouble, seen>>

-----------------------------------------------------------------------------
(* The bootstrap record.                                                   *)

Record(seq, epoch, state, schema) ==
    [seq |-> seq, epoch |-> epoch, state |-> state, schema |-> schema,
     handoff |-> "None", prev |-> None, cur |-> None,
     auth |-> "None", authSeq |-> 0]

NoHandoffBinding(r) == r.handoff = "None" /\ r.prev = None /\ r.cur = None

NoAuthHandoffBinding(r) == r.auth = "None" /\ r.authSeq = 0

BoundToEpoch(r) ==
    /\ r.handoff # "None" /\ r.prev # None /\ r.cur # None
    /\ r.prev # 0 /\ r.cur = r.epoch /\ r.prev + 1 = r.cur

Schema1Plausible(r) ==
    /\ r.seq # 0 /\ r.epoch # 0
    /\ NoHandoffBinding(r) /\ NoAuthHandoffBinding(r)
    /\ \/ r.state = "Initializing" /\ r.epoch = 1 /\ r.seq = 1
       \/ r.state = "Initialized" /\ r.seq = 2 * r.epoch
       \/ r.state = "Resetting" /\ r.epoch >= 2 /\ r.seq = 2 * r.epoch - 1

\* A reset takes four records with the handoff of the run store and took two
\* without it: the sequence fits some mixture of both.
Schema2SequencePlausible(r, offset) ==
    LET delta == r.seq - (2 * r.epoch - 1) - offset
    IN  /\ r.epoch >= 2 /\ delta >= 0 /\ delta % 2 = 0
        /\ delta \div 2 <= r.epoch - 2

Schema2Plausible(r) ==
    /\ r.seq # 0 /\ r.epoch # 0 /\ NoAuthHandoffBinding(r)
    /\ \/ r.state = "Initializing" /\ r.epoch = 1 /\ r.seq = 1
          /\ NoHandoffBinding(r)
       \/ r.state = "Initialized" /\ r.epoch = 1 /\ r.seq = 2
          /\ NoHandoffBinding(r)
       \/ r.state = "Resetting" /\ NoHandoffBinding(r)
          /\ Schema2SequencePlausible(r, 0)
       \/ /\ r.state = "Initialized" /\ BoundToEpoch(r)
          /\ Schema2SequencePlausible(r,
               CASE r.handoff = "Pending" -> 1
                 [] r.handoff = "Committed" -> 2
                 [] r.handoff = "Consumed" -> 3)

AuthHandoffBindingPlausible(r) ==
    CASE r.auth = "None" -> r.authSeq = 0
      [] r.auth = "Unconsumed" -> r.authSeq # 0 /\ r.seq = r.authSeq
      [] r.auth = "InProgress" -> r.authSeq # 0 /\ r.seq = r.authSeq + 1
      [] OTHER -> r.authSeq # 0 /\ r.seq >= r.authSeq + 2

Schema3Plausible(r) ==
    /\ r.seq >= 3 /\ r.epoch # 0 /\ AuthHandoffBindingPlausible(r)
    /\ \/ r.state = "Resetting" /\ r.epoch >= 2 /\ NoHandoffBinding(r)
          /\ r.auth = "None"
       \/ r.state = "Initialized" /\ (NoHandoffBinding(r) \/ BoundToEpoch(r))

IsPlausible(r) ==
    CASE r.schema = 1 -> Schema1Plausible(r)
      [] r.schema = 2 -> Schema2Plausible(r)
      [] r.schema = 3 -> Schema3Plausible(r)

\* The production encoder writes no schema 1 and nothing implausible; the
\* decoder refuses what is implausible.
Encodable(r) == r.schema \in {2, 3} /\ IsPlausible(r)

Decodable(r) == r.schema \in {1, 2, 3} /\ IsPlausible(r)

SameBinding(p, n) == p.prev = n.prev /\ p.cur = n.cur /\ p.epoch = n.epoch

StartsReset(p, n) ==
    /\ n.state = "Resetting" /\ NoHandoffBinding(n) /\ n.epoch = p.epoch + 1

EndsReset(p, n) ==
    /\ n.state = "Initialized" /\ n.handoff = "Pending"
    /\ n.epoch = p.epoch /\ n.prev = p.epoch - 1 /\ n.cur = n.epoch

EndsInitialization(p, n) ==
    n.state = "Initialized" /\ NoHandoffBinding(n) /\ n.epoch = p.epoch

HandoffAdvances(p, n) ==
    /\ n.state = "Initialized" /\ SameBinding(p, n)
    /\ <<p.handoff, n.handoff>> \in {<<"Pending", "Committed">>,
                                     <<"Committed", "Consumed">>}

Schema1Successor(p, n) ==
    CASE p.state = "Initializing" -> EndsInitialization(p, n)
      [] p.state = "Initialized" -> StartsReset(p, n)
      [] p.state = "Resetting" ->
           IF n.schema = 1 THEN n.state = "Initialized" /\ n.epoch = p.epoch
           ELSE EndsReset(p, n)

\* Behind the check of the binding, which a reset changes, the code has a
\* branch for a reset after a consumed handoff: it is never reached.
Schema2Successor(p, n) ==
    CASE p.state = "Initializing" -> EndsInitialization(p, n)
      [] p.state = "Resetting" -> EndsReset(p, n)
      [] p.state = "Initialized" /\ p.handoff = "None" -> StartsReset(p, n)
      [] OTHER -> BoundToEpoch(p) /\ HandoffAdvances(p, n)

\* schema3ConfigurationSuccessor: a reset also leads out of an unfinished
\* handoff of the authentication domain.
Schema3ConfigurationSuccessor(p, n) ==
    CASE p.state = "Resetting" -> EndsReset(p, n) /\ NoAuthHandoffBinding(n)
      [] OTHER -> \/ /\ p.handoff \in {"None", "Consumed"} /\ StartsReset(p, n)
                     /\ NoAuthHandoffBinding(n)
                  \/ /\ HandoffAdvances(p, n)
                     /\ n.auth = p.auth /\ n.authSeq = p.authSeq

AuthHandoffAdvances(p, n) ==
    /\ p.state = "Initialized" /\ n.state = p.state
    /\ n.handoff = p.handoff /\ SameBinding(p, n)
    /\ \/ p.auth = "None" /\ n.auth = "Unconsumed" /\ n.authSeq = n.seq
       \/ /\ <<p.auth, n.auth>> \in {<<"Unconsumed", "InProgress">>,
                                     <<"InProgress", "Consumed">>,
                                     <<"InProgress", "Indeterminate">>}
          /\ n.authSeq = p.authSeq

IsAllowedSuccessor(p, n) ==
    /\ IsPlausible(p) /\ IsPlausible(n) /\ n.seq = p.seq + 1
    /\ CASE <<p.schema, n.schema>> \in {<<1, 1>>, <<1, 2>>} ->
              Schema1Successor(p, n)
         [] <<p.schema, n.schema>> = <<2, 2>> -> Schema2Successor(p, n)
         [] <<p.schema, n.schema>> = <<2, 3>> ->
              AuthHandoffAdvances(p, n) /\ n.auth = "Unconsumed"
         [] <<p.schema, n.schema>> = <<3, 3>> ->
              \/ AuthHandoffAdvances(p, n)
              \/ Schema3ConfigurationSuccessor(p, n)
         [] OTHER -> FALSE

-----------------------------------------------------------------------------
(* The bootstrap store.                                                    *)

Used == {s \in {0, 1} : slots[s] # Absent}

Newest ==
    LET used == Used
    IN  CHOOSE s \in used : \A t \in used : slots[t].seq <= slots[s].seq

\* scan: a slot that cannot be decoded, or two records that are not each
\* other's successor, make the whole bootstrap unreadable.
ScanStatus ==
    LET used == Used
        both == used = {0, 1}
        n == Newest
    IN  CASE used = {} -> "Empty"
          [] \E s \in used : ~Decodable(slots[s]) -> "IntegrityFailure"
          [] both /\ slots[0].seq = slots[1].seq /\ slots[0] # slots[1] ->
               "IntegrityFailure"
          [] both /\ slots[0].seq # slots[1].seq
             /\ ~IsAllowedSuccessor(slots[1 - n], slots[n]) ->
               "IntegrityFailure"
          [] OTHER -> "Available"

\* The canonical record of a scan that found one.
Now == slots[Newest]

Initialized == ScanStatus = "Available" /\ Now.state = "Initialized"
HandoffOpen == Now.handoff \in {"Pending", "Committed"}

\* writeSuccessorWithHandoff.
Successor(r, state, handoff) ==
    LET epoch == IF state = "Resetting" THEN r.epoch + 1 ELSE r.epoch
        bound == handoff # "None"
        keep == r.prev # None /\ r.cur # None
    IN  [seq |-> r.seq + 1, epoch |-> epoch, state |-> state,
         schema |-> IF r.schema = 3 THEN 3 ELSE 2, handoff |-> handoff,
         prev |-> IF ~bound THEN None
                  ELSE IF keep THEN r.prev ELSE epoch - 1,
         cur |-> IF ~bound THEN None ELSE IF keep THEN r.cur ELSE epoch,
         auth |-> IF state = "Resetting" THEN "None" ELSE r.auth,
         authSeq |-> IF state = "Resetting" THEN 0 ELSE r.authSeq]

\* writeSuccessor: a finished reset opens the handoff of the run store.
NextState(r, state) ==
    Successor(r, state, IF r.state = "Resetting" /\ state = "Initialized"
                        THEN "Pending" ELSE "None")

\* writeAuthDomainHandoff: the first one lifts the record to schema 3.
NextAuth(r, auth) ==
    [r EXCEPT !.seq = @ + 1, !.schema = 3, !.auth = auth,
              !.authSeq = IF auth = "Unconsumed" THEN r.seq + 1 ELSE @]

\* What becomes of one write to the store: it is confirmed; it fails and
\* changes nothing; its outcome stays unknown, because the readback fails.
Outcomes == {"confirmed", "failed", "unknownNew", "unknownOld"}

Effective(o) == o \in {"confirmed", "unknownNew"}

Costs(o) ==
    IF o = "confirmed" THEN UNCHANGED trouble
    ELSE trouble < TroubleMax /\ trouble' = trouble + 1

\* writeBound: the slot that is not the loaded one is overwritten.
WriteBound(r, o) ==
    LET target == IF Used = {} THEN 0 ELSE 1 - Newest
    IN  /\ Encodable(r)
        /\ Costs(o)
        /\ slots' = IF Effective(o) THEN [slots EXCEPT ![target] = r] ELSE slots

\* A transition the store refuses (InvalidTransition).
Allowed(r) == IF Used = {} THEN r.seq = 1 ELSE IsAllowedSuccessor(Now, r)

-----------------------------------------------------------------------------
(* The job that runs, and the end of it.                                   *)

Off == [at |-> "off", reset |-> FALSE, phase |-> None, epoch |-> None,
        admitted |-> FALSE, replace |-> FALSE, kind |-> None]

At(place) == job.at = place

\* At the end the surfaces serve whatever state was reached.
To(place) ==
    IF place # "idle" THEN [job EXCEPT !.at = place]
    ELSE [Off EXCEPT !.at = "idle", !.epoch = job.epoch,
                     !.admitted = job.admitted]

GoTo(place) == job' = To(place)

Stop == GoTo("idle")

Fault == trouble < TroubleMax /\ trouble' = trouble + 1

\* RAM is gone; what was written stays.
PowerLoss ==
    /\ ~At("off")
    /\ job' = Off
    /\ mode' = "NoRuntime" /\ ctx' = None
    /\ clock' = [k \in Kinds |-> None]
    /\ UNCHANGED <<slots, graph, root, creds, trouble, seen>>

PowerOn ==
    /\ At("off") /\ GoTo("boot")
    /\ UNCHANGED <<slots, graph, root, creds, mode, ctx, clock, trouble, seen>>

\* Flash cells fail while nobody looks: the record no longer decodes.
Corrupted ==
    /\ At("off") /\ Fault
    /\ \/ /\ graph.written = Documents + 1 /\ graph.intact
          /\ graph' = [graph EXCEPT !.intact = FALSE]
          /\ UNCHANGED <<root, creds>>
       \/ /\ root \notin {Absent, Corrupt} /\ root' = Corrupt
          /\ UNCHANGED <<graph, creds>>
       \/ /\ creds \notin {Absent, Corrupt} /\ creds' = Corrupt
          /\ UNCHANGED <<graph, root>>
    /\ UNCHANGED <<slots, mode, job, ctx, clock, seen>>

-----------------------------------------------------------------------------
(* boot(): the configuration.                                              *)

\* loadCanonicalGraph finds the graph of this epoch.
GraphUsable(epoch) ==
    graph.epoch = epoch /\ graph.written = Documents + 1 /\ graph.intact

FactoryEmpty == graph.written = 0

\* verifyFactoryEmpty: without a bootstrap record nothing else may be there.
BootUnreadable ==
    /\ At("boot")
    /\ IF \/ ScanStatus = "IntegrityFailure"
          \/ ScanStatus = "Empty" /\ ~FactoryEmpty
       THEN UNCHANGED trouble
       ELSE Fault
    /\ Stop
    /\ UNCHANGED <<slots, graph, root, creds, mode, ctx, clock, seen>>

\* beginRecovery: where a recovery and a reset may start from.
RecoveryPermitted(target) ==
    mode \in IF target = "ResetPreparing"
             THEN {"Operational", "ResetEligibleNoRuntime"}
             ELSE {"NoRuntime", target}

\* cancelRecovery: back to the runtime there was, if there was one.
CancelledMode(runtime) == IF runtime THEN "Operational" ELSE "NoRuntime"

\* bootstrapFailureLeavesOldState: only a write that provably changed nothing
\* gives the old runtime back.
ModeAfterWrite(o, permitted, going, runtime) ==
    CASE permitted /\ o = "confirmed" -> going
      [] permitted /\ o = "failed" -> CancelledMode(runtime)
      [] OTHER -> "RuntimeFailure"

\* writeInitialInitializing, before the first record of the graph.
BootEmpty(o) ==
    /\ At("boot") /\ ScanStatus = "Empty" /\ FactoryEmpty
    /\ RecoveryPermitted("RecoveryPreparing")
    /\ WriteBound(Record(1, 1, "Initializing", 2), o)
    /\ GoTo(IF o = "confirmed" THEN "build" ELSE "idle")
    /\ mode' = ModeAfterWrite(o, TRUE, "RecoveryPreparing", FALSE)
    /\ UNCHANGED <<graph, root, creds, ctx, clock, seen>>

\* An unfinished initialisation or reset is taken up again.
BootResume ==
    /\ At("boot") /\ ScanStatus = "Available" /\ Now.state # "Initialized"
    /\ LET target == IF Now.state = "Resetting" THEN "EpochResetting"
                     ELSE "RecoveryPreparing"
       IN  RecoveryPermitted(target) /\ mode' = target
    /\ GoTo("build")
    /\ UNCHANGED <<slots, graph, root, creds, ctx, clock, trouble, seen>>

\* armAuthorizedRunEpochHandoff.
Armed(r) ==
    IF r.schema \in {2, 3} /\ r.handoff \in {"Pending", "Committed"}
       /\ BoundToEpoch(r)
    THEN r.handoff ELSE None

\* An observer knows the epoch that started last; with a new one the secrets
\* of the old one no longer matter.
Fresh(epoch) == [world |-> epoch, tries |-> [k \in Kinds |-> 0],
                 owed |-> [k \in Kinds |-> 0]]

Entered(epoch) == IF epoch = seen.world THEN seen ELSE Fresh(epoch)

BootRuntime ==
    /\ At("boot") /\ Initialized /\ GraphUsable(Now.epoch)
    /\ RecoveryPermitted("RecoveryPreparing")
    /\ mode' = "Operational"
    /\ job' = [job EXCEPT !.at = "auth", !.phase = Armed(Now),
                          !.epoch = Now.epoch]
    /\ seen' = Entered(Now.epoch)
    /\ UNCHANGED <<slots, graph, root, creds, ctx, clock, trouble>>

\* markResetEligibleNoRuntime; the reset is offered when no handoff is open.
BootWithoutGraph ==
    /\ At("boot") /\ Initialized /\ ~GraphUsable(Now.epoch)
    /\ mode' = "ResetEligibleNoRuntime"
    /\ job' = [job EXCEPT !.at = "idle", !.admitted = ~HandoffOpen]
    /\ UNCHANGED <<slots, graph, root, creds, ctx, clock, trouble, seen>>

\* selectInitialSlot: a record of this epoch that is already there is kept; the
\* slot of another epoch, or an empty one, is used.
RecordKept(i) == graph.epoch = Now.epoch /\ i <= graph.written

\* prepareInitialGraph: the records that need no write.
Position == Cardinality({i \in 1 .. Documents + 1 : RecordKept(i)})

\* discardPreparedRecovery
BuildMode ==
    IF Now.state = "Resetting" THEN "EpochResetting" ELSE "RecoveryPreparing"

\* executeInitialGraph: the documents and the manifest, read back one by one;
WriteRecord(o) ==
    /\ Costs(o)
    /\ graph' = IF Effective(o)
                THEN [epoch |-> Now.epoch, written |-> Position + 1,
                      intact |-> TRUE]
                ELSE graph
    /\ GoTo(IF o = "confirmed" THEN "build" ELSE "idle")
    /\ UNCHANGED <<slots, root, creds, ctx, clock, seen>>

Build(o) ==
    /\ At("build") /\ Position < Documents
    /\ WriteRecord(o) /\ mode' = BuildMode

\* the root last.  If it cannot be read back nothing is published.
BuildRoot(o) ==
    /\ At("build") /\ Position = Documents
    /\ WriteRecord(o)
    /\ mode' \in IF o \in {"confirmed", "failed"} THEN {BuildMode}
                 ELSE {"CommitIndeterminate", "RuntimeFailure"}

\* Mutant: the graph counts as written before its root is.
ActivatedEarly == Position >= Documents

\* publishRecoveredGraph
Activated == Position = Documents + 1

Publish ==
    /\ At("build") /\ Activated
    /\ mode' = "BootstrapFinalizationPending"
    /\ GoTo("finalize")
    /\ UNCHANGED <<slots, graph, root, creds, ctx, clock, trouble, seen>>

\* Mutant: the domain survives until it is resolved again.
DomainKept == [ctx |-> ctx, clock |-> clock]

\* A reset that is complete takes the authentication domain with it
\* (resetAuthenticationState); the gate is closed meanwhile.
DomainAfterReset == [ctx |-> None, clock |-> [k \in Kinds |-> None]]

DomainAfter == IF job.reset THEN DomainAfterReset
               ELSE [ctx |-> ctx, clock |-> clock]

\* finalizeRecoveredGraph: only what this attempt published becomes the
\* runtime.
FinalizedMode ==
    IF mode = "BootstrapFinalizationPending" THEN "Operational"
    ELSE "RuntimeFailure"

\* finalizePublishedGraph and classifyBootstrapFinalization.
Finalize(o) ==
    LET next == NextState(Now, "Initialized")
    IN  /\ At("finalize") /\ Allowed(next) /\ WriteBound(next, o)
        /\ IF o = "confirmed"
           THEN /\ mode' = FinalizedMode
                /\ job' = [job EXCEPT !.at = IF job.reset THEN "handoff"
                                             ELSE "auth",
                                      !.phase = Armed(next),
                                      !.epoch = IF job.reset THEN job.epoch
                                                ELSE next.epoch]
                /\ seen' = Entered(next.epoch)
                /\ ctx' = DomainAfter.ctx /\ clock' = DomainAfter.clock
           ELSE Stop /\ UNCHANGED <<mode, ctx, clock, seen>>
        /\ UNCHANGED <<graph, root, creds>>

-----------------------------------------------------------------------------
(* The handoff of the run store (what it writes there: module RunStore).   *)

\* The run store is prepared and the commitment is written, or it fails.
HandoffCommit(o) ==
    LET next == Successor(Now, "Initialized", "Committed")
    IN  /\ At("handoff") /\ job.phase = "Pending" /\ Now.handoff = "Pending"
        /\ Allowed(next) /\ WriteBound(next, o)
        /\ IF o = "confirmed" THEN job' = [job EXCEPT !.phase = "Committed"]
           ELSE Stop
        /\ UNCHANGED <<graph, root, creds, mode, ctx, clock, seen>>

\* After a reset the authentication domain is resolved once more; at boot
\* that happened before, while the handoff was still open.
HandoffConsume(o) ==
    LET next == Successor(Now, "Initialized", "Consumed")
    IN  /\ At("handoff") /\ job.phase = "Committed" /\ Now.handoff = "Committed"
        /\ Allowed(next) /\ WriteBound(next, o)
        /\ IF job.reset /\ o = "confirmed"
           THEN job' = [job EXCEPT !.at = "auth", !.phase = None,
                                   !.epoch = Now.epoch]
           ELSE Stop
        /\ UNCHANGED <<graph, root, creds, mode, ctx, clock, seen>>

\* The run store cannot be prepared or finalised.
HandoffFails ==
    /\ At("handoff") /\ Fault /\ Stop
    /\ UNCHANGED <<slots, graph, root, creds, mode, ctx, clock, seen>>

-----------------------------------------------------------------------------
(* resolveAuthenticationBootstrap.                                         *)

Known(r) == r \notin {Absent, Corrupt}

\* readRoot, readCredentials
ReadStatus(r, epoch) ==
    CASE r = Absent -> "NotFound"
      [] r = Corrupt -> "IntegrityFailure"
      [] Known(r) /\ r.epoch = epoch -> "Success"
      [] OTHER -> "DifferentEpoch"

\* Mutant: records that cannot be read are refused after a reset too.
InventoryReadable(epoch, prior) ==
    IF ~prior THEN root = Absent /\ creds = Absent
    ELSE \A r \in {root, creds} :
           ReadStatus(r, epoch) \in {"NotFound", "DifferentEpoch"}

\* inspectAuthenticationInventory: may the records found make room for those
\* of this epoch?
Inventory(epoch, prior) ==
    IF ~prior THEN root = Absent /\ creds = Absent
    ELSE /\ \A r \in {root, creds} :
               /\ ReadStatus(r, epoch) # "Success"
               /\ Known(r) => r.epoch < epoch
         /\ Known(root) /\ root.state = "Provisioned" =>
               Known(creds) /\ creds.epoch = root.epoch
         /\ ~ /\ Known(root) /\ Known(creds) /\ creds.epoch = root.epoch
              /\ root.state = "Unprovisioned"

\* Records of an earlier epoch are only expected after a reset.
ResetEpoch(r) ==
    /\ r.epoch > 1
    /\ r.schema = 3 \/ (r.schema = 2 /\ r.handoff = "Consumed")

Prior(r) == IF r.auth = "None" THEN ResetEpoch(r) ELSE r.epoch > 1

AuthEligible(r) ==
    /\ r.handoff \in {"None", "Consumed"}
    /\ r.auth = "None" => r.schema = 2 \/ ResetEpoch(r)

\* Boot goes on with a handoff that is still open; otherwise it is done.
AfterAuth == IF ~job.reset /\ job.phase # None THEN "handoff" ELSE "idle"

AuthEnds == GoTo(AfterAuth)

\* Refused without a write: the domain stays closed.
AuthRefused ==
    /\ At("auth")
    /\ IF \/ ~AuthEligible(Now) \/ Now.auth = "Indeterminate"
          \/ Now.auth = "None" /\ ~Inventory(Now.epoch, Prior(Now))
       THEN UNCHANGED trouble
       ELSE Fault /\ Now.auth \in {"None", "Consumed"}
    /\ AuthEnds
    /\ UNCHANGED <<slots, graph, root, creds, mode, ctx, clock, seen>>

AuthWrite(auth, o, place) ==
    /\ Allowed(NextAuth(Now, auth)) /\ WriteBound(NextAuth(Now, auth), o)
    /\ GoTo(IF o = "confirmed" THEN place ELSE AfterAuth)
    /\ UNCHANGED <<graph, root, creds, mode, ctx, clock, seen>>

AuthOpen(o) ==
    LET next == NextAuth(Now, "Unconsumed")
    IN  /\ At("auth") /\ AuthEligible(Now) /\ Now.auth = "None"
        /\ Inventory(Now.epoch, Prior(Now))
        /\ Allowed(next) /\ WriteBound(next, o)
        /\ IF o = "confirmed"
           THEN job' = [job EXCEPT !.at = "authStart", !.replace = Prior(Now)]
           ELSE AuthEnds
        /\ UNCHANGED <<graph, root, creds, mode, ctx, clock, seen>>

\* An opened handoff is found at boot: the records are inspected again.  One
\* that cannot be read spoils the handoff like one that must not be there.
AuthFound ==
    /\ At("auth") /\ AuthEligible(Now) /\ Now.auth = "Unconsumed"
    /\ \/ /\ Inventory(Now.epoch, Prior(Now)) /\ UNCHANGED trouble
          /\ job' = [job EXCEPT !.at = "authStart", !.replace = Prior(Now)]
       \/ /\ IF Inventory(Now.epoch, Prior(Now)) THEN Fault
             ELSE UNCHANGED trouble
          /\ GoTo("authSpoil")
    /\ UNCHANGED <<slots, graph, root, creds, mode, ctx, clock, seen>>

AuthSpoil(o) == At("authSpoil") /\ AuthWrite("InProgress", o, "authGiveUp")

AuthStart(o) == At("authStart") /\ AuthWrite("InProgress", o, "authRoot")

\* writeInitialRoot: a root that is there is only replaced after a reset.
AuthRoot(o) ==
    /\ At("authRoot")
    /\ \/ root = Absent \/ (job.replace /\ ReadStatus(root, Now.epoch) # "Success")
       \/ o = "failed"
    /\ Costs(o)
    /\ root' = IF Effective(o)
               THEN [epoch |-> Now.epoch, state |-> "Unprovisioned",
                     binding |-> Now.authSeq]
               ELSE root
    /\ GoTo(IF o = "confirmed" THEN "authConsume" ELSE "authGiveUp")
    /\ UNCHANGED <<slots, graph, creds, mode, ctx, clock, seen>>

\* A started handoff is found at boot: the root says whether it went through.
AuthConfirm ==
    LET confirmed ==
            /\ ReadStatus(root, Now.epoch) = "Success"
            /\ root.state = "Unprovisioned" /\ root.binding = Now.authSeq
            /\ ReadStatus(creds, Now.epoch) \in {"NotFound", "DifferentEpoch"}
    IN  /\ At("auth") /\ AuthEligible(Now) /\ Now.auth = "InProgress"
        /\ \/ confirmed /\ GoTo("authConsume") /\ UNCHANGED trouble
           \/ /\ IF confirmed THEN Fault ELSE UNCHANGED trouble
              /\ GoTo("authGiveUp")
        /\ UNCHANGED <<slots, graph, root, creds, mode, ctx, clock, seen>>

AuthConsume(o) == At("authConsume") /\ AuthWrite("Consumed", o, "authCheck")

AuthGiveUp(o) == At("authGiveUp") /\ AuthWrite("Indeterminate", o, AfterAuth)

\* The credentials the state of the root asks for.
CredentialsFit(epoch, replace) ==
    LET status == ReadStatus(creds, epoch)
    IN  \/ root.state = "Provisioned" /\ status = "Success"
        \/ /\ root.state = "Unprovisioned"
           /\ \/ status \in {"NotFound", "DifferentEpoch"}
              \/ replace /\ status = "IntegrityFailure"

\* Everything fits: the domain opens.
AuthCheck ==
    /\ At("authCheck") \/ (At("auth") /\ AuthEligible(Now) /\ Now.auth = "Consumed")
    /\ ctx' = IF /\ ReadStatus(root, Now.epoch) = "Success"
                 /\ root.binding = Now.authSeq
                 /\ CredentialsFit(Now.epoch, job.replace)
              THEN [epoch |-> Now.epoch, binding |-> Now.authSeq,
                    replace |-> job.replace]
              ELSE None
    /\ AuthEnds
    /\ UNCHANGED <<slots, graph, root, creds, mode, clock, trouble, seen>>

-----------------------------------------------------------------------------
(* AuthenticationDomain: provisioning, change of a secret, attempts.       *)

\* readActiveRoot
RootActive ==
    /\ ctx # None /\ ReadStatus(root, ctx.epoch) = "Success"
    /\ root.binding = ctx.binding

\* readActiveCredentials
CredentialsActive ==
    /\ RootActive /\ root.state = "Provisioned"
    /\ ReadStatus(creds, ctx.epoch) = "Success"

Unlocked == [failed |-> 0, stage |-> 0, remaining |-> 0]

\* What may follow a provisioning state; two of them are final.
ValidRootTransition(state, target) ==
    <<state, target>> \in
        {<<"Unprovisioned", "Provisioning">>, <<"Provisioned", "Provisioning">>}
        \cup ({"Provisioning"} \X {"Provisioned", "Indeterminate",
                                   "RecoveryRequired"})

\* writeRoot, compareAndWrite: the record the change was made from must still
\* be there.
WriteRoot(state, o) ==
    /\ ValidRootTransition(root.state, state)
    /\ Costs(o)
    /\ root' = IF Effective(o) THEN [root EXCEPT !.state = state] ELSE root

\* bootstrap: the root says Provisioning before a secret is stored.
ProvisionBegin(o) ==
    /\ At("idle") /\ RootActive /\ root.state = "Unprovisioned"
    /\ CredentialsFit(ctx.epoch, ctx.replace)
    /\ WriteRoot("Provisioning", o)
    /\ GoTo(IF o = "confirmed" THEN "provision" ELSE "idle")
    /\ UNCHANGED <<slots, graph, creds, mode, ctx, clock, seen>>

\* Without a web password the browser surface is open, the PIN is not.
ProvisionCredentials(o) ==
    /\ At("provision")
    /\ Costs(o)
    /\ \E web \in BOOLEAN :
          creds' = IF Effective(o)
                   THEN [epoch |-> ctx.epoch, web |-> web,
                         lock |-> [k \in Kinds |-> Unlocked]]
                   ELSE creds
    /\ seen' = IF Effective(o) THEN Fresh(seen.world) ELSE seen
    /\ CASE o = "confirmed" -> GoTo("provisionEnd")
         [] o = "failed" -> GoTo("provisionRevoke")
         [] OTHER -> GoTo("provisionRevoke") \/ Stop
    /\ UNCHANGED <<slots, graph, root, mode, ctx, clock>>

\* The key derivation fails: nothing is stored.
ProvisionWithoutKey ==
    /\ At("provision") /\ Fault /\ GoTo("provisionRevoke")
    /\ UNCHANGED <<slots, graph, root, creds, mode, ctx, clock, seen>>

ProvisionRevoke(o) ==
    /\ At("provisionRevoke") /\ WriteRoot("RecoveryRequired", o) /\ Stop
    /\ UNCHANGED <<slots, graph, creds, mode, ctx, clock, seen>>

ProvisionEnd(o) ==
    /\ At("provisionEnd") /\ WriteRoot("Provisioned", o) /\ Stop
    /\ UNCHANGED <<slots, graph, creds, mode, ctx, clock, seen>>

\* Mutant: only a running clock locks.
LockedOutByClock(k) ==
    /\ creds.lock[k].remaining # 0 /\ clock[k] # None
    /\ clock[k].left # 0

\* effectiveLockoutRemaining: a clock that does not belong to the persisted
\* lockout, as after every restart, starts with its full length.
ClockFits(k) == clock[k] # None /\ clock[k].for = creds.lock[k]

LockedOut(k) ==
    /\ creds.lock[k].remaining # 0
    /\ ClockFits(k) => clock[k].left # 0

LockTime(k, stage) ==
    LET doubled == 2 ^ (stage - 1)
    IN  IF doubled < LockCap[k] THEN doubled ELSE LockCap[k]

\* The lockout record after an answer.
AfterAttempt(k, right) ==
    LET old == creds.lock[k]
        stage == IF old.stage < StageMax THEN old.stage + 1 ELSE old.stage
    IN  CASE right -> Unlocked
          [] ~right /\ old.failed + 1 < Attempts[k] ->
               [old EXCEPT !.failed = @ + 1, !.remaining = 0]
          [] OTHER -> [failed |-> 0, stage |-> stage,
                       remaining |-> LockTime(k, stage)]

Checkable(k) ==
    At("idle") /\ CredentialsActive /\ (k = "web" => creds.web)

\* verifyWebPassword, verifyServicePin while a lockout runs: no answer, but
\* the clock starts.
AttemptLocked(k) ==
    /\ Checkable(k) /\ LockedOut(k) /\ ~ClockFits(k)
    /\ clock' = [clock EXCEPT ![k] = [for |-> creds.lock[k],
                                      left |-> creds.lock[k].remaining]]
    /\ UNCHANGED <<slots, graph, root, creds, mode, job, ctx, trouble, seen>>

\* What an observer counts: wrong answers since the last lockout was sat out
\* or the secret was known, and the time a lockout still lasts.
Observed(k, right, lock, o) ==
    [seen EXCEPT
       !.tries[k] = IF o = "confirmed" /\ seen.owed[k] > 0 THEN Attempts[k] + 1
                    ELSE IF Effective(o) /\ right THEN 0
                    ELSE IF o = "confirmed" THEN @ + 1 ELSE @,
       !.owed[k] = IF Effective(o) /\ lock.remaining # 0
                   THEN lock.remaining ELSE @]

\* The outcome is stored before it is told.  "change" goes on to replace the
\* secret.
Attempt(k, right, change, o) ==
    LET lock == AfterAttempt(k, right)
    IN  /\ Checkable(k) /\ ~LockedOut(k) /\ (change => right)
        /\ Costs(o)
        /\ creds' = IF Effective(o) THEN [creds EXCEPT !.lock[k] = lock] ELSE creds
        /\ clock' = [clock EXCEPT ![k] =
                        IF o = "confirmed" /\ lock.remaining # 0
                        THEN [for |-> lock, left |-> lock.remaining] ELSE None]
        /\ seen' = Observed(k, right, lock, o)
        /\ job' = IF change /\ o = "confirmed"
                  THEN [job EXCEPT !.at = "changeRoot", !.kind = k] ELSE job
        /\ UNCHANGED <<slots, graph, root, mode, ctx>>

\* The key derivation fails: the expired clock is forgotten, so that the
\* lockout starts again.
AttemptWithoutKey(k) ==
    /\ Checkable(k) /\ ~LockedOut(k) /\ clock[k] # None /\ Fault
    /\ clock' = [clock EXCEPT ![k] = None]
    /\ UNCHANGED <<slots, graph, root, creds, mode, job, ctx, seen>>

\* changeWebPassword, changeServicePin: root, secret, root.
ChangeRoot(o) ==
    /\ At("changeRoot")
    /\ WriteRoot("Provisioning", o)
    /\ GoTo(IF o = "confirmed" THEN "change" ELSE "idle")
    /\ UNCHANGED <<slots, graph, creds, mode, ctx, clock, seen>>

ChangeCredentials(o) ==
    /\ At("change")
    /\ Costs(o)
    /\ creds' = IF Effective(o)
                THEN [creds EXCEPT !.lock[job.kind] = Unlocked] ELSE creds
    /\ GoTo(IF o = "confirmed" THEN "provisionEnd" ELSE "idle")
    /\ UNCHANGED <<slots, graph, root, mode, ctx, clock, seen>>

Tick ==
    /\ At("idle")
    /\ \E k \in Kinds : seen.owed[k] > 0 \/ (clock[k] # None /\ clock[k].left > 0)
    /\ clock' = [k \in Kinds |->
                    IF clock[k] = None \/ clock[k].left = 0 THEN clock[k]
                    ELSE [clock[k] EXCEPT !.left = @ - 1]]
    /\ seen' = [seen EXCEPT
                  !.owed = [k \in Kinds |-> IF @[k] > 0 THEN @[k] - 1 ELSE 0],
                  !.tries = [k \in Kinds |-> IF seen.owed[k] = 1 THEN 0 ELSE @[k]]]
    /\ UNCHANGED <<slots, graph, root, creds, mode, job, ctx, trouble>>

-----------------------------------------------------------------------------
(* beginAuthorizedFactoryReset.                                            *)

\* The epoch is known from the runtime or, without one, from the admission.
ResetOffered ==
    \/ job.epoch # None
    \/ job.admitted /\ mode = "ResetEligibleNoRuntime"

\* The graph is loaded again when no runtime vouches for it.
ResetEligible ==
    /\ Initialized /\ ~HandoffOpen
    /\ \/ mode = "Operational"
       \/ mode \in {"NoRuntime", "ResetEligibleNoRuntime"}
          /\ ~GraphUsable(Now.epoch)

\* A transition the store refuses leaves no runtime behind.
ResetBegin(o) ==
    LET next == NextState(Now, "Resetting")
        runtime == mode = "Operational"
    IN  /\ At("idle") /\ ResetOffered /\ ResetEligible /\ Now.epoch < EpochMax
        /\ IF Allowed(next) THEN WriteBound(next, o)
           ELSE o = "failed" /\ UNCHANGED <<slots, trouble>>
        /\ IF o = "confirmed"
           THEN job' = [job EXCEPT !.at = "build", !.reset = TRUE,
                                   !.admitted = FALSE]
           ELSE job' = [job EXCEPT !.admitted = FALSE]
        /\ mode' = ModeAfterWrite(o, Allowed(next), "EpochResetting", runtime)
        /\ UNCHANGED <<graph, root, creds, ctx, clock, seen>>

-----------------------------------------------------------------------------
\* A device as it leaves the flashing station, or one an older firmware left
\* with records of schema 1, before or after its first reset.
Legacy(n) ==
    CASE n = 1 -> Record(1, 1, "Initializing", 1)
      [] n = 2 -> Record(2, 1, "Initialized", 1)
      [] n = 3 -> Record(3, 2, "Resetting", 1)
      [] n = 4 -> Record(4, 2, "Initialized", 1)

LegacySlots(n) ==
    [s \in {0, 1} |-> LET m == IF (n - 1) % 2 = s THEN n ELSE n - 1
                     IN  IF m = 0 THEN Absent ELSE Legacy(m)]

Init ==
    /\ \E n \in 0 .. 4 :
         /\ slots = IF n = 0 THEN [s \in {0, 1} |-> Absent] ELSE LegacySlots(n)
         /\ graph = IF n \in {0, 1}
                    THEN [epoch |-> 1, written |-> 0, intact |-> TRUE]
                    ELSE [epoch |-> IF n = 4 THEN 2 ELSE 1,
                          written |-> Documents + 1, intact |-> TRUE]
    /\ root = Absent /\ creds = Absent
    /\ mode = "NoRuntime" /\ job = Off /\ ctx = None
    /\ clock = [k \in Kinds |-> None]
    /\ trouble = 0
    /\ seen = Fresh(0)

BootNext(o) ==
    \/ BootEmpty(o) \/ Build(o) \/ BuildRoot(o) \/ Finalize(o)
    \/ HandoffCommit(o) \/ HandoffConsume(o)

AuthNext(o) ==
    \/ AuthOpen(o) \/ AuthSpoil(o) \/ AuthStart(o) \/ AuthRoot(o)
    \/ AuthConsume(o) \/ AuthGiveUp(o)

SecretNext(o) ==
    \/ ProvisionBegin(o) \/ ProvisionCredentials(o) \/ ProvisionRevoke(o)
    \/ ProvisionEnd(o) \/ ChangeRoot(o) \/ ChangeCredentials(o)
    \/ \E k \in Kinds, right, change \in BOOLEAN : Attempt(k, right, change, o)

Next ==
    \/ PowerLoss \/ PowerOn \/ Corrupted
    \/ BootUnreadable \/ BootResume \/ BootRuntime \/ BootWithoutGraph
    \/ Publish \/ HandoffFails
    \/ AuthRefused \/ AuthFound \/ AuthConfirm \/ AuthCheck
    \/ ProvisionWithoutKey \/ Tick
    \/ \E k \in Kinds : AttemptLocked(k) \/ AttemptWithoutKey(k)
    \/ \E o \in Outcomes :
         BootNext(o) \/ AuthNext(o) \/ SecretNext(o) \/ ResetBegin(o)

Spec == Init /\ [][Next]_vars

-----------------------------------------------------------------------------
(* Properties.                                                             *)

\* The bootstrap write the operation under way, or a reset, needs next.  (A
\* second reset while the record still has schema 2 is refused: see README.)
NeededWrites ==
    CASE At("finalize") -> {NextState(Now, "Initialized")}
      [] At("handoff") /\ job.phase = "Pending" ->
           {Successor(Now, "Initialized", "Committed")}
      [] At("handoff") /\ job.phase = "Committed" ->
           {Successor(Now, "Initialized", "Consumed")}
      [] At("authStart") \/ At("authSpoil") -> {NextAuth(Now, "InProgress")}
      [] At("authConsume") -> {NextAuth(Now, "Consumed")}
      [] At("authGiveUp") -> {NextAuth(Now, "Indeterminate")}
      [] At("idle") /\ Initialized /\ ~HandoffOpen
         /\ ~(Now.schema = 2 /\ Now.handoff = "Consumed") ->
           {NextState(Now, "Resetting")}
      [] OTHER -> {}

\* However initialisations, resets and handoffs are interrupted and whichever
\* firmware wrote the first record, the device never locks itself out of its
\* own storage: the two bootstrap slots always scan, a missing record never
\* meets a graph that is already there, an Initialized record always has its
\* complete graph (unless the flash lost it), and no operation is refused the
\* record it has to write next (ConfigurationBootstrapStore::scan,
\* isAllowedBootstrapSuccessor, continueEpochBuild).
NeverStranded ==
    /\ \/ ScanStatus = "Available"
       \/ ScanStatus = "Empty" /\ FactoryEmpty
    /\ Initialized /\ graph.intact => GraphUsable(Now.epoch)
    /\ \A r \in NeededWrites : Allowed(r) /\ Encodable(r)

\* Once a reset is reported, or a later epoch has booted, no secret of an
\* earlier epoch is accepted again, also when the handoff after the reset
\* fails half way (beginAuthorizedFactoryReset, resetAuthenticationState).
OldSecretsDead ==
    At("idle") /\ CredentialsActive => creds.epoch = seen.world

\* Whatever provisioning, a change of a secret, a spoilt handoff or the flash
\* left behind, a factory reset makes room for a new access domain.  The
\* exception is a Provisioned root whose credentials cannot be read, which
\* the inventory refuses for good (README).
ResetCures ==
    Initialized /\ ~(Known(root) /\ root.state = "Provisioned" /\ creds = Corrupt)
    => Inventory(Now.epoch + 1, TRUE)

\* Restarts, failed writes and lost outcomes buy no guesses: between two
\* lockouts that were sat out no more wrong secrets are answered than the
\* limit allows, and none is answered during a lockout (verifyWebPassword,
\* verifyServicePin, effectiveLockoutRemaining).
GuessesBounded == \A k \in Kinds : seen.tries[k] <= Attempts[k]

=============================================================================
