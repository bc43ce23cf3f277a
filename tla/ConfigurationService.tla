------------------------ MODULE ConfigurationService ------------------------
(***************************************************************************)
(* The previews, read leases and model reservations of                     *)
(* ConfigurationService between its locks.  A change copies the live       *)
(* configuration, shows the copy as the one visible preview, checks it     *)
(* against the revisions its caller saw and commits it.  Memory holds two  *)
(* full configurations: the active one and either a candidate or a retired *)
(* one that is still read.                                                 *)
(*                                                                         *)
(* Every step is one critical section of stateMutex_.  Readers come and go *)
(* between any two of them; changes, a factory reset and the resolution of *)
(* an unknown commit are kept apart by the application's call serializer   *)
(* (Serialised; without it the class alone loses a place, see the README). *)
(* What a user saw may be old when the change begins.  The store is module *)
(* ConfigurationGraphStore: here a commit only has an outcome.             *)
(* Reservations and handles are only compared, and a caller has at most    *)
(* one of each, so the caller stands for them.                             *)
(***************************************************************************)
EXTENDS Integers, FiniteSets

CONSTANTS
    None,
    Callers,        \* tasks that change the configuration
    Readers,        \* read leases that can be out
    Serialised,     \* whether applicationCallSerializer_ is entered first
    MaxReadLeases,  \* kMaxRuntimeConfigurationReadLeases
    MaxGeneration,  \* bound: configurations published
    MaxTrouble      \* bound: commits that fail, resets that are called off

Revisions == [gen: Nat, user: Nat, program: Nat, service: Nat]

Previews == [by: Callers, base: Nat, user: Nat, rev: Nat, noChange: BOOLEAN]

Contexts == [new: Revisions,
             cause: {"unknown", "postCommit", "target", "prepare"}]

ASSUME ServiceAssumption ==
    /\ Serialised \in BOOLEAN /\ MaxReadLeases \in Nat \ {0}
    /\ MaxGeneration \in Nat \ {0} /\ MaxTrouble \in Nat
    /\ IsFiniteSet(Readers)
    /\ None \notin Nat \cup Callers \cup {"admin"}
    /\ None \notin Previews /\ None \notin Contexts

VARIABLES
    mode,     \* ConfigurationServiceMode
    rev,      \* stateRevision_
    active,   \* [gen, user, program, service]: activeRuntime_ and its revisions
    slot,     \* the model budget (see EmptySlot)
    context,  \* resolutionContext_: [new, cause], or None
    held,     \* who holds the mutation lease, or None
    admin,    \* where the reset or the resolution is
    pc, job,  \* where a caller is; its change, what it saw, its build lease
    reading,  \* the generation a read lease holds, or None
    trouble

vars == <<mode, rev, active, slot, context, held, admin, pc, job, reading,
          trouble>>

Edits == {"user", "program", "service", "none"}

NoJob == [edit |-> "none", saw |-> 0, user |-> 0, base |-> 0, rev |-> 0]

\* reserved: previewModelReserved_; build, revoked: previewBuildReservation_;
\* visible, captured: the previews; retired, owner, oldLeases: the retired
\* generation, whether its owner still has it, and its read leases; leases:
\* read leases of the active generation.
EmptySlot == [reserved |-> FALSE, build |-> None, revoked |-> FALSE,
              visible |-> None, captured |-> None, retired |-> None,
              owner |-> FALSE, oldLeases |-> 0, leases |-> 0]

Init ==
    /\ mode = "Operational" /\ rev = 0
    /\ active = [gen |-> 1, user |-> 1, program |-> 1, service |-> 1]
    /\ slot = EmptySlot /\ context = None
    /\ held = None /\ admin = "idle"
    /\ pc = [c \in Callers |-> "idle"] /\ job = [c \in Callers |-> NoJob]
    /\ reading = [r \in Readers |-> None]
    /\ trouble = 0

-----------------------------------------------------------------------------
(* The model budget.                                                       *)

Retiring(s) == s.retired # None \/ s.owner

\* clearPreviewLocked
ClearPreview(s) ==
    LET full == s.visible # None /\ ~s.visible.noChange
        others == \/ s.captured # None \/ s.build # None
                  \/ context # None \/ Retiring(s)
    IN  [s EXCEPT !.visible = None,
                  !.reserved = IF full /\ ~others THEN FALSE ELSE @]

\* enterFailClosedLocked
FailClosed(s) ==
    ClearPreview([s EXCEPT !.revoked = @ \/ s.build # None])

\* Once the retired generation is gone its place is free.
Freed(s) ==
    [s EXCEPT !.retired = None,
              !.reserved = IF \/ s.build # None \/ s.visible # None
                              \/ s.captured # None \/ context # None
                           THEN @ ELSE FALSE]

\* publishPreparedLocked: the active generation becomes the retired one.
Published(s) ==
    [s EXCEPT !.retired = active.gen, !.oldLeases = s.leases, !.leases = 0,
              !.owner = TRUE]

\* Mutant: a generation counts as gone although it is still read.
RetirementUnread(s) == Freed([s EXCEPT !.owner = FALSE])

\* completeRuntimeRetirement
RetirementCompleted(s) ==
    LET done == [s EXCEPT !.owner = FALSE]
    IN  IF s.oldLeases = 0 THEN Freed(done) ELSE done

\* Mutant: the reader that leaves last keeps the place of its generation.
LeaseKept(s, gen) ==
    IF gen = active.gen THEN [s EXCEPT !.leases = @ - 1]
    ELSE IF gen = s.retired
         THEN LET rest == [s EXCEPT !.oldLeases = @ - 1]
              IN  IF rest.oldLeases = 0 /\ ~s.owner
                  THEN [rest EXCEPT !.retired = None] ELSE rest
         ELSE s

\* releaseRuntimeLease
LeaseReleased(s, gen) ==
    IF gen = active.gen THEN [s EXCEPT !.leases = @ - 1]
    ELSE IF gen = s.retired
         THEN LET rest == [s EXCEPT !.oldLeases = @ - 1]
              IN  IF rest.oldLeases = 0 /\ ~s.owner THEN Freed(rest) ELSE rest
         ELSE s

\* releasePreviewBuild: a stale lease releases nothing.
BuildReleased(s, c) ==
    IF s.build # c THEN s
    ELSE [s EXCEPT !.build = None, !.revoked = FALSE,
                   !.reserved = IF \/ s.visible # None \/ s.captured # None
                                   \/ context # None \/ Retiring(s)
                                   \/ admin \in {"prepared", "published"}
                                THEN @ ELSE FALSE]

-----------------------------------------------------------------------------
(* Readers.                                                                *)

\* acquireRuntime
Acquire(r) ==
    /\ reading[r] = None
    /\ mode = "Operational" /\ slot.leases + slot.oldLeases < MaxReadLeases
    /\ reading' = [reading EXCEPT ![r] = active.gen]
    /\ slot' = [slot EXCEPT !.leases = @ + 1]
    /\ UNCHANGED <<mode, rev, active, context, held, admin, pc, job, trouble>>

Release(r) ==
    /\ reading[r] # None
    /\ slot' = LeaseReleased(slot, reading[r])
    /\ reading' = [reading EXCEPT ![r] = None]
    /\ UNCHANGED <<mode, rev, active, context, held, admin, pc, job, trouble>>

-----------------------------------------------------------------------------
(* A change: commitConfigurationChange and applyProgramEdit.               *)

Step(c, from, to) == pc[c] = from /\ pc' = [pc EXCEPT ![c] = to]

\* applicationCallSerializer_.enter(): nobody else is in a change or a reset.
Enters ==
    Serialised => admin = "idle" /\ \A c \in Callers : pc[c] \in {"idle", "seen"}

Fault == trouble < MaxTrouble /\ trouble' = trouble + 1

\* A surface shows the configuration; its user decides on a change.
See(c, edit) ==
    /\ Step(c, "idle", "seen")
    /\ mode = "Operational" /\ active.gen < MaxGeneration
    /\ job' = [job EXCEPT ![c] =
         [NoJob EXCEPT !.edit = edit, !.user = active.user,
                       !.saw = IF edit = "program" THEN active.program
                               ELSE IF edit = "service" THEN active.service
                               ELSE 0]]
    /\ UNCHANGED <<mode, rev, active, slot, context, held, admin, reading,
                   trouble>>

BudgetFree == slot.build = None /\ ~slot.reserved /\ ~Retiring(slot)

\* A program edit names the catalog it was made from, a sensor commissioning
\* the service configuration.
SawCurrent(c) ==
    /\ job[c].edit = "program" => job[c].saw = active.program
    /\ job[c].edit = "service" => job[c].saw = active.service

\* beginPreview, first section: the place is reserved before the copy.  A
\* commissioning takes the user revision it expects from the configuration
\* its service revision was just compared with.
BeginPreview(c) ==
    /\ pc[c] = "seen" /\ Enters
    /\ IF mode = "Operational" /\ SawCurrent(c) /\ BudgetFree
       THEN /\ Step(c, "seen", "copying")
            /\ slot' = [slot EXCEPT !.build = c, !.revoked = FALSE,
                                    !.reserved = TRUE]
            /\ job' = [job EXCEPT ![c].base = active.gen, ![c].rev = rev,
                                  ![c].user = IF job[c].edit = "service"
                                              THEN active.user ELSE @]
       ELSE Step(c, "seen", "idle") /\ UNCHANGED <<slot, job>>
    /\ UNCHANGED <<mode, rev, active, context, held, admin, reading, trouble>>

\* The build lease still stands for the configuration it was copied from.
LeaseCurrent(c) ==
    /\ slot.build = c /\ ~slot.revoked
    /\ mode = "Operational" /\ rev = job[c].rev /\ active.gen = job[c].base

\* beginPreview, second section.
FinishCopy(c) ==
    /\ IF LeaseCurrent(c)
       THEN Step(c, "copying", "built") /\ UNCHANGED slot
       ELSE /\ Step(c, "copying", "idle")
            /\ slot' = IF slot.build = c
                       THEN [slot EXCEPT !.build = None, !.revoked = FALSE,
                                         !.reserved = FALSE]
                       ELSE slot
    /\ UNCHANGED <<mode, rev, active, context, held, admin, job, reading,
                   trouble>>

Preview(c) == [by |-> c, base |-> job[c].base, user |-> active.user,
               rev |-> job[c].rev, noChange |-> job[c].edit = "none"]

\* installPreview.  A candidate that is not valid, or whose basis moved, is
\* given up with its lease.
InstallPreview(c) ==
    /\ \/ /\ LeaseCurrent(c)
          /\ Step(c, "built", "installed")
          /\ slot' = [slot EXCEPT !.visible = Preview(c), !.build = None,
                                  !.revoked = FALSE,
                                  !.reserved = job[c].edit # "none"]
       \/ /\ Step(c, "built", "idle")
          /\ slot' = BuildReleased(slot, c)
    /\ UNCHANGED <<mode, rev, active, context, held, admin, job, reading,
                   trouble>>

\* Mutant: the revision the caller saw is not compared.
OwnPreview(c, user) ==
    /\ mode = "Operational" /\ slot.captured = None
    /\ slot.visible # None /\ slot.visible.by = c

\* validatePreviewForConfirmationLocked
Confirmable(c, user) ==
    /\ mode = "Operational" /\ slot.captured = None
    /\ slot.visible # None /\ slot.visible.by = c
    /\ slot.visible.user = user /\ active.user = user
    /\ rev = slot.visible.rev /\ active.gen = slot.visible.base

Validate(c) ==
    /\ IF Confirmable(c, job[c].user) THEN Step(c, "installed", "validated")
       ELSE Step(c, "installed", "cancel")
    /\ UNCHANGED <<mode, rev, active, slot, context, held, admin, job, reading,
                   trouble>>

\* cancelPreview: the preview goes first, its place in a section of its own.
CancelPreview(c) ==
    LET mine == slot.visible # None /\ slot.visible.by = c
    IN  /\ IF mine /\ ~slot.visible.noChange THEN Step(c, "cancel", "cancelled")
           ELSE Step(c, "cancel", "idle")
        /\ slot' = IF mine THEN [slot EXCEPT !.visible = None] ELSE slot
        /\ UNCHANGED <<mode, rev, active, context, held, admin, job, reading,
                       trouble>>

CancelEnds(c) ==
    /\ Step(c, "cancelled", "idle")
    /\ slot' = IF \/ slot.captured # None \/ slot.build # None
                  \/ context # None \/ Retiring(slot)
               THEN slot ELSE [slot EXCEPT !.reserved = FALSE]
    /\ UNCHANGED <<mode, rev, active, context, held, admin, job, reading,
                   trouble>>

\* confirmPreview up to the capture; nothing to change ends here.
Capture(c) ==
    /\ IF mode = "Operational" /\ slot.visible # None
          /\ Confirmable(c, slot.visible.user)
       THEN IF slot.visible.noChange
            THEN Step(c, "validated", "idle") /\ slot' = ClearPreview(slot)
            ELSE /\ Step(c, "validated", "captured")
                 /\ slot' = [slot EXCEPT !.captured = slot.visible,
                                         !.visible = None]
       ELSE /\ Step(c, "validated", "cancel")
            /\ slot' = IF /\ mode = "Operational" /\ slot.captured = None
                          /\ slot.visible # None /\ slot.visible.by = c
                          /\ slot.visible.noChange
                       THEN ClearPreview(slot) ELSE slot
    /\ UNCHANGED <<mode, rev, active, context, held, admin, job, reading,
                   trouble>>

\* The mutation lease is taken, or there is no memory for the commit: then the
\* preview is visible again.
Lock(c) ==
    /\ \/ /\ held = None /\ held' = c
          /\ Step(c, "captured", "locked")
          /\ UNCHANGED <<slot, trouble>>
       \/ /\ IF held = None THEN Fault ELSE UNCHANGED trouble
          /\ Step(c, "captured", "cancel")
          /\ slot' = IF mode = "Operational" /\ slot.visible = None
                     THEN [slot EXCEPT !.visible = slot.captured,
                                       !.captured = None]
                     ELSE slot
          /\ UNCHANGED held
    /\ UNCHANGED <<mode, rev, active, context, admin, job, reading>>

\* Once more the basis and the integrity of the candidate, then the commit is
\* in progress.
BeginCommit(c) ==
    /\ pc[c] = "locked"
    /\ \/ /\ mode = "Operational" /\ active.gen = slot.captured.base
          /\ Step(c, "locked", "commit")
          /\ mode' = "CommitInProgress" /\ rev' = rev + 1
          /\ UNCHANGED <<slot, trouble>>
       \/ /\ Fault
          /\ Step(c, "locked", "failed")
          /\ slot' = [slot EXCEPT !.captured = None]
          /\ UNCHANGED <<mode, rev>>
    /\ UNCHANGED <<active, context, held, admin, job, reading>>

\* The configuration a change of this caller makes of the active one.
Changed(edit) ==
    LET next == [active EXCEPT !.gen = @ + 1]
    IN  [next EXCEPT ![edit] = @ + 1]

\* The store activated the new graph.
Publish(c) ==
    /\ Step(c, "commit", "retire")
    /\ active' = Changed(job[c].edit)
    /\ slot' = [Published(slot) EXCEPT !.captured = None]
    /\ UNCHANGED <<mode, rev, context, held, admin, job, reading, trouble>>

Retire(c) ==
    /\ Step(c, "retire", "ending")
    /\ slot' = RetirementCompleted(slot)
    /\ UNCHANGED <<mode, rev, active, context, held, admin, job, reading,
                   trouble>>

EndCommit(c) ==
    /\ Step(c, "ending", "idle")
    /\ mode' = "Operational" /\ rev' = rev + 1 /\ held' = None
    /\ UNCHANGED <<active, slot, context, admin, job, reading, trouble>>

\* The commit provably failed: the old configuration goes on.
CommitFails(c) ==
    /\ Fault
    /\ Step(c, "commit", "failed")
    /\ slot' = [slot EXCEPT !.captured = None]
    /\ UNCHANGED <<mode, rev, active, context, held, admin, job, reading>>

EndFailed(c) ==
    /\ Step(c, "failed", "cancel")
    /\ slot' = [slot EXCEPT !.reserved = FALSE]
    /\ mode' = "Operational"
    /\ rev' = IF mode = "CommitInProgress" THEN rev + 1 ELSE rev
    /\ held' = None
    /\ UNCHANGED <<active, context, admin, job, reading, trouble>>

\* Whether it took effect is unknown ("unknown"), its verification failed
\* before ("target") or after ("postCommit") the root write: the service closes
\* and keeps what a resolution needs.  When the store could not even be read to
\* prepare the commit ("prepare") it keeps nothing and stays closed.
CommitUnresolved(c, cause) ==
    /\ Fault
    /\ Step(c, "commit", "cancel")
    /\ context' = IF cause = "prepare" THEN None
                  ELSE [new |-> Changed(job[c].edit), cause |-> cause]
    /\ mode' = IF cause = "unknown" THEN "CommitIndeterminate"
               ELSE "RuntimeFailure"
    /\ rev' = rev + 1
    /\ slot' = FailClosed([slot EXCEPT !.captured = None,
                                      !.reserved = cause # "prepare"])
    /\ held' = None
    /\ UNCHANGED <<active, admin, job, reading>>

-----------------------------------------------------------------------------
(* resolveIndeterminate, recoverRuntimeFailure.  They and the reset take   *)
(* the mutation lease first and leave with it when they may not go on.     *)

AdminStep(from, to) == admin = from /\ admin' = to

AdminLocks ==
    /\ AdminStep("idle", "locked")
    /\ Enters /\ held = None /\ held' = "admin"
    /\ UNCHANGED <<mode, rev, active, slot, context, pc, job, reading, trouble>>

AdminLeaves ==
    /\ AdminStep("locked", "idle") /\ held' = None
    /\ UNCHANGED <<mode, rev, active, slot, context, pc, job, reading, trouble>>

Resolvable == mode \in {"CommitIndeterminate", "RuntimeFailure"} /\ context # None

\* The commit had no effect: the old configuration goes on.
ResolveOld ==
    /\ AdminStep("locked", "old")
    /\ Resolvable /\ context.cause \in {"unknown", "target"}
    /\ context' = None
    /\ UNCHANGED <<mode, rev, active, slot, held, pc, job, reading, trouble>>

ResolveNew ==
    /\ AdminStep("locked", "retire")
    /\ Resolvable /\ context.cause \in {"unknown", "postCommit"}
    /\ active' = context.new
    /\ slot' = Published(slot)
    /\ context' = None
    /\ UNCHANGED <<mode, rev, held, pc, job, reading, trouble>>

\* The store holds neither, or the runtime cannot be built.
ResolveFails ==
    /\ AdminStep("locked", "idle") /\ held' = None
    /\ mode = "CommitIndeterminate" /\ mode' = "RuntimeFailure"
    /\ rev' = rev + 1
    /\ context' = [context EXCEPT !.cause = "postCommit"]
    /\ slot' = FailClosed(slot)
    /\ UNCHANGED <<active, pc, job, reading, trouble>>

ResolveRetires ==
    /\ AdminStep("retire", "new")
    /\ slot' = RetirementCompleted(slot)
    /\ UNCHANGED <<mode, rev, active, context, held, pc, job, reading, trouble>>

ResolveEnds ==
    /\ admin \in {"old", "new"} /\ admin' = "idle"
    /\ slot' = IF admin = "old" THEN [slot EXCEPT !.reserved = FALSE] ELSE slot
    /\ mode' = "Operational" /\ rev' = rev + 1 /\ held' = None
    /\ UNCHANGED <<active, context, pc, job, reading, trouble>>

-----------------------------------------------------------------------------
(* A factory reset (the bootstrap records: module Bootstrap).              *)

\* beginRecovery: not while a model is captured, copied or retired.
ResetBegins ==
    /\ AdminStep("locked", "preparing")
    /\ mode = "Operational" /\ active.gen < MaxGeneration
    /\ slot.captured = None /\ slot.build = None /\ ~Retiring(slot)
    /\ mode' = "ResetPreparing" /\ rev' = rev + 1
    /\ slot' = [ClearPreview(slot) EXCEPT !.reserved = TRUE]
    /\ UNCHANGED <<active, context, held, pc, job, reading, trouble>>

\* cancelRecovery
ResetCancelled ==
    /\ AdminStep("preparing", "idle") /\ Fault
    /\ mode' = "Operational" /\ rev' = rev + 1 /\ held' = None
    /\ slot' = IF Retiring(slot) THEN slot ELSE [slot EXCEPT !.reserved = FALSE]
    /\ UNCHANGED <<active, context, pc, job, reading>>

\* prepareRecoveredGraph
ResetPrepares ==
    /\ AdminStep("preparing", "prepared")
    /\ mode' = "EpochResetting" /\ rev' = rev + 1
    /\ slot' = [slot EXCEPT !.reserved = TRUE]
    /\ UNCHANGED <<active, context, held, pc, job, reading, trouble>>

\* publishRecoveredGraph.  The revisions start anew; what the surfaces showed
\* before is gone with their sessions.
ResetPublishes ==
    /\ AdminStep("prepared", "published")
    /\ active' = [gen |-> active.gen + 1, user |-> 1, program |-> 1,
                  service |-> 1]
    /\ slot' = Published(slot)
    /\ mode' = "BootstrapFinalizationPending" /\ rev' = rev + 1
    /\ pc' = [c \in Callers |-> IF pc[c] = "seen" THEN "idle" ELSE pc[c]]
    /\ UNCHANGED <<context, held, job, reading, trouble>>

ResetRetires ==
    /\ AdminStep("published", "finalize")
    /\ slot' = RetirementCompleted(slot)
    /\ UNCHANGED <<mode, rev, active, context, held, pc, job, reading, trouble>>

\* finalizeRecoveredGraph
ResetFinalizes ==
    /\ AdminStep("finalize", "idle")
    /\ mode' = "Operational" /\ rev' = rev + 1 /\ held' = None
    /\ UNCHANGED <<active, slot, context, pc, job, reading, trouble>>

-----------------------------------------------------------------------------
ChangeNext(c) ==
    \/ \E edit \in Edits : See(c, edit)
    \/ BeginPreview(c) \/ FinishCopy(c) \/ InstallPreview(c)
    \/ Validate(c) \/ CancelPreview(c) \/ CancelEnds(c)
    \/ Capture(c) \/ Lock(c) \/ BeginCommit(c)
    \/ Publish(c) \/ Retire(c) \/ EndCommit(c)
    \/ CommitFails(c) \/ EndFailed(c)
    \/ \E cause \in {"unknown", "postCommit", "target", "prepare"} :
         CommitUnresolved(c, cause)

Next ==
    \/ \E r \in Readers : Acquire(r) \/ Release(r)
    \/ \E c \in Callers : ChangeNext(c)
    \/ AdminLocks \/ AdminLeaves
    \/ ResolveOld \/ ResolveNew \/ ResolveFails \/ ResolveRetires \/ ResolveEnds
    \/ ResetBegins \/ ResetCancelled \/ ResetPrepares \/ ResetPublishes
    \/ ResetRetires \/ ResetFinalizes

Spec == Init /\ [][Next]_vars

-----------------------------------------------------------------------------
(* Properties.                                                             *)

\* Candidates that exist: copied, shown, captured or kept for a resolution.
\* One that is being destroyed no longer counts (README).
Candidates ==
    {c \in Callers : pc[c] \in {"copying", "built"}}
    \cup {p.by : p \in {q \in {slot.visible, slot.captured} :
                          q # None /\ ~q.noChange}}
    \cup (IF context # None \/ admin = "prepared" THEN {"admin"} ELSE {})

\* Retired generations that somebody still holds.
RetiredHeld ==
    ({reading[r] : r \in Readers} \ {None, active.gen})
    \cup (IF slot.owner THEN {slot.retired} ELSE {})

\* At no time do more than two full configurations exist, however readers hold
\* on to an old one while changes, resolutions and resets make new ones:
\* docs/CONFIGURATION_PERSISTENCE.md:789, "hoechstens zwei unterschiedliche
\* vollstaendige Konfigurationsmodellgenerationen" (previewModelReserved_).
ModelBudget == Cardinality(Candidates) + Cardinality(RetiredHeld) <= 1

\* No way through a change, its cancellation, a failed commit, a resolution or
\* a reset leaves the place of a model, the mutation lease or the visible
\* preview behind: when all are done and no reader holds the retired
\* generation, the next change can begin (commitConfigurationChange, "every
\* exit ... releases the one visible preview slot").
SlotReturned ==
    (/\ \A c \in Callers : pc[c] \in {"idle", "seen"}
     /\ admin = "idle" /\ mode = "Operational" /\ RetiredHeld = {})
    => BudgetFree /\ held = None /\ slot.visible = None /\ slot.captured = None

\* A change is published only on top of the configuration it was made from:
\* its user saw these user settings, a program edit this catalog, a
\* commissioning this service configuration, and nothing of what others
\* committed meanwhile is undone (validatePreviewForConfirmationLocked,
\* beginPreview, applySensorCommissioning).
StaleEditRefused ==
    [][\A c \in Callers :
         pc[c] = "commit" /\ pc'[c] = "retire" =>
           /\ job[c].user = active.user /\ job[c].base = active.gen
           /\ SawCurrent(c)]_vars

=============================================================================
