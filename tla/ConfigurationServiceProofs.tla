--------------------- MODULE ConfigurationServiceProofs ---------------------
(***************************************************************************)
(* Proofs about ConfigurationService, for any number of callers, readers,  *)
(* read leases, configurations and failures, under the application's call  *)
(* serializer.                                                             *)
(*                                                                         *)
(* previewModelReserved_ is one bit for the place of a second full model;  *)
(* who it stands for follows from where the one active caller, the reset   *)
(* or the resolution is.  The inductive invariant says so stage by stage,  *)
(* and that the lease counters count the readers they stand for.           *)
(***************************************************************************)
EXTENDS ConfigurationService, FiniteSetTheorems, TLAPS

Jobs == [edit: Edits, saw: Nat, user: Nat, base: Nat, rev: Nat]

Slots == [reserved: BOOLEAN, build: Callers \cup {None}, revoked: BOOLEAN,
          visible: Previews \cup {None}, captured: Previews \cup {None},
          retired: Nat \cup {None}, owner: BOOLEAN, oldLeases: Nat,
          leases: Nat]

ChangeStages == {"idle", "seen", "copying", "built", "installed", "validated",
                 "captured", "locked", "commit", "retire", "ending", "failed",
                 "cancel", "cancelled"}

AdminStages == {"idle", "locked", "old", "retire", "new", "preparing",
                "prepared", "published", "finalize"}

Modes == {"Operational", "CommitInProgress", "CommitIndeterminate",
          "RuntimeFailure", "ResetPreparing", "EpochResetting",
          "BootstrapFinalizationPending"}

\* Type correctness of the service.
ServiceTypeOK ==
  /\ mode \in Modes /\ rev \in Nat /\ active \in Revisions
  /\ slot \in Slots /\ context \in Contexts \cup {None}
  /\ held \in Callers \cup {"admin", None} /\ admin \in AdminStages
  /\ pc \in [Callers -> ChangeStages] /\ job \in [Callers -> Jobs]
  /\ reading \in [Readers -> Nat \cup {None}]
  /\ trouble \in Nat

-----------------------------------------------------------------------------
(* The inductive invariant *)

Rests(c) == pc[c] \in {"idle", "seen"}

\* At most one caller, or the reset or the resolution, is at work.
Alone ==
  /\ \A c, d \in Callers : ~Rests(c) /\ ~Rests(d) => c = d
  /\ admin # "idle" => \A c \in Callers : Rests(c)

NewReaders == {r \in Readers : reading[r] = active.gen}

OldReaders == {r \in Readers : reading[r] \notin {None, active.gen}}

\* The counters count the readers of the active and of the retired generation,
\* and a retired generation is kept only for somebody.
LeasesCounted ==
  /\ slot.leases = Cardinality(NewReaders)
  /\ slot.oldLeases = Cardinality(OldReaders)
  /\ \A r \in Readers : reading[r] \in {None, active.gen, slot.retired}
  /\ slot.owner => slot.retired # None
  /\ slot.retired # None =>
       /\ slot.retired < active.gen
       /\ slot.owner \/ slot.oldLeases # 0

\* What is kept for a resolution is the next generation of a closed service.
ContextKept ==
  /\ context # None =>
       /\ mode \in {"CommitIndeterminate", "RuntimeFailure"}
       /\ slot.retired = None
       /\ context.new.gen = active.gen + 1
  /\ mode = "CommitIndeterminate" /\ admin \in {"idle", "locked"} =>
       context # None

\* No candidate is copied, shown or captured.
NoModel == slot.build = None /\ slot.visible = None /\ slot.captured = None

Vacant == context = None /\ slot.retired = None

\* The place is reserved exactly for a retired generation.
PlaceOfRetired == ~slot.owner /\ (slot.reserved <=> slot.retired # None)

Building(c) ==
  /\ slot.build = c /\ slot.visible = None /\ slot.captured = None
  /\ slot.reserved /\ Vacant /\ held = None

Showing(c) ==
  /\ slot.build = None /\ slot.visible # None /\ slot.captured = None
  /\ slot.visible.by = c
  /\ slot.reserved <=> ~slot.visible.noChange
  /\ Vacant /\ held = None /\ mode = "Operational"

Capturing(c) ==
  /\ slot.build = None /\ slot.visible = None /\ slot.captured # None
  /\ slot.captured.by = c /\ ~slot.captured.noChange
  /\ slot.reserved /\ Vacant

\* The change rests on the configuration that is still active.
OnTop(c) == job[c].base = active.gen /\ SawCurrent(c)

\* What holds while caller c is at work, by its stage.
Busy(c) ==
  /\ pc[c] \in {"copying", "built"} =>
       Building(c) /\ OnTop(c) /\ mode = "Operational"
  /\ pc[c] \in {"installed", "validated"} =>
       /\ Showing(c) /\ OnTop(c)
       /\ slot.visible.noChange <=> job[c].edit = "none"
  /\ pc[c] \in {"validated", "captured", "locked", "commit"} =>
       job[c].user = active.user
  /\ pc[c] \in {"captured", "locked", "commit"} =>
       /\ Capturing(c) /\ OnTop(c) /\ job[c].edit # "none"
       /\ held = IF pc[c] = "captured" THEN None ELSE c
       /\ mode = IF pc[c] = "commit" THEN "CommitInProgress" ELSE "Operational"
  /\ pc[c] = "retire" =>
       NoModel /\ context = None /\ slot.owner /\ slot.reserved /\ held = c
  /\ pc[c] = "ending" =>
       NoModel /\ context = None /\ PlaceOfRetired /\ held = c
  /\ pc[c] = "failed" => NoModel /\ Vacant /\ slot.reserved /\ held = c
  /\ pc[c] = "cancel" =>
       \/ Showing(c)
       \/ /\ NoModel /\ slot.retired = None /\ held = None
          /\ slot.reserved <=> context # None
          /\ mode \in {"Operational", "CommitIndeterminate", "RuntimeFailure"}
  /\ pc[c] = "cancelled" =>
       /\ NoModel /\ Vacant /\ slot.reserved /\ held = None
       /\ mode = "Operational"

\* What holds while no caller is at work, by the stage of the reset or the
\* resolution.
Calm ==
  /\ NoModel
  /\ held = IF admin = "idle" THEN None ELSE "admin"
  /\ admin \in {"idle", "locked"} =>
       /\ mode \in {"Operational", "CommitIndeterminate", "RuntimeFailure"}
       /\ ~slot.owner
       /\ slot.reserved <=> context # None \/ slot.retired # None
  /\ admin \in {"old", "preparing", "prepared"} => Vacant /\ slot.reserved
  /\ admin \in {"retire", "published"} =>
       context = None /\ slot.owner /\ slot.reserved
  /\ admin \in {"new", "finalize"} => context = None /\ PlaceOfRetired

Staged ==
  /\ \A c \in Callers : ~Rests(c) => Busy(c)
  /\ (\A c \in Callers : Rests(c)) => Calm

ServiceInv ==
  /\ ServiceTypeOK /\ Alone /\ LeasesCounted /\ ContextKept /\ Staged

-----------------------------------------------------------------------------
(* Frames *)

\* Work of a caller that enters or is at work: everybody else rests, and the
\* stage it reaches decides what is left to show.
LEMMA StageChange ==
  ASSUME ServiceInv, Serialised, NEW c \in Callers, NEW to \in ChangeStages,
         ~Rests(c) \/ Enters,
         pc' = [pc EXCEPT ![c] = to], admin' = admin
  PROVE  /\ admin = "idle" /\ pc'[c] = to /\ pc' \in [Callers -> ChangeStages]
         /\ Alone'
         /\ to \notin {"idle", "seen"} /\ Busy(c)' => Staged'
         /\ to \in {"idle", "seen"} /\ Calm' => Staged'
<1>1. admin = "idle" /\ \A d \in Callers \ {c} : Rests(d)
  BY DEF ServiceInv, Alone, Enters, Rests
<1>2. pc'[c] = to /\ pc' \in [Callers -> ChangeStages]
  BY DEF ServiceInv, ServiceTypeOK
<1>3. \A d \in Callers \ {c} : Rests(d)'
  BY <1>1 DEF ServiceInv, ServiceTypeOK, Rests
<1>4. Alone'
  BY <1>1, <1>3 DEF Alone
<1>5. to \notin {"idle", "seen"} /\ Busy(c)' => Staged'
  BY <1>2, <1>3 DEF Staged, Rests
<1>6. to \in {"idle", "seen"} /\ Calm' => Staged'
  BY <1>2, <1>3 DEF Staged, Rests
<1> QED
  BY <1>1, <1>2, <1>4, <1>5, <1>6

\* What a caller at work knows.
LEMMA AtWork ==
  ASSUME ServiceInv, NEW c \in Callers, ~Rests(c)
  PROVE  Busy(c) /\ admin = "idle"
BY DEF ServiceInv, Staged, Alone

\* Leases are counted as long as readers and generations stay.
LEMMA LeasesFrame ==
  ASSUME LeasesCounted, UNCHANGED <<reading, active>>,
         slot'.leases = slot.leases, slot'.oldLeases = slot.oldLeases,
         slot'.retired = slot.retired, slot'.owner = slot.owner
  PROVE  LeasesCounted'
BY DEF LeasesCounted, NewReaders, OldReaders

\* publishPreparedLocked: all readers there are now read the retired generation.
LEMMA LeasesPublished ==
  ASSUME LeasesCounted, active \in Revisions, active'.gen = active.gen + 1,
         UNCHANGED reading, slot.retired = None,
         slot'.leases = 0, slot'.oldLeases = slot.leases,
         slot'.retired = active.gen, slot'.owner = TRUE
  PROVE  LeasesCounted'
<1>1. active.gen \in Nat /\ active.gen # None /\ active.gen + 1 # None
  BY ServiceAssumption DEF Revisions
<1>2. \A r \in Readers : reading[r] \in {None, active.gen}
  BY DEF LeasesCounted
<1>3. NewReaders' = {} /\ OldReaders' = NewReaders
  BY <1>1, <1>2 DEF NewReaders, OldReaders
<1>4. Cardinality({}) = 0
  BY FS_EmptySet
<1> QED
  BY <1>1, <1>2, <1>3, <1>4 DEF LeasesCounted

\* No reader of an old generation is left when none is counted.
LEMMA NoOldReaders ==
  ASSUME LeasesCounted, slot.oldLeases = 0
  PROVE  \A r \in Readers : reading[r] \in {None, active.gen}
<1>1. IsFiniteSet(OldReaders)
  BY ServiceAssumption, FS_Subset DEF OldReaders
<1>2. OldReaders = {}
  BY <1>1, FS_EmptySet DEF LeasesCounted
<1> QED
  BY <1>2 DEF OldReaders, LeasesCounted

\* completeRuntimeRetirement by the owner of the place.
LEMMA RetirementEffect ==
  ASSUME slot \in Slots, LeasesCounted, NoModel, context = None,
         slot.owner, slot.reserved,
         slot' = RetirementCompleted(slot), UNCHANGED <<active, reading>>
  PROVE  /\ slot' \in Slots /\ LeasesCounted' /\ NoModel' /\ PlaceOfRetired'
         /\ slot'.retired \in {None, slot.retired}
<1>1. CASE slot.oldLeases = 0
  <2>1. slot' = [slot EXCEPT !.owner = FALSE, !.retired = None,
                             !.reserved = FALSE]
    BY <1>1 DEF RetirementCompleted, Freed, NoModel, Slots
  <2>2. /\ slot' \in Slots /\ slot'.owner = FALSE /\ slot'.retired = None
        /\ slot'.reserved = FALSE /\ slot'.leases = slot.leases
        /\ slot'.oldLeases = slot.oldLeases /\ slot'.build = slot.build
        /\ slot'.visible = slot.visible /\ slot'.captured = slot.captured
    BY <2>1 DEF Slots
  <2>3. LeasesCounted'
    BY <1>1, <2>2, NoOldReaders DEF LeasesCounted, NewReaders, OldReaders
  <2> QED
    BY <2>2, <2>3 DEF NoModel, PlaceOfRetired
<1>2. CASE slot.oldLeases # 0
  <2>1. slot' = [slot EXCEPT !.owner = FALSE]
    BY <1>2 DEF RetirementCompleted
  <2>2. /\ slot' \in Slots /\ slot'.owner = FALSE
        /\ slot'.retired = slot.retired
        /\ slot'.reserved = slot.reserved /\ slot'.leases = slot.leases
        /\ slot'.oldLeases = slot.oldLeases /\ slot'.build = slot.build
        /\ slot'.visible = slot.visible /\ slot'.captured = slot.captured
    BY <2>1 DEF Slots
  <2>3. slot.retired # None
    BY DEF LeasesCounted
  <2> QED
    BY <1>2, <2>2, <2>3 DEF NoModel, PlaceOfRetired, LeasesCounted, NewReaders,
                            OldReaders
<1> QED
  BY <1>1, <1>2

\* A change makes the next generation.
LEMMA ChangedType ==
  ASSUME active \in Revisions, NEW edit \in Edits
  PROVE  Changed(edit) \in Revisions /\ Changed(edit).gen = active.gen + 1
<1> DEFINE next == [active EXCEPT !.gen = @ + 1]
<1>1. next \in Revisions /\ next.gen = active.gen + 1
  BY DEF Revisions
<1>2. Changed(edit) = [next EXCEPT ![edit] = @ + 1]
  BY DEF Changed
<1> HIDE DEF next
<1>3. CASE edit = "user"
  BY <1>1, <1>2, <1>3 DEF Revisions
<1>4. CASE edit = "program"
  BY <1>1, <1>2, <1>4 DEF Revisions
<1>5. CASE edit = "service"
  BY <1>1, <1>2, <1>5 DEF Revisions
<1>6. CASE edit = "none"
  BY <1>1, <1>2, <1>6 DEF Revisions
<1> QED
  BY <1>3, <1>4, <1>5, <1>6 DEF Edits

-----------------------------------------------------------------------------
(* Steps of a change *)

\* The step leaves generations and their leases alone.
SameLeases ==
  /\ slot' \in Slots /\ UNCHANGED <<active, reading>>
  /\ slot'.leases = slot.leases /\ slot'.oldLeases = slot.oldLeases
  /\ slot'.retired = slot.retired /\ slot'.owner = slot.owner

\* What a step of a caller to a stage has to show.
Reaches(c, to) == IF to \in {"idle", "seen"} THEN Calm' ELSE Busy(c)'

\* A step of a caller that moves only its own stage and the slot.
LEMMA SlotStep ==
  ASSUME ServiceInv, Serialised, NEW c \in Callers, NEW to \in ChangeStages,
         ~Rests(c), pc' = [pc EXCEPT ![c] = to],
         UNCHANGED <<mode, rev, context, held, admin, job, trouble>>,
         SameLeases, Reaches(c, to)
  PROVE  ServiceInv'
<1>1. /\ pc' \in [Callers -> ChangeStages] /\ Alone' /\ Staged'
  BY StageChange DEF Reaches
<1>2. ServiceTypeOK'
  BY <1>1 DEF ServiceInv, ServiceTypeOK, SameLeases
<1>3. LeasesCounted' /\ ContextKept'
  BY LeasesFrame DEF ServiceInv, ContextKept, SameLeases
<1> QED
  BY <1>1, <1>2, <1>3 DEF ServiceInv

\* A surface is read: nobody's work is touched.
LEMMA SeeInv ==
  ASSUME ServiceInv, NEW c \in Callers, NEW edit \in Edits, See(c, edit)
  PROVE  ServiceInv'
<1>1. /\ pc[c] = "idle" /\ pc' = [pc EXCEPT ![c] = "seen"]
      /\ UNCHANGED <<mode, rev, active, slot, context, held, admin, reading,
                     trouble>>
  BY DEF See, Step
<1>2. PICK saw \in Nat : job' = [job EXCEPT ![c] =
        [NoJob EXCEPT !.edit = edit, !.user = active.user, !.saw = saw]]
  BY DEF See, ServiceInv, ServiceTypeOK, Revisions
<1>3. [NoJob EXCEPT !.edit = edit, !.user = active.user, !.saw = saw] \in Jobs
  BY DEF NoJob, Jobs, ServiceInv, ServiceTypeOK, Revisions
<1>4. /\ pc' \in [Callers -> ChangeStages] /\ job' \in [Callers -> Jobs]
      /\ \A d \in Callers : Rests(d)' <=> Rests(d)
      /\ \A d \in Callers : ~Rests(d) => pc'[d] = pc[d] /\ job'[d] = job[d]
  BY <1>1, <1>2, <1>3 DEF ServiceInv, ServiceTypeOK, ChangeStages, Rests
<1>5. ServiceTypeOK' /\ Alone' /\ LeasesCounted' /\ ContextKept'
  BY <1>1, <1>4, LeasesFrame DEF ServiceInv, ServiceTypeOK, Alone, ContextKept
<1>6. \A d \in Callers : ~Rests(d) /\ Busy(d) => Busy(d)'
  BY <1>1, <1>4 DEF Busy, Building, Showing, Capturing, Vacant, NoModel,
                    PlaceOfRetired, OnTop, SawCurrent
<1>7. Calm => Calm'
  BY <1>1 DEF Calm, NoModel, Vacant, PlaceOfRetired
<1> QED
  BY <1>4, <1>5, <1>6, <1>7 DEF ServiceInv, Staged

\* beginPreview, first section.
LEMMA BeginPreviewInv ==
  ASSUME ServiceInv, Serialised, NEW c \in Callers, BeginPreview(c)
  PROVE  ServiceInv'
<1>1. /\ pc[c] = "seen" /\ Enters
      /\ UNCHANGED <<mode, rev, active, context, held, admin, reading, trouble>>
  BY DEF BeginPreview
<1>2. Calm /\ admin = "idle"
  BY <1>1 DEF ServiceInv, Staged, Enters, Rests
<1>3. CASE mode = "Operational" /\ SawCurrent(c) /\ BudgetFree
  <2> DEFINE j == [job[c] EXCEPT !.base = active.gen, !.rev = rev,
                                 !.user = IF job[c].edit = "service"
                                          THEN active.user ELSE @]
  <2>1. /\ pc' = [pc EXCEPT ![c] = "copying"]
        /\ slot' = [slot EXCEPT !.build = c, !.revoked = FALSE,
                                !.reserved = TRUE]
        /\ job' = [job EXCEPT ![c] = j]
    BY <1>3 DEF BeginPreview, Step, ServiceInv, ServiceTypeOK
  <2>2. /\ j \in Jobs /\ j.base = active.gen /\ j.edit = job[c].edit
        /\ j.saw = job[c].saw
    BY DEF ServiceInv, ServiceTypeOK, Jobs, Revisions
  <2> HIDE DEF j
  <2>3. job' \in [Callers -> Jobs] /\ job'[c] = j
    BY <2>1, <2>2 DEF ServiceInv, ServiceTypeOK
  <2>4. /\ Alone' /\ (Busy(c)' => Staged') /\ pc'[c] = "copying"
        /\ pc' \in [Callers -> ChangeStages]
    BY <1>1, <2>1, StageChange DEF ChangeStages
  <2>5. /\ slot' \in Slots /\ slot'.build = c /\ slot'.reserved
        /\ slot'.visible = slot.visible /\ slot'.captured = slot.captured
        /\ slot'.retired = slot.retired /\ slot'.owner = slot.owner
        /\ slot'.leases = slot.leases /\ slot'.oldLeases = slot.oldLeases
    BY <2>1 DEF ServiceInv, ServiceTypeOK, Slots
  <2>6. ServiceTypeOK'
    BY <1>1, <2>3, <2>4, <2>5 DEF ServiceInv, ServiceTypeOK
  <2>7. LeasesCounted' /\ ContextKept'
    BY <1>1, <2>5, LeasesFrame DEF ServiceInv, ContextKept
  <2>8. context = None
    BY <1>3 DEF ServiceInv, ContextKept
  <2>9. Busy(c)'
    BY <1>1, <1>2, <1>3, <2>2, <2>3, <2>4, <2>5, <2>8
       DEF Busy, Building, Vacant, OnTop, SawCurrent, Calm, NoModel, BudgetFree,
           Retiring
  <2> QED
    BY <2>4, <2>6, <2>7, <2>9 DEF ServiceInv
<1>4. CASE ~(mode = "Operational" /\ SawCurrent(c) /\ BudgetFree)
  <2>1. pc' = [pc EXCEPT ![c] = "idle"] /\ UNCHANGED <<slot, job>>
    BY <1>4 DEF BeginPreview, Step
  <2>2. Alone' /\ (Calm' => Staged') /\ pc' \in [Callers -> ChangeStages]
    BY <1>1, <2>1, StageChange DEF ChangeStages
  <2>3. ServiceTypeOK' /\ LeasesCounted' /\ ContextKept'
    BY <1>1, <2>1, <2>2, LeasesFrame DEF ServiceInv, ServiceTypeOK, ContextKept
  <2>4. Calm'
    BY <1>1, <1>2, <2>1 DEF Calm, NoModel, Vacant, PlaceOfRetired
  <2> QED
    BY <2>2, <2>3, <2>4 DEF ServiceInv
<1> QED
  BY <1>3, <1>4

\* beginPreview, second section.
LEMMA FinishCopyInv ==
  ASSUME ServiceInv, Serialised, NEW c \in Callers, FinishCopy(c)
  PROVE  ServiceInv'
<1>1. /\ pc[c] = "copying" /\ ~Rests(c) /\ c # None
      /\ UNCHANGED <<mode, rev, active, context, held, admin, job, reading,
                     trouble>>
  BY ServiceAssumption DEF FinishCopy, Step, Rests
<1>2. Building(c) /\ OnTop(c) /\ mode = "Operational" /\ admin = "idle"
  BY <1>1, AtWork DEF Busy
<1>3. slot \in Slots /\ ~slot.owner
  BY <1>2 DEF ServiceInv, ServiceTypeOK, LeasesCounted, Building, Vacant
<1>4. CASE LeaseCurrent(c)
  <2>1. pc' = [pc EXCEPT ![c] = "built"] /\ slot' = slot
    BY <1>4 DEF FinishCopy, Step
  <2>2. pc'[c] = "built"
    BY <2>1 DEF ServiceInv, ServiceTypeOK
  <2>3. Busy(c)'
    BY <1>1, <1>2, <2>1, <2>2
       DEF Busy, Building, Vacant, OnTop, SawCurrent
  <2> QED
    BY <1>1, <1>3, <2>1, <2>3, SlotStep DEF SameLeases, Reaches, ChangeStages
<1>5. CASE ~LeaseCurrent(c)
  <2>1. /\ pc' = [pc EXCEPT ![c] = "idle"]
        /\ slot' = [slot EXCEPT !.build = None, !.revoked = FALSE,
                                !.reserved = FALSE]
    BY <1>2, <1>5 DEF FinishCopy, Step, Building
  <2>2. SameLeases /\ Calm'
    BY <1>1, <1>2, <1>3, <2>1
       DEF SameLeases, Slots, Calm, NoModel, Building, Vacant
  <2> QED
    BY <1>1, <2>1, <2>2, SlotStep DEF Reaches, ChangeStages
<1> QED
  BY <1>4, <1>5

\* installPreview
LEMMA InstallPreviewInv ==
  ASSUME ServiceInv, Serialised, NEW c \in Callers, InstallPreview(c)
  PROVE  ServiceInv'
<1>1. /\ pc[c] = "built" /\ ~Rests(c) /\ c # None
      /\ UNCHANGED <<mode, rev, active, context, held, admin, job, reading,
                     trouble>>
  BY ServiceAssumption DEF InstallPreview, Step, Rests
<1>2. Building(c) /\ OnTop(c) /\ mode = "Operational" /\ admin = "idle"
  BY <1>1, AtWork DEF Busy
<1>3. slot \in Slots /\ ~slot.owner /\ job[c] \in Jobs
  BY <1>2 DEF ServiceInv, ServiceTypeOK, LeasesCounted, Building, Vacant
<1>4. CASE /\ LeaseCurrent(c) /\ Step(c, "built", "installed")
           /\ slot' = [slot EXCEPT !.visible = Preview(c), !.build = None,
                                   !.revoked = FALSE,
                                   !.reserved = job[c].edit # "none"]
  <2>1. /\ Preview(c) \in Previews /\ Preview(c) # None
        /\ Preview(c).by = c /\ Preview(c).noChange = (job[c].edit = "none")
    <3>1. /\ Preview(c) \in Previews
          /\ Preview(c).by = c /\ Preview(c).noChange = (job[c].edit = "none")
      BY <1>3 DEF Preview, Previews, Jobs, ServiceInv, ServiceTypeOK, Revisions
    <3> QED
      BY <3>1, ServiceAssumption
  <2>2. pc' = [pc EXCEPT ![c] = "installed"] /\ pc'[c] = "installed"
    BY <1>4 DEF Step, ServiceInv, ServiceTypeOK
  <2>3. /\ SameLeases /\ slot'.visible = Preview(c) /\ slot'.build = None
        /\ slot'.captured = slot.captured
        /\ slot'.reserved = (job[c].edit # "none")
    BY <1>1, <1>3, <1>4, <2>1 DEF SameLeases, Slots
  <2>4. Busy(c)'
    BY <1>1, <1>2, <2>1, <2>2, <2>3
       DEF Busy, Building, Showing, Vacant, OnTop, SawCurrent, SameLeases
  <2> QED
    BY <1>1, <2>2, <2>3, <2>4, SlotStep DEF Reaches, ChangeStages
<1>5. CASE Step(c, "built", "idle") /\ slot' = BuildReleased(slot, c)
  <2>1. /\ pc' = [pc EXCEPT ![c] = "idle"]
        /\ slot' = [slot EXCEPT !.build = None, !.revoked = FALSE,
                                !.reserved = FALSE]
    BY <1>2, <1>3, <1>5
       DEF Step, BuildReleased, Building, Vacant, Retiring
  <2>2. SameLeases /\ Calm'
    BY <1>1, <1>2, <1>3, <2>1
       DEF SameLeases, Slots, Calm, NoModel, Building, Vacant
  <2> QED
    BY <1>1, <2>1, <2>2, SlotStep DEF Reaches, ChangeStages
<1> QED
  BY <1>4, <1>5 DEF InstallPreview

\* validatePreviewForConfirmationLocked
LEMMA ValidateInv ==
  ASSUME ServiceInv, Serialised, NEW c \in Callers, Validate(c)
  PROVE  ServiceInv'
<1>1. /\ pc[c] = "installed" /\ ~Rests(c)
      /\ UNCHANGED <<mode, rev, active, slot, context, held, admin, job,
                     reading, trouble>>
  BY DEF Validate, Step, Rests
<1>2. /\ Showing(c) /\ OnTop(c) /\ slot \in Slots
      /\ slot.visible.noChange <=> job[c].edit = "none"
  BY <1>1, AtWork DEF Busy, ServiceInv, ServiceTypeOK
<1>3. PICK to \in {"validated", "cancel"} :
        /\ pc' = [pc EXCEPT ![c] = to]
        /\ to = "validated" => job[c].user = active.user
  BY DEF Validate, Step, Confirmable
<1>4. pc'[c] = to /\ to \in ChangeStages /\ SameLeases
  BY <1>1, <1>2, <1>3 DEF ServiceInv, ServiceTypeOK, ChangeStages, SameLeases
<1>5. Busy(c)'
  BY <1>1, <1>2, <1>3, <1>4 DEF Busy, Showing, Vacant, OnTop, SawCurrent
<1> QED
  BY <1>1, <1>3, <1>4, <1>5, SlotStep DEF Reaches

\* cancelPreview takes the preview away ...
LEMMA CancelPreviewInv ==
  ASSUME ServiceInv, Serialised, NEW c \in Callers, CancelPreview(c)
  PROVE  ServiceInv'
<1> DEFINE mine == slot.visible # None /\ slot.visible.by = c
<1>1. /\ pc[c] = "cancel" /\ ~Rests(c)
      /\ UNCHANGED <<mode, rev, active, context, held, admin, job, reading,
                     trouble>>
  BY DEF CancelPreview, Step, Rests
<1>2. /\ admin = "idle" /\ slot \in Slots
      /\ \/ Showing(c)
         \/ /\ NoModel /\ slot.retired = None /\ held = None
            /\ slot.reserved <=> context # None
            /\ mode \in {"Operational", "CommitIndeterminate", "RuntimeFailure"}
  BY <1>1, AtWork DEF Busy, ServiceInv, ServiceTypeOK
<1>3. ~slot.owner
  BY <1>2 DEF ServiceInv, LeasesCounted, Showing, Vacant
<1>4. CASE Showing(c) /\ ~slot.visible.noChange
  <2>1. /\ pc' = [pc EXCEPT ![c] = "cancelled"] /\ pc'[c] = "cancelled"
        /\ slot' = [slot EXCEPT !.visible = None]
    BY <1>4 DEF CancelPreview, Step, Showing, ServiceInv, ServiceTypeOK
  <2>2. SameLeases /\ Busy(c)'
    BY <1>1, <1>2, <1>4, <2>1
    DEF SameLeases, Slots, Busy, Showing, NoModel, Vacant
  <2> QED
    BY <1>1, <2>1, <2>2, SlotStep DEF Reaches, ChangeStages
<1>5. CASE ~(Showing(c) /\ ~slot.visible.noChange)
  <2>1. /\ pc' = [pc EXCEPT ![c] = "idle"]
        /\ slot' = slot \/ slot' = [slot EXCEPT !.visible = None]
        /\ mine => slot' = [slot EXCEPT !.visible = None]
    BY <1>2, <1>5 DEF CancelPreview, Step, Showing, NoModel
  <2>2. /\ SameLeases /\ slot'.reserved = slot.reserved /\ slot'.visible = None
        /\ slot'.build = slot.build /\ slot'.captured = slot.captured
    BY <1>1, <1>2, <2>1 DEF SameLeases, Slots, Showing, NoModel
  <2>3. Calm'
    BY <1>1, <1>2, <1>3, <1>5, <2>2
       DEF SameLeases, Calm, Showing, NoModel, Vacant
  <2> QED
    BY <1>1, <2>1, <2>2, <2>3, SlotStep DEF Reaches, ChangeStages
<1> QED
  BY <1>4, <1>5

\* ... and its place in a section of its own.
LEMMA CancelEndsInv ==
  ASSUME ServiceInv, Serialised, NEW c \in Callers, CancelEnds(c)
  PROVE  ServiceInv'
<1>1. /\ pc[c] = "cancelled" /\ ~Rests(c) /\ pc' = [pc EXCEPT ![c] = "idle"]
      /\ UNCHANGED <<mode, rev, active, context, held, admin, job, reading,
                     trouble>>
  BY DEF CancelEnds, Step, Rests
<1>2. /\ admin = "idle" /\ NoModel /\ Vacant /\ slot.reserved /\ held = None
      /\ mode = "Operational" /\ slot \in Slots
  BY <1>1, AtWork DEF Busy, ServiceInv, ServiceTypeOK
<1>3. ~slot.owner
  BY <1>2 DEF ServiceInv, LeasesCounted, Vacant
<1>4. slot' = [slot EXCEPT !.reserved = FALSE]
  BY <1>2, <1>3 DEF CancelEnds, NoModel, Vacant, Retiring
<1>5. SameLeases /\ Calm'
  BY <1>1, <1>2, <1>3, <1>4 DEF SameLeases, Slots, Calm, NoModel, Vacant
<1> QED
  BY <1>1, <1>5, SlotStep DEF Reaches, ChangeStages

\* confirmPreview up to the capture.
LEMMA CaptureInv ==
  ASSUME ServiceInv, Serialised, NEW c \in Callers, Capture(c)
  PROVE  ServiceInv'
<1> DEFINE passes == /\ mode = "Operational" /\ slot.visible # None
                     /\ Confirmable(c, slot.visible.user)
<1>1. /\ pc[c] = "validated" /\ ~Rests(c)
      /\ UNCHANGED <<mode, rev, active, context, held, admin, job, reading,
                     trouble>>
  BY DEF Capture, Step, Rests
<1>2. /\ admin = "idle" /\ slot \in Slots
      /\ Showing(c) /\ OnTop(c) /\ job[c].user = active.user
      /\ slot.visible.noChange <=> job[c].edit = "none"
  BY <1>1, AtWork DEF Busy, ServiceInv, ServiceTypeOK
<1>3. ~slot.owner /\ slot.visible \in Previews
  BY <1>2 DEF ServiceInv, LeasesCounted, Showing, Vacant, Slots
<1>4. slot.visible.noChange =>
        ClearPreview(slot) = [slot EXCEPT !.visible = None, !.reserved = FALSE]
  BY <1>2 DEF ClearPreview, Showing, Slots
<1>5. CASE passes /\ slot.visible.noChange
  <2>1. /\ pc' = [pc EXCEPT ![c] = "idle"]
        /\ slot' = [slot EXCEPT !.visible = None, !.reserved = FALSE]
    BY <1>4, <1>5 DEF Capture, Step
  <2>2. SameLeases /\ Calm'
    BY <1>1, <1>2, <1>3, <2>1
       DEF SameLeases, Slots, Calm, NoModel, Showing, Vacant
  <2> QED
    BY <1>1, <2>1, <2>2, SlotStep DEF Reaches, ChangeStages
<1>6. CASE passes /\ ~slot.visible.noChange
  <2>1. /\ pc' = [pc EXCEPT ![c] = "captured"] /\ pc'[c] = "captured"
        /\ slot' = [slot EXCEPT !.captured = slot.visible, !.visible = None]
    BY <1>6 DEF Capture, Step, ServiceInv, ServiceTypeOK
  <2>2. /\ SameLeases /\ slot'.captured = slot.visible /\ slot'.visible = None
        /\ slot'.reserved = slot.reserved /\ slot'.build = slot.build
    BY <1>1, <1>2, <1>3, <2>1 DEF SameLeases, Slots
  <2>3. Busy(c)'
    BY <1>1, <1>2, <1>6, <2>1, <2>2
       DEF Busy, Showing, Capturing, Vacant, OnTop, SawCurrent, SameLeases
  <2> QED
    BY <1>1, <2>1, <2>2, <2>3, SlotStep DEF Reaches, ChangeStages
<1>7. CASE ~passes
  <2>1. /\ pc' = [pc EXCEPT ![c] = "cancel"] /\ pc'[c] = "cancel"
        /\ slot' = IF slot.visible.noChange
                   THEN [slot EXCEPT !.visible = None, !.reserved = FALSE]
                   ELSE slot
    BY <1>2, <1>4, <1>7 DEF Capture, Step, Showing, ServiceInv, ServiceTypeOK
  <2>2. SameLeases /\ Busy(c)'
    BY <1>1, <1>2, <1>3, <2>1
       DEF SameLeases, Slots, Busy, NoModel, Showing, Vacant
  <2> QED
    BY <1>1, <2>1, <2>2, SlotStep DEF Reaches, ChangeStages
<1> QED
  BY <1>5, <1>6, <1>7

\* A step of a caller that also moves the mode, the lease or the context.
LEMMA CommitStep ==
  ASSUME ServiceInv, Serialised, NEW c \in Callers, NEW to \in ChangeStages,
         ~Rests(c), pc' = [pc EXCEPT ![c] = to], UNCHANGED <<admin, job>>,
         mode' \in Modes, rev' \in Nat, context' \in Contexts \cup {None},
         held' \in Callers \cup {"admin", None}, trouble' \in Nat,
         SameLeases, ContextKept', Reaches(c, to)
  PROVE  ServiceInv'
<1>1. pc' \in [Callers -> ChangeStages] /\ Alone' /\ Staged'
  BY StageChange DEF Reaches
<1>2. ServiceTypeOK'
  BY <1>1 DEF ServiceInv, ServiceTypeOK, SameLeases
<1>3. LeasesCounted'
  BY LeasesFrame DEF ServiceInv, SameLeases
<1> QED
  BY <1>1, <1>2, <1>3 DEF ServiceInv

\* The mutation lease, or the preview back.
LEMMA LockInv ==
  ASSUME ServiceInv, Serialised, NEW c \in Callers, Lock(c)
  PROVE  ServiceInv'
<1>1. /\ pc[c] = "captured" /\ ~Rests(c)
      /\ UNCHANGED <<mode, rev, active, context, admin, job, reading>>
  BY DEF Lock, Step, Rests
<1>2. /\ admin = "idle" /\ ServiceTypeOK /\ ContextKept
      /\ Capturing(c) /\ OnTop(c) /\ job[c].edit # "none" /\ held = None
      /\ mode = "Operational" /\ job[c].user = active.user
  BY <1>1, AtWork DEF Busy, ServiceInv
<1>3. CASE /\ held' = c /\ Step(c, "captured", "locked")
           /\ UNCHANGED <<slot, trouble>>
  <2>1. pc' = [pc EXCEPT ![c] = "locked"] /\ pc'[c] = "locked"
    BY <1>2, <1>3 DEF Step, ServiceTypeOK
  <2>2. SameLeases /\ ContextKept'
    BY <1>1, <1>2, <1>3 DEF SameLeases, ContextKept, ServiceTypeOK
  <2>3. Busy(c)'
    BY <1>1, <1>2, <1>3, <2>1
       DEF Busy, Capturing, Vacant, OnTop, SawCurrent
  <2> QED
    BY <1>1, <1>2, <1>3, <2>1, <2>2, <2>3, CommitStep
       DEF Reaches, ChangeStages, ServiceTypeOK
<1>4. CASE /\ trouble' \in Nat /\ Step(c, "captured", "cancel")
           /\ slot' = IF mode = "Operational" /\ slot.visible = None
                      THEN [slot EXCEPT !.visible = slot.captured,
                                        !.captured = None]
                      ELSE slot
           /\ UNCHANGED held
  <2>1. /\ pc' = [pc EXCEPT ![c] = "cancel"] /\ pc'[c] = "cancel"
        /\ slot' = [slot EXCEPT !.visible = slot.captured, !.captured = None]
    BY <1>2, <1>4 DEF Step, ServiceTypeOK, Capturing
  <2>2. /\ SameLeases /\ slot'.visible = slot.captured /\ slot'.captured = None
        /\ slot'.reserved = slot.reserved /\ slot'.build = slot.build
    BY <1>1, <1>2, <2>1 DEF SameLeases, Slots, ServiceTypeOK
  <2>3. ContextKept' /\ Busy(c)'
    BY <1>1, <1>2, <1>4, <2>1, <2>2
       DEF ContextKept, Busy, Showing, Capturing, Vacant, SameLeases
  <2> QED
    BY <1>1, <1>2, <1>4, <2>1, <2>2, <2>3, CommitStep
       DEF Reaches, ChangeStages, ServiceTypeOK
<1>5. trouble \in Nat /\ (Fault => trouble' \in Nat)
  BY <1>2 DEF ServiceTypeOK, Fault
<1> QED
  BY <1>1, <1>2, <1>3, <1>4, <1>5 DEF Lock

\* The commit is in progress, or the candidate is given up.
LEMMA BeginCommitInv ==
  ASSUME ServiceInv, Serialised, NEW c \in Callers, BeginCommit(c)
  PROVE  ServiceInv'
<1>1. /\ pc[c] = "locked" /\ ~Rests(c)
      /\ UNCHANGED <<active, context, held, admin, job, reading>>
  BY DEF BeginCommit, Rests
<1>2. /\ admin = "idle" /\ ServiceTypeOK /\ ContextKept
      /\ Capturing(c) /\ OnTop(c) /\ job[c].edit # "none" /\ held = c
      /\ mode = "Operational" /\ job[c].user = active.user
  BY <1>1, AtWork DEF Busy, ServiceInv
<1>3. CASE /\ Step(c, "locked", "commit")
           /\ mode' = "CommitInProgress" /\ rev' = rev + 1
           /\ UNCHANGED <<slot, trouble>>
  <2>1. pc' = [pc EXCEPT ![c] = "commit"] /\ pc'[c] = "commit"
    BY <1>2, <1>3 DEF Step, ServiceTypeOK
  <2>2. SameLeases /\ ContextKept'
    BY <1>1, <1>2, <1>3
       DEF SameLeases, ContextKept, ServiceTypeOK, Capturing, Vacant
  <2>3. Busy(c)'
    BY <1>1, <1>2, <1>3, <2>1
       DEF Busy, Capturing, Vacant, OnTop, SawCurrent
  <2>4. mode' \in Modes /\ rev' \in Nat
    BY <1>2, <1>3 DEF ServiceTypeOK, Modes
  <2> QED
    BY <1>1, <1>2, <1>3, <2>1, <2>2, <2>3, <2>4, CommitStep
       DEF Reaches, ChangeStages, ServiceTypeOK
<1>4. CASE /\ Fault /\ Step(c, "locked", "failed")
           /\ slot' = [slot EXCEPT !.captured = None]
           /\ UNCHANGED <<mode, rev>>
  <2>1. /\ pc' = [pc EXCEPT ![c] = "failed"] /\ pc'[c] = "failed"
        /\ trouble' \in Nat
    BY <1>2, <1>4 DEF Step, ServiceTypeOK, Fault
  <2>2. SameLeases /\ ContextKept' /\ Busy(c)'
    BY <1>1, <1>2, <1>4, <2>1
       DEF SameLeases, Slots, ServiceTypeOK, ContextKept, Busy, Capturing,
           Vacant, NoModel
  <2> QED
    BY <1>1, <1>2, <1>4, <2>1, <2>2, CommitStep
       DEF Reaches, ChangeStages, ServiceTypeOK
<1> QED
  BY <1>3, <1>4 DEF BeginCommit

\* The store activated the new graph.
LEMMA PublishInv ==
  ASSUME ServiceInv, Serialised, NEW c \in Callers, Publish(c)
  PROVE  ServiceInv'
<1>1. /\ pc[c] = "commit" /\ ~Rests(c) /\ pc' = [pc EXCEPT ![c] = "retire"]
      /\ active' = Changed(job[c].edit)
      /\ slot' = [Published(slot) EXCEPT !.captured = None]
      /\ UNCHANGED <<mode, rev, context, held, admin, job, reading, trouble>>
  BY DEF Publish, Step, Rests
<1>2. /\ ServiceTypeOK /\ ContextKept /\ LeasesCounted /\ Capturing(c)
      /\ held = c /\ mode = "CommitInProgress" /\ job[c] \in Jobs
  BY <1>1, AtWork DEF Busy, ServiceInv, ServiceTypeOK
<1>3. active' \in Revisions /\ active'.gen = active.gen + 1
  BY <1>1, <1>2, ChangedType DEF ServiceTypeOK, Jobs
<1>4. /\ slot' \in Slots /\ slot'.retired = active.gen /\ slot'.owner = TRUE
      /\ slot'.oldLeases = slot.leases /\ slot'.leases = 0
      /\ slot'.captured = None /\ slot'.visible = slot.visible
      /\ slot'.build = slot.build /\ slot'.reserved = slot.reserved
  BY <1>1, <1>2 DEF Published, ServiceTypeOK, Slots, Revisions
<1>5. /\ Alone' /\ (Busy(c)' => Staged') /\ pc'[c] = "retire"
      /\ pc' \in [Callers -> ChangeStages]
  BY <1>1, StageChange DEF ChangeStages
<1>6. ServiceTypeOK'
  BY <1>1, <1>2, <1>3, <1>4, <1>5 DEF ServiceTypeOK
<1>7. LeasesCounted'
  BY <1>1, <1>2, <1>3, <1>4, LeasesPublished
     DEF ServiceTypeOK, Capturing, Vacant
<1>8. ContextKept' /\ Busy(c)'
  BY <1>1, <1>2, <1>4, <1>5
     DEF ContextKept, Busy, Capturing, Vacant, NoModel
<1> QED
  BY <1>5, <1>6, <1>7, <1>8 DEF ServiceInv

\* The retired generation is given up by the one who published.
LEMMA RetireInv ==
  ASSUME ServiceInv, Serialised, NEW c \in Callers, Retire(c)
  PROVE  ServiceInv'
<1>1. /\ pc[c] = "retire" /\ ~Rests(c) /\ pc' = [pc EXCEPT ![c] = "ending"]
      /\ slot' = RetirementCompleted(slot)
      /\ UNCHANGED <<mode, rev, active, context, held, admin, job, reading,
                     trouble>>
  BY DEF Retire, Step, Rests
<1>2. /\ ServiceTypeOK /\ ContextKept /\ LeasesCounted /\ NoModel
      /\ context = None /\ slot.owner /\ slot.reserved /\ held = c
  BY <1>1, AtWork DEF Busy, ServiceInv
<1>3. slot' \in Slots /\ LeasesCounted' /\ NoModel' /\ PlaceOfRetired'
  BY <1>1, <1>2, RetirementEffect DEF ServiceTypeOK
<1>4. /\ Alone' /\ (Busy(c)' => Staged') /\ pc'[c] = "ending"
      /\ pc' \in [Callers -> ChangeStages]
  BY <1>1, StageChange DEF ChangeStages
<1>5. ServiceTypeOK'
  BY <1>1, <1>2, <1>3, <1>4 DEF ServiceTypeOK
<1>6. ContextKept' /\ Busy(c)'
  BY <1>1, <1>2, <1>3, <1>4 DEF ContextKept, Busy
<1> QED
  BY <1>3, <1>4, <1>5, <1>6 DEF ServiceInv

\* The commit ends with the service open.
LEMMA EndCommitInv ==
  ASSUME ServiceInv, Serialised, NEW c \in Callers, EndCommit(c)
  PROVE  ServiceInv'
<1>1. /\ pc[c] = "ending" /\ ~Rests(c) /\ pc' = [pc EXCEPT ![c] = "idle"]
      /\ mode' = "Operational" /\ rev' = rev + 1 /\ held' = None
      /\ UNCHANGED <<active, slot, context, admin, job, reading, trouble>>
  BY DEF EndCommit, Step, Rests
<1>2. /\ ServiceTypeOK /\ ContextKept /\ NoModel /\ admin = "idle"
      /\ context = None /\ PlaceOfRetired
  BY <1>1, AtWork DEF Busy, ServiceInv
<1>3. SameLeases /\ ContextKept' /\ Calm'
  BY <1>1, <1>2 DEF SameLeases, ContextKept, Calm, NoModel, PlaceOfRetired,
                    ServiceTypeOK
<1>4. mode' \in Modes /\ rev' \in Nat
  BY <1>1, <1>2 DEF ServiceTypeOK, Modes
<1> QED
  BY <1>1, <1>2, <1>3, <1>4, CommitStep DEF Reaches, ChangeStages, ServiceTypeOK

\* The commit provably failed.
LEMMA CommitFailsInv ==
  ASSUME ServiceInv, Serialised, NEW c \in Callers, CommitFails(c)
  PROVE  ServiceInv'
<1>1. /\ pc[c] = "commit" /\ ~Rests(c) /\ pc' = [pc EXCEPT ![c] = "failed"]
      /\ slot' = [slot EXCEPT !.captured = None] /\ Fault
      /\ UNCHANGED <<mode, rev, active, context, held, admin, job, reading>>
  BY DEF CommitFails, Step, Rests
<1>2. /\ ServiceTypeOK /\ ContextKept /\ Capturing(c) /\ held = c
  BY <1>1, AtWork DEF Busy, ServiceInv
<1>3. pc'[c] = "failed" /\ trouble' \in Nat
  BY <1>1, <1>2 DEF ServiceTypeOK, Fault
<1>4. SameLeases /\ ContextKept' /\ Busy(c)'
  BY <1>1, <1>2, <1>3
     DEF SameLeases, Slots, ServiceTypeOK, ContextKept, Busy, Capturing,
         Vacant, NoModel
<1> QED
  BY <1>1, <1>2, <1>3, <1>4, CommitStep DEF Reaches, ChangeStages, ServiceTypeOK

\* A failed change returns the place and the lease.
LEMMA EndFailedInv ==
  ASSUME ServiceInv, Serialised, NEW c \in Callers, EndFailed(c)
  PROVE  ServiceInv'
<1>1. /\ pc[c] = "failed" /\ ~Rests(c) /\ pc' = [pc EXCEPT ![c] = "cancel"]
      /\ slot' = [slot EXCEPT !.reserved = FALSE]
      /\ mode' = "Operational" /\ rev' \in {rev, rev + 1} /\ held' = None
      /\ UNCHANGED <<active, context, admin, job, reading, trouble>>
  BY DEF EndFailed, Step, Rests
<1>2. ServiceTypeOK /\ ContextKept /\ NoModel /\ Vacant
  BY <1>1, AtWork DEF Busy, ServiceInv
<1>3. pc'[c] = "cancel" /\ mode' \in Modes /\ rev' \in Nat
  BY <1>1, <1>2 DEF ServiceTypeOK, Modes
<1>4. SameLeases /\ ContextKept' /\ Busy(c)'
  BY <1>1, <1>2, <1>3
     DEF SameLeases, Slots, ServiceTypeOK, ContextKept, Busy, Vacant, NoModel
<1> QED
  BY <1>1, <1>2, <1>3, <1>4, CommitStep DEF Reaches, ChangeStages, ServiceTypeOK

\* The outcome is unknown: the service closes and keeps the candidate.
LEMMA CommitUnresolvedInv ==
  ASSUME ServiceInv, Serialised, NEW c \in Callers,
         NEW cause \in {"unknown", "postCommit", "target", "prepare"},
         CommitUnresolved(c, cause)
  PROVE  ServiceInv'
<1> DEFINE kept == [new |-> Changed(job[c].edit), cause |-> cause]
           s == [slot EXCEPT !.captured = None, !.reserved = cause # "prepare"]
<1>1. /\ pc[c] = "commit" /\ ~Rests(c) /\ pc' = [pc EXCEPT ![c] = "cancel"]
      /\ context' = IF cause = "prepare" THEN None ELSE kept
      /\ mode' = IF cause = "unknown" THEN "CommitIndeterminate"
                 ELSE "RuntimeFailure"
      /\ slot' = FailClosed(s)
      /\ rev' = rev + 1 /\ held' = None /\ Fault
      /\ UNCHANGED <<active, admin, job, reading>>
  BY DEF CommitUnresolved, Step, Rests
<1>2. ServiceTypeOK /\ ContextKept /\ Capturing(c) /\ job[c] \in Jobs
  BY <1>1, AtWork DEF Busy, ServiceInv, ServiceTypeOK
<1>3. /\ pc'[c] = "cancel" /\ mode' \in Modes /\ rev' \in Nat
      /\ trouble' \in Nat
  BY <1>1, <1>2 DEF ServiceTypeOK, Modes, Fault
<1>4. /\ s \in Slots /\ s.build = None /\ s.visible = None
      /\ s.captured = None /\ s.reserved = (cause # "prepare")
      /\ s.retired = slot.retired /\ s.owner = slot.owner
      /\ s.leases = slot.leases /\ s.oldLeases = slot.oldLeases
  BY <1>2 DEF ServiceTypeOK, Slots, Capturing
<1> HIDE DEF s
<1>5. FailClosed(s) = [[s EXCEPT !.revoked = s.revoked] EXCEPT
                          !.visible = None, !.reserved = s.reserved]
  BY <1>4 DEF FailClosed, ClearPreview, Slots
<1>6. /\ SameLeases /\ NoModel' /\ slot'.reserved = (cause # "prepare")
  BY <1>1, <1>4, <1>5 DEF SameLeases, Slots, NoModel
<1>7. /\ kept \in Contexts /\ kept # None /\ kept.new.gen = active.gen + 1
  <2>1. kept \in Contexts /\ kept.new.gen = active.gen + 1
    BY <1>2, ChangedType DEF ServiceTypeOK, Jobs, Contexts
  <2> QED
    BY <2>1, ServiceAssumption
<1> HIDE DEF kept
<1>8. ContextKept' /\ Busy(c)'
  BY <1>1, <1>2, <1>3, <1>6, <1>7
     DEF ContextKept, Busy, NoModel, Capturing, Vacant, SameLeases
<1> QED
  BY <1>1, <1>2, <1>3, <1>6, <1>7, <1>8, CommitStep
     DEF Reaches, ChangeStages, ServiceTypeOK

-----------------------------------------------------------------------------
(* Resolutions and resets *)

\* While the reset or the resolution is at work everybody rests.
LEMMA AdminAtWork ==
  ASSUME ServiceInv, Serialised, admin # "idle" \/ Enters
  PROVE  Calm /\ \A c \in Callers : Rests(c)
BY DEF ServiceInv, Staged, Alone, Enters, Rests

\* A step that keeps everybody at rest and ends calm.
LEMMA AdminStage ==
  ASSUME ServiceTypeOK', LeasesCounted', ContextKept', Calm',
         \A c \in Callers : Rests(c)'
  PROVE  ServiceInv'
BY DEF ServiceInv, Alone, Staged

\* Such a step that leaves the generations and their leases alone.
LEMMA RestingStep ==
  ASSUME ServiceInv, Serialised, admin # "idle" \/ Enters,
         admin' \in AdminStages, UNCHANGED <<pc, job>>,
         mode' \in Modes, rev' \in Nat, context' \in Contexts \cup {None},
         held' \in Callers \cup {"admin", None}, trouble' \in Nat,
         SameLeases, ContextKept', Calm'
  PROVE  ServiceInv'
<1>1. \A c \in Callers : Rests(c)'
  BY AdminAtWork DEF Rests
<1>2. ServiceTypeOK'
  BY DEF ServiceInv, ServiceTypeOK, SameLeases
<1>3. LeasesCounted'
  BY LeasesFrame DEF ServiceInv, SameLeases
<1> QED
  BY <1>1, <1>2, <1>3, AdminStage

\* The mutation lease is taken and returned.
LEMMA AdminLockInv ==
  ASSUME ServiceInv, Serialised, AdminLocks \/ AdminLeaves
  PROVE  ServiceInv'
<1>1. /\ Calm /\ ServiceTypeOK /\ ContextKept
      /\ admin # "idle" \/ Enters
  BY AdminAtWork DEF AdminLocks, AdminLeaves, AdminStep, ServiceInv
<1>2. /\ UNCHANGED <<mode, rev, active, slot, context, pc, job, reading,
                     trouble>>
      /\ \/ admin = "idle" /\ admin' = "locked" /\ held' = "admin"
         \/ admin = "locked" /\ admin' = "idle" /\ held' = None
  BY DEF AdminLocks, AdminLeaves, AdminStep
<1>3. SameLeases /\ ContextKept' /\ Calm'
  BY <1>1, <1>2 DEF SameLeases, ServiceTypeOK, ContextKept, Calm, NoModel,
                    Vacant, PlaceOfRetired
<1>4. admin' \in AdminStages /\ held' \in Callers \cup {"admin", None}
  BY <1>2 DEF AdminStages
<1> QED
  BY <1>1, <1>2, <1>3, <1>4, RestingStep DEF ServiceTypeOK

\* The commit had no effect.
LEMMA ResolveOldInv ==
  ASSUME ServiceInv, Serialised, ResolveOld
  PROVE  ServiceInv'
<1>1. /\ admin = "locked" /\ admin' = "old" /\ context # None
      /\ context' = None
      /\ UNCHANGED <<mode, rev, active, slot, held, pc, job, reading, trouble>>
  BY DEF ResolveOld, AdminStep, Resolvable
<1>2. Calm /\ ServiceTypeOK /\ ContextKept
  BY <1>1, AdminAtWork DEF ServiceInv
<1>3. SameLeases /\ ContextKept' /\ Calm'
  BY <1>1, <1>2 DEF SameLeases, ServiceTypeOK, ContextKept, Calm, NoModel,
                    Vacant, PlaceOfRetired
<1> QED
  BY <1>1, <1>2, <1>3, RestingStep DEF ServiceTypeOK, AdminStages

\* A publication by the resolution or the reset: what it leaves in the slot.
LEMMA AdminPublishes ==
  ASSUME ServiceInv, slot' = Published(slot), slot.retired = None, NoModel,
         slot.reserved, active'.gen = active.gen + 1, UNCHANGED reading
  PROVE  /\ slot' \in Slots /\ LeasesCounted' /\ NoModel'
         /\ slot'.owner /\ slot'.reserved
<1>1. ServiceTypeOK /\ LeasesCounted
  BY DEF ServiceInv
<1>2. /\ slot' \in Slots /\ slot'.retired = active.gen /\ slot'.owner = TRUE
      /\ slot'.oldLeases = slot.leases /\ slot'.leases = 0
      /\ slot'.captured = slot.captured /\ slot'.visible = slot.visible
      /\ slot'.build = slot.build /\ slot'.reserved = slot.reserved
  BY <1>1 DEF Published, ServiceTypeOK, Slots, Revisions
<1>3. LeasesCounted'
  BY <1>1, <1>2, LeasesPublished DEF ServiceTypeOK
<1> QED
  BY <1>2, <1>3 DEF NoModel

\* The commit took effect: its configuration is published after all.
LEMMA ResolveNewInv ==
  ASSUME ServiceInv, Serialised, ResolveNew
  PROVE  ServiceInv'
<1>1. /\ admin = "locked" /\ admin' = "retire" /\ context # None
      /\ active' = context.new /\ slot' = Published(slot) /\ context' = None
      /\ UNCHANGED <<mode, rev, held, pc, job, reading, trouble>>
  BY DEF ResolveNew, AdminStep, Resolvable
<1>2. /\ Calm /\ ServiceTypeOK /\ ContextKept
      /\ \A c \in Callers : Rests(c)
  BY <1>1, AdminAtWork DEF ServiceInv
<1>3. /\ slot.retired = None /\ NoModel /\ slot.reserved
      /\ active' \in Revisions /\ active'.gen = active.gen + 1
  BY <1>1, <1>2 DEF ContextKept, Calm, ServiceTypeOK, Contexts
<1>4. /\ slot' \in Slots /\ LeasesCounted' /\ NoModel'
      /\ slot'.owner /\ slot'.reserved
  BY <1>1, <1>3, AdminPublishes
<1>5. ServiceTypeOK'
  BY <1>1, <1>2, <1>3, <1>4 DEF ServiceTypeOK, AdminStages
<1>6. ContextKept' /\ Calm'
  BY <1>1, <1>2, <1>4 DEF ContextKept, Calm
<1>7. \A c \in Callers : Rests(c)'
  BY <1>1, <1>2 DEF Rests
<1> QED
  BY <1>4, <1>5, <1>6, <1>7, AdminStage

\* The store holds neither configuration.
LEMMA ResolveFailsInv ==
  ASSUME ServiceInv, Serialised, ResolveFails
  PROVE  ServiceInv'
<1>1. /\ admin = "locked" /\ admin' = "idle" /\ held' = None
      /\ mode = "CommitIndeterminate" /\ mode' = "RuntimeFailure"
      /\ rev' = rev + 1
      /\ context' = [context EXCEPT !.cause = "postCommit"]
      /\ slot' = FailClosed(slot)
      /\ UNCHANGED <<active, pc, job, reading, trouble>>
  BY DEF ResolveFails, AdminStep
<1>2. Calm /\ ServiceTypeOK /\ ContextKept
  BY <1>1, AdminAtWork DEF ServiceInv
<1>3. context \in Contexts /\ context # None
  BY <1>1, <1>2 DEF ContextKept, ServiceTypeOK
<1>4. context' \in Contexts /\ context'.new = context.new
  BY <1>1, <1>3 DEF Contexts
<1>5. context' # None
  BY <1>4, ServiceAssumption
<1>6. FailClosed(slot) = [[slot EXCEPT !.revoked = slot.revoked] EXCEPT
                             !.visible = None, !.reserved = slot.reserved]
  BY <1>2 DEF FailClosed, ClearPreview, Calm, NoModel, ServiceTypeOK, Slots
<1>7. SameLeases /\ NoModel' /\ slot'.reserved = slot.reserved
  BY <1>1, <1>2, <1>6 DEF SameLeases, ServiceTypeOK, Slots, Calm, NoModel
<1>8. ContextKept' /\ Calm'
  BY <1>1, <1>2, <1>3, <1>4, <1>5, <1>7 DEF ContextKept, Calm, SameLeases
<1>9. mode' \in Modes /\ rev' \in Nat
  BY <1>1, <1>2 DEF ServiceTypeOK, Modes
<1> QED
  BY <1>1, <1>2, <1>4, <1>7, <1>8, <1>9, RestingStep
     DEF ServiceTypeOK, AdminStages

\* The retired generation is given up by the resolution or the reset.
LEMMA AdminRetiresInv ==
  ASSUME ServiceInv, Serialised, ResolveRetires \/ ResetRetires
  PROVE  ServiceInv'
<1>1. /\ \/ admin = "retire" /\ admin' = "new"
         \/ admin = "published" /\ admin' = "finalize"
      /\ slot' = RetirementCompleted(slot)
      /\ UNCHANGED <<mode, rev, active, context, held, pc, job, reading,
                     trouble>>
  BY DEF ResolveRetires, ResetRetires, AdminStep
<1>2. /\ Calm /\ ServiceTypeOK /\ ContextKept /\ LeasesCounted
      /\ \A c \in Callers : Rests(c)
  BY <1>1, AdminAtWork DEF ServiceInv
<1>3. NoModel /\ context = None /\ slot.owner /\ slot.reserved
  BY <1>1, <1>2 DEF Calm
<1>4. slot' \in Slots /\ LeasesCounted' /\ NoModel' /\ PlaceOfRetired'
  BY <1>1, <1>2, <1>3, RetirementEffect DEF ServiceTypeOK
<1>5. ServiceTypeOK'
  BY <1>1, <1>2, <1>4 DEF ServiceTypeOK, AdminStages
<1>6. ContextKept' /\ Calm'
  BY <1>1, <1>2, <1>3, <1>4 DEF ContextKept, Calm
<1>7. \A c \in Callers : Rests(c)'
  BY <1>1, <1>2 DEF Rests
<1> QED
  BY <1>4, <1>5, <1>6, <1>7, AdminStage

\* The service is open again after a resolution or a reset.
LEMMA AdminEndsInv ==
  ASSUME ServiceInv, Serialised, ResolveEnds \/ ResetFinalizes
  PROVE  ServiceInv'
<1>1. /\ admin \in {"old", "new", "finalize"} /\ admin' = "idle"
      /\ slot' = IF admin = "old" THEN [slot EXCEPT !.reserved = FALSE]
                 ELSE slot
      /\ mode' = "Operational" /\ rev' = rev + 1 /\ held' = None
      /\ UNCHANGED <<active, context, pc, job, reading, trouble>>
  BY DEF ResolveEnds, ResetFinalizes, AdminStep
<1>2. Calm /\ ServiceTypeOK /\ ContextKept /\ LeasesCounted
  BY <1>1, AdminAtWork DEF ServiceInv
<1>3. /\ SameLeases /\ NoModel' /\ ~slot.owner
      /\ slot'.reserved = IF admin = "old" THEN FALSE ELSE slot.reserved
  BY <1>1, <1>2 DEF SameLeases, ServiceTypeOK, Slots, Calm, NoModel,
                    PlaceOfRetired, Vacant, LeasesCounted
<1>4. ContextKept' /\ Calm'
  BY <1>1, <1>2, <1>3 DEF ContextKept, Calm, SameLeases, PlaceOfRetired, Vacant
<1>5. mode' \in Modes /\ rev' \in Nat
  BY <1>1, <1>2 DEF ServiceTypeOK, Modes
<1> QED
  BY <1>1, <1>2, <1>3, <1>4, <1>5, RestingStep DEF ServiceTypeOK, AdminStages

\* beginRecovery
LEMMA ResetBeginsInv ==
  ASSUME ServiceInv, Serialised, ResetBegins
  PROVE  ServiceInv'
<1>1. /\ admin = "locked" /\ admin' = "preparing" /\ mode = "Operational"
      /\ ~Retiring(slot)
      /\ mode' = "ResetPreparing" /\ rev' = rev + 1
      /\ slot' = [ClearPreview(slot) EXCEPT !.reserved = TRUE]
      /\ UNCHANGED <<active, context, held, pc, job, reading, trouble>>
  BY DEF ResetBegins, AdminStep
<1>2. Calm /\ ServiceTypeOK /\ ContextKept
  BY <1>1, AdminAtWork DEF ServiceInv
<1>3. Vacant
  BY <1>1, <1>2 DEF ContextKept, Vacant, Retiring
<1>4. ClearPreview(slot) = [slot EXCEPT !.visible = None,
                                        !.reserved = slot.reserved]
  BY <1>2 DEF ClearPreview, Calm, NoModel, ServiceTypeOK, Slots
<1>5. SameLeases /\ NoModel' /\ slot'.reserved
  BY <1>1, <1>2, <1>4 DEF SameLeases, ServiceTypeOK, Slots, Calm, NoModel
<1>6. ContextKept' /\ Calm'
  BY <1>1, <1>2, <1>3, <1>5 DEF ContextKept, Calm, SameLeases, Vacant
<1>7. mode' \in Modes /\ rev' \in Nat
  BY <1>1, <1>2 DEF ServiceTypeOK, Modes
<1> QED
  BY <1>1, <1>2, <1>5, <1>6, <1>7, RestingStep DEF ServiceTypeOK, AdminStages

\* cancelRecovery
LEMMA ResetCancelledInv ==
  ASSUME ServiceInv, Serialised, ResetCancelled
  PROVE  ServiceInv'
<1>1. /\ admin = "preparing" /\ admin' = "idle" /\ Fault
      /\ mode' = "Operational" /\ rev' = rev + 1 /\ held' = None
      /\ UNCHANGED <<active, context, pc, job, reading>>
  BY DEF ResetCancelled, AdminStep
<1>2. Calm /\ ServiceTypeOK /\ ContextKept /\ LeasesCounted
  BY <1>1, AdminAtWork DEF ServiceInv
<1>3. Vacant /\ ~slot.owner
  BY <1>1, <1>2 DEF Calm, Vacant, LeasesCounted
<1>4. slot' = [slot EXCEPT !.reserved = FALSE]
  BY <1>3 DEF ResetCancelled, Retiring, Vacant
<1>5. SameLeases /\ NoModel' /\ slot'.reserved = FALSE
  BY <1>1, <1>2, <1>4 DEF SameLeases, ServiceTypeOK, Slots, Calm, NoModel
<1>6. ContextKept' /\ Calm'
  BY <1>1, <1>2, <1>3, <1>5 DEF ContextKept, Calm, SameLeases, Vacant
<1>7. mode' \in Modes /\ rev' \in Nat /\ trouble' \in Nat
  BY <1>1, <1>2 DEF ServiceTypeOK, Modes, Fault
<1> QED
  BY <1>1, <1>2, <1>5, <1>6, <1>7, RestingStep DEF ServiceTypeOK, AdminStages

\* prepareRecoveredGraph
LEMMA ResetPreparesInv ==
  ASSUME ServiceInv, Serialised, ResetPrepares
  PROVE  ServiceInv'
<1>1. /\ admin = "preparing" /\ admin' = "prepared"
      /\ mode' = "EpochResetting" /\ rev' = rev + 1
      /\ slot' = [slot EXCEPT !.reserved = TRUE]
      /\ UNCHANGED <<active, context, held, pc, job, reading, trouble>>
  BY DEF ResetPrepares, AdminStep
<1>2. Calm /\ ServiceTypeOK /\ ContextKept
  BY <1>1, AdminAtWork DEF ServiceInv
<1>3. Vacant
  BY <1>1, <1>2 DEF Calm
<1>4. SameLeases /\ NoModel' /\ slot'.reserved
  BY <1>1, <1>2 DEF SameLeases, ServiceTypeOK, Slots, Calm, NoModel
<1>5. ContextKept' /\ Calm'
  BY <1>1, <1>2, <1>3, <1>4 DEF ContextKept, Calm, SameLeases, Vacant
<1>6. mode' \in Modes /\ rev' \in Nat
  BY <1>1, <1>2 DEF ServiceTypeOK, Modes
<1> QED
  BY <1>1, <1>2, <1>4, <1>5, <1>6, RestingStep DEF ServiceTypeOK, AdminStages

\* publishRecoveredGraph
LEMMA ResetPublishesInv ==
  ASSUME ServiceInv, Serialised, ResetPublishes
  PROVE  ServiceInv'
<1>1. /\ admin = "prepared" /\ admin' = "published"
      /\ active' = [gen |-> active.gen + 1, user |-> 1, program |-> 1,
                    service |-> 1]
      /\ slot' = Published(slot)
      /\ mode' = "BootstrapFinalizationPending" /\ rev' = rev + 1
      /\ pc' = [c \in Callers |-> IF pc[c] = "seen" THEN "idle" ELSE pc[c]]
      /\ UNCHANGED <<context, held, job, reading, trouble>>
  BY DEF ResetPublishes, AdminStep
<1>2. /\ Calm /\ ServiceTypeOK /\ ContextKept
      /\ \A c \in Callers : Rests(c)
  BY <1>1, AdminAtWork DEF ServiceInv
<1>3. /\ Vacant /\ NoModel /\ slot.reserved
      /\ active' \in Revisions /\ active'.gen = active.gen + 1
  BY <1>1, <1>2 DEF Calm, ServiceTypeOK, Revisions
<1>4. /\ slot' \in Slots /\ LeasesCounted' /\ NoModel'
      /\ slot'.owner /\ slot'.reserved
  BY <1>1, <1>3, AdminPublishes DEF Vacant
<1>5. pc' \in [Callers -> ChangeStages] /\ \A c \in Callers : Rests(c)'
  BY <1>1, <1>2 DEF Rests, ServiceTypeOK, ChangeStages
<1>6. mode' \in Modes /\ rev' \in Nat /\ admin' \in AdminStages
  BY <1>1, <1>2 DEF ServiceTypeOK, Modes, AdminStages
<1>7. ServiceTypeOK'
  BY <1>1, <1>2, <1>3, <1>4, <1>5, <1>6 DEF ServiceTypeOK
<1>8. ContextKept' /\ Calm'
  BY <1>1, <1>2, <1>3, <1>4 DEF ContextKept, Calm, Vacant
<1> QED
  BY <1>4, <1>5, <1>7, <1>8, AdminStage

-----------------------------------------------------------------------------
(* Readers *)

\* A step of a reader touches only the leases, and the place only when the
\* last reader of a retired generation without an owner leaves.
LEMMA ReaderStep ==
  ASSUME ServiceInv, slot' \in Slots, LeasesCounted',
         reading' \in [Readers -> Nat \cup {None}],
         UNCHANGED <<mode, rev, active, context, held, admin, pc, job,
                     trouble>>,
         slot'.build = slot.build, slot'.visible = slot.visible,
         slot'.captured = slot.captured, slot'.owner = slot.owner,
         \/ slot'.retired = slot.retired /\ slot'.reserved = slot.reserved
         \/ /\ ~slot.owner /\ slot.retired # None /\ slot'.retired = None
            /\ slot'.reserved = IF NoModel /\ context = None THEN FALSE
                                ELSE slot.reserved
  PROVE  ServiceInv'
<1>1. ServiceTypeOK' /\ Alone' /\ ContextKept'
  BY DEF ServiceInv, ServiceTypeOK, Alone, Rests, ContextKept
<1>2. \A c \in Callers : Rests(c)' <=> Rests(c)
  BY DEF Rests
<1>3. ASSUME NEW c \in Callers, Busy(c)
      PROVE  Busy(c)'
  <2>1. \/ slot'.retired = slot.retired /\ slot'.reserved = slot.reserved
        \/ /\ ~slot.owner /\ slot.retired # None /\ slot'.retired = None
           /\ slot'.reserved = IF NoModel /\ context = None THEN FALSE
                               ELSE slot.reserved
    OBVIOUS
  <2>2. CASE slot'.retired = slot.retired /\ slot'.reserved = slot.reserved
    BY <1>3, <2>2
       DEF Busy, Building, Showing, Capturing, Vacant, NoModel, PlaceOfRetired,
           OnTop, SawCurrent
  <2>3. CASE /\ ~slot.owner /\ slot.retired # None /\ slot'.retired = None
             /\ slot'.reserved = IF NoModel /\ context = None THEN FALSE
                                 ELSE slot.reserved
    BY <1>3, <2>3
       DEF Busy, Building, Showing, Capturing, Vacant, NoModel, PlaceOfRetired,
           OnTop, SawCurrent
  <2> QED
    BY <2>1, <2>2, <2>3
<1>4. Calm => Calm'
  BY DEF ServiceInv, ContextKept, Calm, NoModel, Vacant, PlaceOfRetired
<1> QED
  BY <1>1, <1>2, <1>3, <1>4 DEF ServiceInv, Staged

\* acquireRuntime
LEMMA AcquireInv ==
  ASSUME ServiceInv, NEW r \in Readers, Acquire(r)
  PROVE  ServiceInv'
<1>1. /\ reading[r] = None
      /\ reading' = [reading EXCEPT ![r] = active.gen]
      /\ slot' = [slot EXCEPT !.leases = @ + 1]
      /\ UNCHANGED <<mode, rev, active, context, held, admin, pc, job, trouble>>
  BY DEF Acquire
<1>2. ServiceTypeOK /\ LeasesCounted
  BY DEF ServiceInv
<1>3. /\ slot' \in Slots /\ slot'.leases = slot.leases + 1
      /\ slot'.oldLeases = slot.oldLeases /\ slot'.retired = slot.retired
      /\ slot'.owner = slot.owner /\ slot'.reserved = slot.reserved
      /\ slot'.build = slot.build /\ slot'.visible = slot.visible
      /\ slot'.captured = slot.captured
  BY <1>1, <1>2 DEF ServiceTypeOK, Slots
<1>4. active.gen \in Nat /\ active.gen # None
  BY <1>2, ServiceAssumption DEF ServiceTypeOK, Revisions
<1>5. reading' \in [Readers -> Nat \cup {None}]
  BY <1>1, <1>2, <1>4 DEF ServiceTypeOK
<1>6. /\ NewReaders' = NewReaders \cup {r} /\ r \notin NewReaders
      /\ OldReaders' = OldReaders
  BY <1>1, <1>2, <1>4 DEF ServiceTypeOK, NewReaders, OldReaders
<1>7. IsFiniteSet(NewReaders)
  BY ServiceAssumption, FS_Subset DEF NewReaders
<1>8. Cardinality(NewReaders') = Cardinality(NewReaders) + 1
  BY <1>6, <1>7, FS_AddElement
<1>9. LeasesCounted'
  BY <1>1, <1>2, <1>3, <1>5, <1>6, <1>8 DEF LeasesCounted, ServiceTypeOK
<1> QED
  BY <1>1, <1>3, <1>5, <1>9, ReaderStep

\* releaseRuntimeLease
LEMMA ReleaseInv ==
  ASSUME ServiceInv, NEW r \in Readers, Release(r)
  PROVE  ServiceInv'
<1>1. /\ reading[r] # None
      /\ slot' = LeaseReleased(slot, reading[r])
      /\ reading' = [reading EXCEPT ![r] = None]
      /\ UNCHANGED <<mode, rev, active, context, held, admin, pc, job, trouble>>
  BY DEF Release
<1>2. ServiceTypeOK /\ LeasesCounted /\ slot \in Slots
  BY DEF ServiceInv, ServiceTypeOK
<1>3. /\ reading' \in [Readers -> Nat \cup {None}]
      /\ reading[r] \in {active.gen, slot.retired}
      /\ active.gen \in Nat /\ active.gen # None
      /\ slot.leases \in Nat /\ slot.oldLeases \in Nat
  BY <1>1, <1>2, ServiceAssumption
     DEF ServiceTypeOK, LeasesCounted, Revisions, Slots
<1>4. IsFiniteSet(NewReaders) /\ IsFiniteSet(OldReaders)
  BY ServiceAssumption, FS_Subset DEF NewReaders, OldReaders
<1>5. CASE reading[r] = active.gen
  <2>1. slot' = [slot EXCEPT !.leases = @ - 1]
    BY <1>1, <1>5 DEF LeaseReleased
  <2>2. /\ NewReaders' = NewReaders \ {r} /\ r \in NewReaders
        /\ OldReaders' = OldReaders
    BY <1>1, <1>2, <1>3, <1>5 DEF ServiceTypeOK, NewReaders, OldReaders
  <2>3. /\ Cardinality(NewReaders') = slot.leases - 1 /\ slot.leases # 0
        /\ Cardinality(OldReaders') = slot.oldLeases
    BY <1>2, <1>4, <2>2, FS_RemoveElement, FS_EmptySet DEF LeasesCounted
  <2>4. /\ slot' \in Slots /\ slot'.leases = slot.leases - 1
        /\ slot'.oldLeases = slot.oldLeases /\ slot'.retired = slot.retired
        /\ slot'.owner = slot.owner /\ slot'.reserved = slot.reserved
        /\ slot'.build = slot.build /\ slot'.visible = slot.visible
        /\ slot'.captured = slot.captured
    BY <1>2, <1>3, <2>1, <2>3 DEF Slots
  <2>5. LeasesCounted'
    BY <1>1, <1>2, <1>3, <2>3, <2>4 DEF LeasesCounted, ServiceTypeOK
  <2> QED
    BY <1>1, <1>3, <2>4, <2>5, ReaderStep
<1>6. CASE reading[r] # active.gen
  <2> DEFINE rest == [slot EXCEPT !.oldLeases = @ - 1]
  <2>1. reading[r] = slot.retired /\ slot.retired # None
    BY <1>1, <1>3, <1>6
  <2>2. slot' = IF rest.oldLeases = 0 /\ ~slot.owner THEN Freed(rest) ELSE rest
    BY <1>1, <1>6, <2>1 DEF LeaseReleased
  <2>3. /\ OldReaders' = OldReaders \ {r} /\ r \in OldReaders
        /\ NewReaders' = NewReaders
    BY <1>1, <1>2, <1>3, <1>6 DEF ServiceTypeOK, NewReaders, OldReaders
  <2>4. /\ Cardinality(OldReaders') = slot.oldLeases - 1 /\ slot.oldLeases # 0
        /\ Cardinality(NewReaders') = slot.leases
    BY <1>2, <1>4, <2>3, FS_RemoveElement, FS_EmptySet DEF LeasesCounted
  <2>5. /\ rest \in Slots /\ rest.oldLeases = slot.oldLeases - 1
        /\ rest.leases = slot.leases /\ rest.retired = slot.retired
        /\ rest.owner = slot.owner /\ rest.reserved = slot.reserved
        /\ rest.build = slot.build /\ rest.visible = slot.visible
        /\ rest.captured = slot.captured
    BY <1>2, <1>3, <2>4 DEF Slots
  <2> HIDE DEF rest
  <2>6. CASE rest.oldLeases = 0 /\ ~slot.owner
    <3>1. slot' = Freed(rest)
      BY <2>2, <2>6
    <3>2. /\ slot' \in Slots /\ slot'.retired = None
          /\ slot'.owner = slot.owner /\ slot'.leases = slot.leases
          /\ slot'.oldLeases = 0
          /\ slot'.build = slot.build /\ slot'.visible = slot.visible
          /\ slot'.captured = slot.captured
          /\ slot'.reserved = IF NoModel /\ context = None THEN FALSE
                              ELSE slot.reserved
      BY <2>5, <2>6, <3>1 DEF Freed, Slots, NoModel
    <3>3. OldReaders' = {}
      BY <1>4, <2>3, <2>4, <2>5, <2>6, FS_RemoveElement, FS_EmptySet
    <3>4. \A o \in Readers : reading'[o] \in {None, active.gen}
      BY <1>1, <3>3 DEF OldReaders
    <3>5. LeasesCounted'
      BY <1>1, <2>4, <2>5, <2>6, <3>2, <3>4 DEF LeasesCounted
    <3> QED
      BY <1>1, <1>3, <2>1, <2>6, <3>2, <3>5, ReaderStep
  <2>7. CASE ~(rest.oldLeases = 0 /\ ~slot.owner)
    <3>1. slot' = rest
      BY <2>2, <2>7
    <3>2. LeasesCounted'
      BY <1>1, <1>2, <1>3, <2>4, <2>5, <2>7, <3>1
         DEF LeasesCounted, ServiceTypeOK
    <3> QED
      BY <1>1, <1>3, <2>5, <3>1, <3>2, ReaderStep
  <2> QED
    BY <2>6, <2>7
<1> QED
  BY <1>5, <1>6

-----------------------------------------------------------------------------
(* Theorems *)

\* Every step keeps the invariant.
LEMMA NextInv ==
  ASSUME ServiceInv, Serialised, [Next]_vars
  PROVE  ServiceInv'
<1>1. ASSUME NEW r \in Readers, Acquire(r) \/ Release(r)
      PROVE  ServiceInv'
  BY <1>1, AcquireInv, ReleaseInv
<1>2. ASSUME NEW c \in Callers, ChangeNext(c)
      PROVE  ServiceInv'
  <2>1. ASSUME NEW edit \in Edits, See(c, edit)
        PROVE  ServiceInv'
    BY <2>1, SeeInv
  <2>2. CASE BeginPreview(c)
    BY <2>2, BeginPreviewInv
  <2>3. CASE FinishCopy(c)
    BY <2>3, FinishCopyInv
  <2>4. CASE InstallPreview(c)
    BY <2>4, InstallPreviewInv
  <2>5. CASE Validate(c)
    BY <2>5, ValidateInv
  <2>6. CASE CancelPreview(c)
    BY <2>6, CancelPreviewInv
  <2>7. CASE CancelEnds(c)
    BY <2>7, CancelEndsInv
  <2>8. CASE Capture(c)
    BY <2>8, CaptureInv
  <2>9. CASE Lock(c)
    BY <2>9, LockInv
  <2>10. CASE BeginCommit(c)
    BY <2>10, BeginCommitInv
  <2>11. CASE Publish(c)
    BY <2>11, PublishInv
  <2>12. CASE Retire(c)
    BY <2>12, RetireInv
  <2>13. CASE EndCommit(c)
    BY <2>13, EndCommitInv
  <2>14. CASE CommitFails(c)
    BY <2>14, CommitFailsInv
  <2>15. CASE EndFailed(c)
    BY <2>15, EndFailedInv
  <2>16. ASSUME NEW cause \in {"unknown", "postCommit", "target", "prepare"},
                CommitUnresolved(c, cause)
         PROVE  ServiceInv'
    BY <2>16, CommitUnresolvedInv
  <2> QED
    BY <1>2, <2>1, <2>2, <2>3, <2>4, <2>5, <2>6, <2>7, <2>8, <2>9, <2>10, <2>11,
       <2>12, <2>13, <2>14, <2>15, <2>16 DEF ChangeNext
<1>3. CASE \/ AdminLocks \/ AdminLeaves
           \/ ResolveOld \/ ResolveNew \/ ResolveFails
           \/ ResolveRetires \/ ResolveEnds
  BY <1>3, AdminLockInv, ResolveOldInv, ResolveNewInv, ResolveFailsInv,
     AdminRetiresInv, AdminEndsInv
<1>4. CASE \/ ResetBegins \/ ResetCancelled \/ ResetPrepares \/ ResetPublishes
           \/ ResetRetires \/ ResetFinalizes
  BY <1>4, ResetBeginsInv, ResetCancelledInv, ResetPreparesInv,
     ResetPublishesInv, AdminRetiresInv, AdminEndsInv
<1>5. CASE UNCHANGED vars
  BY <1>5 DEF vars, ServiceInv, ServiceTypeOK, Alone, Rests, LeasesCounted,
     NewReaders, OldReaders, ContextKept, Staged, Busy, Calm, Building, Showing,
     Capturing, Vacant, NoModel, PlaceOfRetired, OnTop, SawCurrent
<1> QED
  BY <1>1, <1>2, <1>3, <1>4, <1>5 DEF Next

\* The service starts calm.
LEMMA InitInv ==
  ASSUME Init
  PROVE  ServiceInv
<1>1. ServiceTypeOK
  BY ServiceAssumption
     DEF Init, ServiceTypeOK, Modes, Revisions, Slots, EmptySlot, AdminStages,
         ChangeStages, NoJob, Jobs, Edits
<1>2. NewReaders = {} /\ OldReaders = {}
  BY ServiceAssumption DEF Init, NewReaders, OldReaders
<1>3. LeasesCounted
  BY <1>2, FS_EmptySet DEF LeasesCounted, Init, EmptySlot
<1>4. Alone /\ ContextKept /\ Staged
  BY DEF Init, Alone, ContextKept, Staged, Rests, Calm, NoModel, EmptySlot
<1> QED
  BY <1>1, <1>3, <1>4 DEF ServiceInv

\* Under the call serializer every stage of a change, a resolution or a reset
\* has exactly the model, the place and the mutation lease it accounts for, for
\* any number of tasks, readers, configurations and failures.
THEOREM ServiceInvariant ==
  ASSUME Serialised
  PROVE  Spec => []ServiceInv
<1>1. Init => ServiceInv
  BY InitInv
<1>2. ServiceInv /\ [Next]_vars => ServiceInv'
  BY NextInv
<1> QED
  BY <1>1, <1>2, PTL DEF Spec

\* The state of the service keeps its declared shape; the lease counters never
\* go below zero.
THEOREM ServiceTypeCorrect ==
  ASSUME Serialised
  PROVE  Spec => []ServiceTypeOK
<1>1. ServiceInv => ServiceTypeOK
  BY DEF ServiceInv
<1> QED
  BY <1>1, ServiceInvariant, PTL

\* No reader and no owner holds a retired generation while there is none.
LEMMA NothingRetired ==
  ASSUME ServiceInv, slot.retired = None
  PROVE  RetiredHeld = {}
BY DEF ServiceInv, LeasesCounted, RetiredHeld

\* What is held of a retired generation is the one the slot knows.
LEMMA RetiredKnown ==
  ASSUME ServiceInv
  PROVE  RetiredHeld \subseteq {slot.retired}
BY DEF ServiceInv, LeasesCounted, RetiredHeld

\* The candidates of a caller at work are its own, and only before it publishes.
LEMMA BusyCandidates ==
  ASSUME ServiceInv, NEW c \in Callers, ~Rests(c)
  PROVE  \/ slot.retired = None /\ \E x : Candidates \subseteq {x}
         \/ Candidates = {}
<1>1. /\ Busy(c) /\ admin = "idle" /\ ServiceTypeOK
      /\ \A d \in Callers : pc[d] \in {"copying", "built"} => d = c
  BY AtWork DEF ServiceInv, Alone, Rests
<1>2. CASE pc[c] \in {"copying", "built"}
  <2>1. Candidates \subseteq {c} /\ slot.retired = None
    BY <1>1, <1>2 DEF Busy, Building, Vacant, Candidates
  <2> QED
    BY <2>1
<1>3. CASE pc[c] \in {"installed", "validated"}
  <2>1. Candidates \subseteq {c} /\ slot.retired = None
    BY <1>1, <1>3 DEF Busy, Showing, Vacant, Candidates
  <2> QED
    BY <2>1
<1>4. CASE pc[c] \in {"captured", "locked", "commit"}
  <2>1. Candidates \subseteq {c} /\ slot.retired = None
    BY <1>1, <1>4 DEF Busy, Capturing, Vacant, Candidates
  <2> QED
    BY <2>1
<1>5. CASE pc[c] \in {"retire", "ending", "failed", "cancelled"}
  BY <1>1, <1>5 DEF Busy, NoModel, Vacant, Candidates
<1>6. CASE pc[c] = "cancel"
  <2>1. CASE Showing(c)
    <3>1. Candidates \subseteq {c} /\ slot.retired = None
      BY <1>1, <1>6, <2>1 DEF Showing, Vacant, Candidates
    <3> QED
      BY <3>1
  <2>2. CASE NoModel /\ slot.retired = None
    <3>1. Candidates \subseteq {"admin"}
      BY <1>1, <1>6, <2>2 DEF NoModel, Candidates
    <3> QED
      BY <2>2, <3>1
  <2> QED
    BY <1>1, <1>6, <2>1, <2>2 DEF Busy
<1> QED
  BY <1>1, <1>2, <1>3, <1>4, <1>5, <1>6 DEF ServiceTypeOK, ChangeStages, Rests

\* A set within a singleton has at most one element.
LEMMA AtMostOne ==
  ASSUME NEW S, NEW x, S \subseteq {x}
  PROVE  Cardinality(S) \in {0, 1}
<1>1. S = {} \/ S = {x}
  OBVIOUS
<1> QED
  BY <1>1, FS_EmptySet, FS_Singleton

\* Under the call serializer there are never more than two full configurations,
\* however many tasks change the configuration and readers hold on to an old
\* one (previewModelReserved_).
THEOREM ServiceModelBudget ==
  ASSUME Serialised
  PROVE  Spec => []ModelBudget
<1>1. ASSUME ServiceInv
      PROVE  ModelBudget
  <2>1. \/ slot.retired = None /\ \E x : Candidates \subseteq {x}
        \/ Candidates = {}
    <3>1. CASE \E c \in Callers : ~Rests(c)
      BY <1>1, <3>1, BusyCandidates
    <3>2. CASE \A c \in Callers : Rests(c)
      <4>1. Calm /\ ContextKept
        BY <1>1, <3>2 DEF ServiceInv, Staged
      <4>2. Candidates = IF context # None \/ admin = "prepared"
                         THEN {"admin"} ELSE {}
        BY <3>2, <4>1 DEF Candidates, Rests, Calm, NoModel
      <4> QED
        BY <4>1, <4>2 DEF Calm, ContextKept, Vacant
    <3> QED
      BY <3>1, <3>2
  <2>2. CASE slot.retired = None /\ \E x : Candidates \subseteq {x}
    <3>1. Cardinality(Candidates) \in {0, 1}
      BY <2>2, AtMostOne
    <3>2. Cardinality(RetiredHeld) = 0
      BY <1>1, <2>2, NothingRetired, FS_EmptySet
    <3> QED
      BY <3>1, <3>2 DEF ModelBudget
  <2>3. CASE Candidates = {}
    <3>1. Cardinality(RetiredHeld) \in {0, 1}
      BY <1>1, RetiredKnown, AtMostOne
    <3>2. Cardinality(Candidates) = 0
      BY <2>3, FS_EmptySet
    <3> QED
      BY <3>1, <3>2 DEF ModelBudget
  <2> QED
    BY <2>1, <2>2, <2>3
<1> QED
  BY <1>1, ServiceInvariant, PTL

\* Under the call serializer no way through a change, a resolution or a reset
\* leaves the place, the mutation lease or the preview behind
\* (commitConfigurationChange, releaseRuntimeLease).
THEOREM ServiceSlotReturned ==
  ASSUME Serialised
  PROVE  Spec => []SlotReturned
<1>1. ASSUME ServiceInv
      PROVE  SlotReturned
  <2> SUFFICES ASSUME \A c \in Callers : pc[c] \in {"idle", "seen"},
                      admin = "idle", mode = "Operational", RetiredHeld = {}
               PROVE  /\ BudgetFree /\ held = None
                      /\ slot.visible = None /\ slot.captured = None
    BY DEF SlotReturned
  <2>1. Calm /\ ContextKept /\ LeasesCounted
    BY <1>1 DEF ServiceInv, Staged, Rests
  <2>2. OldReaders = {}
    BY DEF RetiredHeld, OldReaders
  <2>3. slot.oldLeases = 0
    BY <2>1, <2>2, FS_EmptySet DEF LeasesCounted
  <2>4. slot.retired = None /\ ~slot.owner
    BY <2>1, <2>3 DEF LeasesCounted, Calm
  <2> QED
    BY <2>1, <2>4 DEF Calm, ContextKept, NoModel, BudgetFree, Retiring
<1> QED
  BY <1>1, ServiceInvariant, PTL

\* Under the call serializer a change is published only on top of the
\* configuration it was made from, for any number of tasks that change it
\* (validatePreviewForConfirmationLocked, beginPreview).
THEOREM ServiceStaleEditRefused ==
  ASSUME Serialised
  PROVE  Spec => StaleEditRefused
<1>1. ASSUME ServiceInv, NEW c \in Callers, pc[c] = "commit"
      PROVE  /\ job[c].user = active.user /\ job[c].base = active.gen
             /\ SawCurrent(c)
  <2>1. Busy(c)
    BY <1>1, AtWork DEF Rests
  <2> QED
    BY <1>1, <2>1 DEF Busy, OnTop
<1>2. ServiceInv =>
        \A c \in Callers :
          pc[c] = "commit" /\ pc'[c] = "retire" =>
            /\ job[c].user = active.user /\ job[c].base = active.gen
            /\ SawCurrent(c)
  BY <1>1
<1> QED
  BY <1>2, ServiceInvariant, PTL DEF StaleEditRefused

=============================================================================
