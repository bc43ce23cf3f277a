---------------------- MODULE ConfigurationGraphStore ----------------------
(***************************************************************************)
(* The configuration graph in flash (configuration_graph_store.cpp) and    *)
(* the commits ConfigurationService runs on it.  A root record names an    *)
(* active manifest and a fallback manifest, a manifest names one revision  *)
(* of each document.  A commit writes the changed documents, a manifest    *)
(* and at last a root, each into a slot nothing valid refers to.           *)
(*                                                                         *)
(* Writes are single steps: the power may fail during and between them,    *)
(* and an interrupted or unknown write leaves what IStateStore allows: the *)
(* old record, the new one, none, or bytes that do not decode.  A read may *)
(* fail at any time.  One storage epoch and one schema generation; what a  *)
(* reference holds of the payload (length and CRC) stands for the payload. *)
(***************************************************************************)
EXTENDS Integers, FiniteSetsExt, Sequences

CONSTANTS
  None,           \* std::nullopt
  Absent,         \* a slot that reads NotFound
  Corrupt,        \* a slot whose envelope does not decode
  DocumentOrder,  \* the documents in the order executePreparedCommit() writes
  Contents,       \* contents a document can have
  FactoryContent, \* the content of the factory configuration
  VersionMax,     \* std::numeric_limits<std::uint64_t>::max()
  MaxLosses       \* records that are lost at rest

ASSUME StoreConstants ==
  /\ DocumentOrder \in Seq(STRING)
  /\ \A i \in DOMAIN DocumentOrder :
       DocumentOrder[i] \notin {"manifest", "root"}
  /\ FactoryContent \in Contents
  /\ VersionMax \in Nat \ {0}
  /\ MaxLosses \in Nat

VARIABLES
  store,    \* the slots of every record group
  mode,     \* ConfigurationService::mode_
  graph,    \* currentGraph_, or None
  context,  \* the prepared commit, as resolutionContext_ keeps it, or None
  cause,    \* runtimeFailureCause_; PersistentGraphFailure stands for the
            \* causes of a scan that found damage
  losses    \* records lost at rest so far

vars == <<store, mode, graph, context, cause, losses>>

Documents == {DocumentOrder[i] : i \in DOMAIN DocumentOrder}

Groups == Documents \cup {"manifest", "root"}

SlotCount(group) ==
  CASE group = "root" -> 2 [] group = "manifest" -> 3 [] OTHER -> 4

Slots(group) == 0 .. SlotCount(group) - 1

Versions == 1 .. VersionMax

DocumentReferences == [slot : 0 .. 3, version : Versions, payload : Contents]
ManifestPayloads == [Documents -> DocumentReferences]

\* A branch: the reference to a manifest, through it to every document.
Branches ==
  [slot : Slots("manifest"), version : Versions, payload : ManifestPayloads]
RootPayloads == [active : Branches, fallback : Branches \cup {None}]

Records(group) ==
  [version : Versions,
   payload : CASE group = "root" -> RootPayloads
               [] group = "manifest" -> ManifestPayloads
               [] OTHER -> Contents]

\* LoadedConfigurationGraph
Graphs ==
  [rootSlot : Slots("root"), root : Records("root"), active : Branches,
   fallback : Branches \cup {None}, selectedFallback : BOOLEAN]

Cells(group) == Records(group) \cup {Absent, Corrupt}

\* ConfigurationService::resolutionContext_
Contexts ==
  [old : Graphs, new : Graphs, writes : SUBSET (Documents \cup {"manifest"}),
   previousTarget : Cells("root"),
   phase : {"records", "root", "written", "unknown"}]

\* What stands for a missing value is none of the values.
ASSUME StoreNone ==
  /\ None \notin Nat \cup Branches \cup Graphs \cup Contexts
  /\ None \notin [Documents -> Contents]
  /\ \A group \in Groups :
       Absent \notin Records(group) /\ Corrupt \notin Records(group)

-----------------------------------------------------------------------------
(* Records, references and branches *)

Record(version, payload) == [version |-> version, payload |-> payload]

\* ConfigurationRecordReference
Reference(slot, record) ==
  [slot |-> slot, version |-> record.version, payload |-> record.payload]

Readable(st, group) ==
  {i \in Slots(group) : st[group][i] \notin {Absent, Corrupt}}

HasRecord(st, group, ref) ==
  /\ ref.slot \in Readable(st, group)
  /\ Reference(ref.slot, st[group][ref.slot]) = ref

\* The manifest and every document it names are present and unchanged.
BranchUsable(st, ref) ==
  /\ HasRecord(st, "manifest", ref)
  /\ \A d \in Documents : HasRecord(st, d, ref.payload[d])

Configuration(ref) == [d \in Documents |-> ref.payload[d].payload]

-----------------------------------------------------------------------------
(* Scans *)

\* Two records of one group with the same version and different bytes.
IdentityCollision(st) ==
  \E group \in Groups : \E i, j \in Readable(st, group) :
    /\ st[group][i].version = st[group][j].version
    /\ st[group][i] # st[group][j]

HighWater(st, group) ==
  Max({0} \cup {st[group][i].version : i \in Readable(st, group)})

\* A mutant: a root selects its active branch or nothing.
ActiveBranchOnly(st, root) ==
  IF BranchUsable(st, root.payload.active) THEN root.payload.active ELSE None

\* The branch that a root selects: its active one, else its fallback.
SelectedBranch(st, root) ==
  IF BranchUsable(st, root.payload.active) THEN root.payload.active
  ELSE IF /\ root.payload.fallback # None
          /\ BranchUsable(st, root.payload.fallback)
       THEN root.payload.fallback
       ELSE None

\* LoadedConfigurationGraph of a root that selects a branch.
LoadRoot(st, slot) ==
  LET root == st["root"][slot]
      active == SelectedBranch(st, root)
      promoted == active # root.payload.active
      fallback == root.payload.fallback
  IN  [rootSlot |-> slot, root |-> root, active |-> active,
       fallback |->
         IF ~promoted /\ fallback # None /\ BranchUsable(st, fallback)
         THEN fallback ELSE None,
       selectedFallback |-> promoted]

\* The highest root that selects a branch; of two equal ones the first slot.
LoadCanonicalGraph(st) ==
  LET usable == {i \in Readable(st, "root") :
                   SelectedBranch(st, st["root"][i]) # None}
      before(i, j) == \/ st["root"][i].version > st["root"][j].version
                      \/ /\ st["root"][i].version = st["root"][j].version
                         /\ i <= j
  IN  IF usable = {} \/ IdentityCollision(st) THEN None
      ELSE LoadRoot(st, CHOOSE i \in usable : \A j \in usable : before(i, j))

\* The other roots that outrank the expected one, or a changed expected one.
BasisMoved(st, g) ==
  \/ \E i \in Readable(st, "root") : st["root"][i].version > g.root.version
  \/ st["root"][g.rootSlot] # g.root
  \/ IF g.selectedFallback THEN BranchUsable(st, g.root.payload.active)
     ELSE g.root.payload.active # g.active

FallbackConfirmed(st, g) ==
  IF g.root.payload.fallback # None /\ ~g.selectedFallback
  THEN g.fallback = g.root.payload.fallback /\ BranchUsable(st, g.fallback)
  ELSE g.fallback = None

ValidationScan(st, g) ==
  IF IdentityCollision(st) THEN "IdentityCollision"
  ELSE IF \E i \in Slots("root") : st["root"][i] = Corrupt
       THEN "IntegrityFailure"
  ELSE IF BasisMoved(st, g) THEN "ActiveBasisMismatch"
  ELSE IF ~BranchUsable(st, g.active) \/ ~FallbackConfirmed(st, g)
       THEN "IntegrityFailure"
  ELSE "Success"

-----------------------------------------------------------------------------
(* Preparing a commit *)

ReferenceOf(branch, group) ==
  IF group = "manifest" THEN branch ELSE branch.payload[group]

\* protectBranch() of both branches of the graph
ProtectedSlots(g, group) ==
  {ReferenceOf(branch, group).slot : branch \in {g.active, g.fallback} \ {None}}

\* The next slot that is not protected, in turn, or None.
ChooseSlot(group, after, protected) ==
  LET count == SlotCount(group)
      free == {n \in 1 .. count : (after + n) % count \notin protected}
  IN  IF free = {} THEN None ELSE (after + Min(free)) % count

\* A mutant: the highest version that was found is given again.
HighestVersion(st, group) == HighWater(st, group)

NextVersion(st, group) == HighWater(st, group) + 1

\* A mutant: the first slot that the active branch does not use.
FirstOtherSlot(g, group) ==
  Min(Slots(group) \ {ReferenceOf(g.active, group).slot})

PlannedSlot(g, group) ==
  ChooseSlot(group, ReferenceOf(g.active, group).slot, ProtectedSlots(g, group))

PlannedReference(st, g, group, payload) ==
  [slot |-> PlannedSlot(g, group), version |-> NextVersion(st, group),
   payload |-> payload]

ChangedDocuments(g, candidate) ==
  {d \in Documents : candidate[d] # Configuration(g.active)[d]}

PlanSlots(st, g, candidate) ==
  LET written == ChangedDocuments(g, candidate) \cup {"manifest"}
  IN  /\ \A group \in written : PlannedSlot(g, group) # None
      /\ \A group \in written \cup {"root"} : HighWater(st, group) < VersionMax

\* PreparedConfigurationCommit
PrepareCommit(st, g, candidate) ==
  LET changed == ChangedDocuments(g, candidate)
      documents ==
        [d \in Documents |-> IF d \in changed
                             THEN PlannedReference(st, g, d, candidate[d])
                             ELSE g.active.payload[d]]
      manifest == PlannedReference(st, g, "manifest", documents)
      rootSlot == 1 - g.rootSlot
      root == Record(NextVersion(st, "root"),
                     [active |-> manifest, fallback |-> g.active])
  IN  [old |-> g,
       new |-> [rootSlot |-> rootSlot, root |-> root, active |-> manifest,
                fallback |-> g.active, selectedFallback |-> FALSE],
       writes |-> changed \cup {"manifest"},
       previousTarget |-> st["root"][rootSlot],
       phase |-> "records"]

-----------------------------------------------------------------------------
(* Resolving a root write of unknown outcome *)

\* The target slot holds what it held when the commit was prepared.
PriorTargetPresent(st, c) == st["root"][c.new.rootSlot] = c.previousTarget

\* What a validation scan of the graph means for the resolution.
Resolved(scan, recovered) ==
  CASE scan = "Success" -> recovered
    [] scan = "ActiveBasisMismatch" -> "StillIndeterminate"
    [] OTHER -> "RuntimeFailure"

ResolveCommitDetailed(st, c) ==
  IF st["root"][c.new.rootSlot] = c.new.root
  THEN Resolved(ValidationScan(st, c.new), "RecoveredNew")
  ELSE IF PriorTargetPresent(st, c)
       THEN Resolved(ValidationScan(st, c.old), "RecoveredOld")
       ELSE "StillIndeterminate"

-----------------------------------------------------------------------------
(* Steps *)

Put(group, slot, record) == [store EXCEPT ![group][slot] = record]

\* What a write may leave in its slot when it fails or its end is not known.
WriteOutcomes(group, slot, record) ==
  {store[group][slot], record, Absent, Corrupt}

\* The documents are written in their order, the manifest after them.
NextGroup(writes) ==
  LET due == {i \in DOMAIN DocumentOrder : DocumentOrder[i] \in writes}
  IN  IF due = {} THEN "manifest" ELSE DocumentOrder[Min(due)]

PendingWrite ==
  IF context.phase = "root"
  THEN [group |-> "root", slot |-> context.new.rootSlot,
        record |-> context.new.root]
  ELSE LET group == NextGroup(context.writes)
           ref == ReferenceOf(context.new.active, group)
       IN  [group |-> group, slot |-> ref.slot,
            record |-> Record(ref.version, ref.payload)]

WriteUnderWay ==
  /\ mode = "CommitInProgress"
  /\ \/ context.phase = "root"
     \/ context.phase = "records" /\ context.writes # {}

FactoryGraph ==
  LET documents == [d \in Documents |-> Reference(0, Record(1, FactoryContent))]
      manifest == Reference(0, Record(1, documents))
      first == [group \in Groups |->
                  CASE group = "root" ->
                         Record(1, [active |-> manifest, fallback |-> None])
                    [] group = "manifest" -> Record(1, documents)
                    [] OTHER -> Record(1, FactoryContent)]
  IN  [group \in Groups |->
         [i \in Slots(group) |-> IF i = 0 THEN first[group] ELSE Absent]]

Init ==
  /\ store = FactoryGraph
  /\ mode = "NoRuntime"
  /\ graph = None /\ context = None /\ cause = None
  /\ losses = 0

EnterFailClosed(newMode, newCause) ==
  /\ mode' = newMode /\ cause' = newCause
  /\ UNCHANGED graph

\* The commit failed before it took effect: the old configuration goes on.
Abandon ==
  /\ mode' = "Operational" /\ cause' = None
  /\ context' = None
  /\ UNCHANGED graph

PublishPrepared ==
  /\ graph' = context.new
  /\ mode' = "Operational" /\ cause' = None
  /\ context' = None

\* boot() of an initialized store.  A collision or a failed read leaves
\* NoRuntime.
Boot ==
  /\ mode = "NoRuntime"
  /\ \/ /\ LoadCanonicalGraph(store) # None
        /\ graph' = LoadCanonicalGraph(store)
        /\ mode' = "Operational"
     \/ /\ LoadCanonicalGraph(store) = None /\ ~IdentityCollision(store)
        /\ mode' = "ResetEligibleNoRuntime"
        /\ UNCHANGED graph
  /\ UNCHANGED <<store, context, cause, losses>>

\* confirmPreview() up to the first write.  A moved basis, a full version
\* counter or no free slot reject the change and leave everything as it is.
Confirm(candidate) ==
  /\ mode = "Operational"
  /\ candidate # Configuration(graph.active)
  /\ \/ /\ ValidationScan(store, graph) = "Success"
        /\ PlanSlots(store, graph, candidate)
        /\ context' = PrepareCommit(store, graph, candidate)
        /\ mode' = "CommitInProgress"
        /\ UNCHANGED <<graph, cause>>
     \/ /\ \/ /\ ValidationScan(store, graph)
                   \in {"IntegrityFailure", "IdentityCollision"}
              /\ EnterFailClosed("RuntimeFailure", "PersistentGraphFailure")
           \/ EnterFailClosed("RuntimeFailure", "PersistentStoreReadFailure")
        /\ UNCHANGED context
  /\ UNCHANGED <<store, losses>>

\* writeAndReadBack() of the next document or of the manifest
WriteRecord ==
  /\ mode = "CommitInProgress" /\ context.phase = "records"
  /\ context.writes # {}
  /\ \E outcome \in WriteOutcomes(PendingWrite.group, PendingWrite.slot,
                                  PendingWrite.record) :
       /\ store' = Put(PendingWrite.group, PendingWrite.slot, outcome)
       /\ \/ Abandon
          \/ /\ outcome = PendingWrite.record
             /\ context' = [context EXCEPT !.writes = @ \ {PendingWrite.group}]
             /\ UNCHANGED <<mode, graph, cause>>
  /\ UNCHANGED losses

\* Both branches of the new graph are read back before the root is written.
TargetVerified(st, c) ==
  BranchUsable(st, c.new.active) /\ BranchUsable(st, c.new.fallback)

VerifyTarget ==
  /\ mode = "CommitInProgress" /\ context.phase = "records"
  /\ context.writes = {}
  /\ \/ /\ TargetVerified(store, context)
        /\ context' = [context EXCEPT !.phase = "root"]
        /\ UNCHANGED <<mode, graph, cause>>
     \/ /\ \/ /\ ~TargetVerified(store, context)
              /\ EnterFailClosed("RuntimeFailure", "PersistentGraphFailure")
           \/ EnterFailClosed("RuntimeFailure", "PersistentStoreReadFailure")
        /\ UNCHANGED context
  /\ UNCHANGED <<store, losses>>

\* A mutant: a root write of unknown outcome is taken for a failed one.
WriteRootAssumingFailure ==
  /\ mode = "CommitInProgress" /\ context.phase = "root"
  /\ \/ /\ \E outcome \in WriteOutcomes("root", PendingWrite.slot,
                                        PendingWrite.record) :
             store' = Put("root", PendingWrite.slot, outcome)
        /\ Abandon
     \/ /\ store' = Put("root", PendingWrite.slot, PendingWrite.record)
        /\ context' = [context EXCEPT !.phase = "written"]
        /\ UNCHANGED <<mode, graph, cause>>
  /\ UNCHANGED losses

\* The write that commits: rejected, successful, or CommitOutcomeUnknown.
WriteRoot ==
  /\ mode = "CommitInProgress" /\ context.phase = "root"
  /\ \/ /\ Abandon
        /\ UNCHANGED store
     \/ /\ store' = Put("root", PendingWrite.slot, PendingWrite.record)
        /\ context' = [context EXCEPT !.phase = "written"]
        /\ UNCHANGED <<mode, graph, cause>>
     \/ /\ \E outcome \in WriteOutcomes("root", PendingWrite.slot,
                                        PendingWrite.record) :
             store' = Put("root", PendingWrite.slot, outcome)
        /\ context' = [context EXCEPT !.phase = "unknown"]
        /\ UNCHANGED <<mode, graph, cause>>
  /\ UNCHANGED losses

VerifyRoot ==
  /\ mode = "CommitInProgress" /\ context.phase = "written"
  /\ \/ /\ ValidationScan(store, context.new) = "Success"
        /\ PublishPrepared
     \/ /\ EnterFailClosed("RuntimeFailure", "PostCommitVerificationFailure")
        /\ UNCHANGED context
  /\ UNCHANGED <<store, losses>>

\* What both callers do with a resolution; a read of it may fail.
Resolve ==
  \/ ResolveCommitDetailed(store, context) = "RecoveredNew" /\ PublishPrepared
  \/ ResolveCommitDetailed(store, context) = "RecoveredOld" /\ Abandon
  \/ /\ EnterFailClosed("CommitIndeterminate",
                        "PersistentGraphVerificationFailure")
     /\ UNCHANGED context
  \/ /\ ResolveCommitDetailed(store, context) = "RuntimeFailure"
     /\ EnterFailClosed("RuntimeFailure", "PostCommitVerificationFailure")
     /\ UNCHANGED context

ResolveRoot ==
  /\ mode = "CommitInProgress" /\ context.phase = "unknown"
  /\ Resolve
  /\ UNCHANGED <<store, losses>>

ResolveIndeterminate ==
  /\ mode = "CommitIndeterminate"
  /\ Resolve
  /\ UNCHANGED <<store, losses>>

\* recoverRuntimeFailure() never goes back to the old configuration.
RecoverRuntimeFailure ==
  /\ mode = "RuntimeFailure" /\ context # None
  /\ cause = "PostCommitVerificationFailure"
  /\ ResolveCommitDetailed(store, context) = "RecoveredNew"
  /\ PublishPrepared
  /\ UNCHANGED <<store, losses>>

\* The write that is under way may end in any of its outcomes.
PowerLoss ==
  /\ mode # "NoRuntime"
  /\ IF WriteUnderWay
     THEN \E outcome \in WriteOutcomes(PendingWrite.group, PendingWrite.slot,
                                       PendingWrite.record) :
            store' = Put(PendingWrite.group, PendingWrite.slot, outcome)
     ELSE UNCHANGED store
  /\ mode' = "NoRuntime"
  /\ graph' = None /\ context' = None /\ cause' = None
  /\ UNCHANGED losses

\* The flash loses a record, a root only between two commits.
Lose ==
  /\ losses < MaxLosses
  /\ \E group \in Groups \
          (IF mode = "CommitInProgress" THEN {"root"} ELSE {}) :
     \E i \in Readable(store, group) :
       \E left \in {Absent, Corrupt} : store' = Put(group, i, left)
  /\ losses' = losses + 1
  /\ UNCHANGED <<mode, graph, context, cause>>

Next ==
  \/ Boot
  \/ \E candidate \in [Documents -> Contents] : Confirm(candidate)
  \/ WriteRecord \/ VerifyTarget \/ WriteRoot \/ VerifyRoot
  \/ ResolveRoot \/ ResolveIndeterminate \/ RecoverRuntimeFailure
  \/ PowerLoss \/ Lose

Spec == Init /\ [][Next]_vars

-----------------------------------------------------------------------------
(* Properties *)

\* The slots hold records or nothing, and the service has a graph whenever it
\* gives a configuration out, and a prepared commit whenever it runs one.
TypeOK ==
  /\ DOMAIN store = Groups
  /\ \A group \in Groups : store[group] \in [Slots(group) -> Cells(group)]
  /\ mode \in {"NoRuntime", "ResetEligibleNoRuntime", "Operational",
               "CommitInProgress", "CommitIndeterminate", "RuntimeFailure"}
  /\ IF mode \in {"NoRuntime", "ResetEligibleNoRuntime"}
     THEN graph = None /\ context = None /\ cause = None
     ELSE graph \in Graphs /\ context \in Contexts \cup {None}
  /\ mode \in {"CommitInProgress", "CommitIndeterminate"} => context # None
  /\ mode = "Operational" => context = None /\ cause = None
  /\ losses \in 0 .. MaxLosses

\* Whatever aborted and torn commits have left behind, a change can be
\* prepared, unless a root slot is damaged, a record was lost or a version
\* counter is used up.
CommitNeverBlocked ==
  /\ mode = "Operational" /\ losses = 0
  /\ \A i \in Slots("root") : store["root"][i] # Corrupt
  /\ \A group \in Groups : HighWater(store, group) < VersionMax
  => /\ ValidationScan(store, graph) = "Success"
     /\ \A candidate \in [Documents -> Contents] :
          PlanSlots(store, graph, candidate)

\* A version is never given to two different records of a group, so that no
\* scan ever finds the identity collision that takes the store out of service.
IdentityUnique == ~IdentityCollision(store)
=============================================================================
