------------------- MODULE ConfigurationGraphStoreProofs -------------------
(***************************************************************************)
(* Proofs about the configuration store, for any documents, contents and   *)
(* version limit and any number of lost records: versions name one record, *)
(* and, while the flash loses nothing, a change can always be prepared and *)
(* the code implements the atomic register; after the loss of one record   *)
(* that has a spare, a configuration can still be loaded.                  *)
(*                                                                         *)
(* The argument: while nothing is lost, the highest root has both of its   *)
(* branches whole (Whole), so it is the one a restart loads; the slots a   *)
(* commit writes are not in these branches, and its root is written only   *)
(* after its own branches are whole.  So the graph a restart loads changes *)
(* with the root write alone.                                              *)
(***************************************************************************)
EXTENDS MCConfigurationGraphStore, WellFoundedInduction, TLAPS

-----------------------------------------------------------------------------
(* Numbers *)

\* A non-empty set of naturals has a least element.
LEMMA LeastExists ==
  ASSUME NEW S \in SUBSET Nat, S # {}
  PROVE  \E m \in S : \A y \in S : m <= y
<1> DEFINE Less == OpToRel(<, Nat)
<1>1. \A x, y \in Nat : x < y => <<x, y>> \in Less
  BY DEF OpToRel
<1> HIDE DEF Less
<1>2. IsWellFoundedOn(Less, Nat)
  BY NatLessThanWellFounded DEF Less
<1>3. PICK m \in S : \A y \in S : ~(<<y, m>> \in Less)
  BY <1>2, WFMin
<1>4. \A y \in S : m <= y
  <2> TAKE y \in S
  <2>1. ~(y < m)
    BY <1>1, <1>3
  <2> QED
    BY <2>1
<1> QED
  BY <1>4

\* Min finds it.
LEMMA MinLeast ==
  ASSUME NEW S \in SUBSET Nat, S # {}
  PROVE  Min(S) \in S /\ \A y \in S : Min(S) <= y
<1>1. \E m \in S : \A y \in S : m <= y
  BY LeastExists
<1> QED
  BY <1>1 DEF Min

\* Max finds the greatest element of a set with an upper bound.
LEMMA MaxGreatest ==
  ASSUME NEW S \in SUBSET Nat, S # {}, NEW b \in Nat, \A x \in S : x <= b
  PROVE  Max(S) \in S /\ \A y \in S : y <= Max(S)
<1> DEFINE T == {b - x : x \in S}
<1>1. T \in SUBSET Nat /\ T # {}
  <2>1. \A x \in S : b - x \in Nat
    OBVIOUS
  <2> QED
    BY <2>1
<1>2. PICK d \in T : \A e \in T : d <= e
  BY <1>1, LeastExists
<1>3. PICK m \in S : d = b - m
  BY <1>2
<1>4. \A y \in S : m >= y
  <2> TAKE y \in S
  <2>1. b - m <= b - y
    BY <1>2, <1>3
  <2>2. m \in Nat /\ y \in Nat
    OBVIOUS
  <2> QED
    BY <2>1, <2>2
<1>5. Max(S) \in S /\ \A y \in S : Max(S) >= y
  BY <1>4 DEF Max
<1> QED
  BY <1>5

-----------------------------------------------------------------------------
(* Groups, slots and records *)

\* A store has the right cells in its slots.
Stored(st) ==
  /\ DOMAIN st = Groups
  /\ \A group \in Groups : st[group] \in [Slots(group) -> Cells(group)]

\* The documents are neither the manifest nor the root.
LEMMA GroupsApart ==
  /\ "manifest" \in Groups /\ "root" \in Groups /\ Documents \subseteq Groups
  /\ "manifest" \notin Documents /\ "root" \notin Documents
BY StoreConstants DEF Groups, Documents

LEMMA SlotNumbers ==
  /\ Slots("root") = 0 .. 1 /\ Slots("manifest") = 0 .. 2
  /\ \A d \in Documents : Slots(d) = 0 .. 3
BY GroupsApart DEF Slots, SlotCount

LEMMA RecordShapes ==
  /\ Records("root") = [version : Versions, payload : RootPayloads]
  /\ Records("manifest") = [version : Versions, payload : ManifestPayloads]
  /\ \A d \in Documents :
        Records(d) = [version : Versions, payload : Contents]
BY GroupsApart DEF Records

LEMMA RootRecord ==
  ASSUME NEW r \in Records("root")
  PROVE  r.version \in Versions /\ r.payload \in RootPayloads
<1>1. Records("root") = [version : Versions, payload : RootPayloads]
  BY RecordShapes
<1> HIDE DEF Records
<1>2. r \in [version : Versions, payload : RootPayloads]
  BY <1>1
<1> QED
  BY <1>2

LEMMA VersionsNat == Versions \subseteq Nat \ {0}
BY StoreConstants DEF Versions

\* What can be read is a record.
LEMMA ReadRecord ==
  ASSUME NEW st, Stored(st), NEW group \in Groups, NEW i \in Readable(st, group)
  PROVE  /\ i \in Slots(group) /\ st[group][i] \in Records(group)
         /\ st[group][i].version \in Versions
<1>1. st[group] \in [Slots(group) -> Cells(group)]
  BY DEF Stored
<1>2. i \in Slots(group) /\ st[group][i] \in Records(group)
  BY <1>1 DEF Readable, Cells
<1> QED
  BY <1>2 DEF Records

\* A record in a slot can be read.
LEMMA RecordReadable ==
  ASSUME NEW st, NEW group \in Groups, NEW i \in Slots(group),
         st[group][i] \in Records(group)
  PROVE  i \in Readable(st, group)
BY StoreNone DEF Readable

\* The highest version found bounds every version.
LEMMA HighWaterBounds ==
  ASSUME NEW st, Stored(st), NEW group \in Groups
  PROVE  /\ HighWater(st, group) \in 0 .. VersionMax
         /\ \A i \in Readable(st, group) :
               st[group][i].version <= HighWater(st, group)
<1> DEFINE S == {0} \cup {st[group][i].version : i \in Readable(st, group)}
<1>1. \A i \in Readable(st, group) : st[group][i].version \in 1 .. VersionMax
  BY ReadRecord DEF Versions
<1>2. VersionMax \in Nat
  BY StoreConstants
<1>3. S \in SUBSET Nat /\ S # {} /\ \A x \in S : x <= VersionMax
  BY <1>1, <1>2
<1> HIDE DEF S
<1>4. Max(S) \in S /\ \A y \in S : y <= Max(S)
  BY <1>2, <1>3, MaxGreatest
<1>5. HighWater(st, group) = Max(S)
  BY DEF HighWater, S
<1>6. Max(S) \in Nat /\ Max(S) <= VersionMax
  BY <1>3, <1>4
<1>7. \A i \in Readable(st, group) : st[group][i].version \in S
  BY DEF S
<1> QED
  BY <1>2, <1>4, <1>5, <1>6, <1>7

-----------------------------------------------------------------------------
(* Writing a cell                                                          *)

Write(st, group, slot, cell) == [st EXCEPT ![group][slot] = cell]

\* A write changes its own slot and no other.
LEMMA WriteCells ==
  ASSUME NEW st, Stored(st), NEW group \in Groups, NEW slot \in Slots(group),
         NEW cell \in Cells(group)
  PROVE  /\ Stored(Write(st, group, slot, cell))
         /\ Write(st, group, slot, cell)[group][slot] = cell
         /\ \A g \in Groups : \A i \in Slots(g) : g # group \/ i # slot =>
               Write(st, group, slot, cell)[g][i] = st[g][i]
<1>1. DOMAIN st = Groups /\ st[group] \in [Slots(group) -> Cells(group)]
  BY DEF Stored
<1>2. /\ DOMAIN Write(st, group, slot, cell) = Groups
      /\ Write(st, group, slot, cell)[group] = [st[group] EXCEPT ![slot] = cell]
      /\ \A g \in Groups \ {group} :
            Write(st, group, slot, cell)[g] = st[g]
  BY <1>1 DEF Write
<1>3. \A g \in Groups : Write(st, group, slot, cell)[g]
                          \in [Slots(g) -> Cells(g)]
  BY <1>1, <1>2 DEF Stored
<1>4. \A g \in Groups : \A i \in Slots(g) : g # group \/ i # slot =>
         Write(st, group, slot, cell)[g][i] = st[g][i]
  BY <1>1, <1>2
<1>5. Write(st, group, slot, cell)[group][slot] = cell
  BY <1>1, <1>2
<1> QED
  BY <1>2, <1>3, <1>4, <1>5 DEF Stored

\* Between two stores every cell of group, but for one slot, is the same.
Others(st, su, group, slot) ==
  \A i \in Slots(group) : i # slot => su[group][i] = st[group][i]

\* All cells of the other groups are the same.
Beside(st, su, group) ==
  \A g \in Groups \ {group} : \A i \in Slots(g) : su[g][i] = st[g][i]

\* The version is above every version of the group.
Fresh(st, group, version) ==
  \A i \in Readable(st, group) : st[group][i].version < version

\* A store in which the only new record has a fresh version is free of
\* collisions when the store before was.
LEMMA StaysUnique ==
  ASSUME NEW st, NEW su, ~IdentityCollision(st), Stored(su),
         NEW group \in Groups, NEW slot \in Slots(group),
         Others(st, su, group, slot), Beside(st, su, group),
         \/ su[group][slot] \in {st[group][slot], Absent, Corrupt}
         \/ Fresh(st, group, su[group][slot].version)
  PROVE  ~IdentityCollision(su)
<1> SUFFICES ASSUME NEW g \in Groups,
                    NEW i \in Readable(su, g), NEW j \in Readable(su, g),
                    su[g][i].version = su[g][j].version, su[g][i] # su[g][j]
             PROVE  FALSE
  BY DEF IdentityCollision
<1>1. ~(i \in Readable(st, g) /\ j \in Readable(st, g)
        /\ su[g][i] = st[g][i] /\ su[g][j] = st[g][j])
  BY DEF IdentityCollision
<1>2. g = group
  BY <1>1 DEF Beside, Readable
<1>3. i # j
  OBVIOUS
<1>4. \A k \in Readable(su, g) : k # slot =>
         k \in Readable(st, g) /\ su[g][k] = st[g][k]
  BY <1>2 DEF Others, Readable
<1>5. \/ i = slot /\ j # slot
      \/ j = slot /\ i # slot
  BY <1>1, <1>3, <1>4
<1>6. su[group][slot] \notin {st[group][slot], Absent, Corrupt}
  BY <1>1, <1>2, <1>4, <1>5 DEF Readable
<1>7. Fresh(st, group, su[group][slot].version)
  BY <1>6
<1>8. \A k \in Readable(su, g) : su[g][k].version \in Nat
  BY ReadRecord, VersionsNat
<1> QED
  BY <1>2, <1>4, <1>5, <1>7, <1>8 DEF Fresh

-----------------------------------------------------------------------------
(* Branches                                                                *)

\* A record is still there when its cell did not change.
LEMMA RecordKept ==
  ASSUME NEW st, NEW su, NEW group \in Groups, NEW ref,
         HasRecord(st, group, ref),
         su[group][ref.slot] = st[group][ref.slot]
  PROVE  HasRecord(su, group, ref)
BY DEF HasRecord, Readable

\* A write beside a branch leaves it usable.
LEMMA BranchKept ==
  ASSUME NEW st, NEW su, NEW ref, BranchUsable(st, ref),
         NEW group \in Groups, NEW slot, Others(st, su, group, slot),
         Beside(st, su, group),
         group # "root" => ReferenceOf(ref, group).slot # slot
  PROVE  BranchUsable(su, ref)
<1>1. HasRecord(su, "manifest", ref)
  <2>1. HasRecord(st, "manifest", ref) /\ ref.slot \in Slots("manifest")
    BY DEF BranchUsable, HasRecord, Readable
  <2>2. CASE group = "manifest"
    <3>1. su["manifest"][ref.slot] = st["manifest"][ref.slot]
      BY <2>1, <2>2 DEF Others, ReferenceOf
    <3> QED
      BY <2>1, <3>1, RecordKept, GroupsApart
  <2>3. CASE group # "manifest"
    <3>1. su["manifest"][ref.slot] = st["manifest"][ref.slot]
      BY <2>1, <2>3, GroupsApart DEF Beside
    <3> QED
      BY <2>1, <3>1, RecordKept, GroupsApart
  <2> QED
    BY <2>2, <2>3
<1>2. ASSUME NEW d \in Documents
      PROVE  HasRecord(su, d, ref.payload[d])
  <2>1. /\ HasRecord(st, d, ref.payload[d])
        /\ ref.payload[d].slot \in Slots(d)
    BY DEF BranchUsable, HasRecord, Readable
  <2>2. CASE group = d
    <3>1. su[d][ref.payload[d].slot] = st[d][ref.payload[d].slot]
      BY <2>1, <2>2, GroupsApart DEF Others, ReferenceOf
    <3> QED
      BY <2>1, <3>1, RecordKept, GroupsApart
  <2>3. CASE group # d
    <3>1. su[d][ref.payload[d].slot] = st[d][ref.payload[d].slot]
      BY <2>1, <2>3, GroupsApart DEF Beside
    <3> QED
      BY <2>1, <3>1, RecordKept, GroupsApart
  <2> QED
    BY <2>2, <2>3
<1> QED
  BY <1>1, <1>2 DEF BranchUsable

\* The graph of the highest root, with both of its branches whole.
Whole(st, g) ==
  /\ g \in Graphs
  /\ st["root"][g.rootSlot] = g.root
  /\ \A i \in Readable(st, "root") \ {g.rootSlot} :
        st["root"][i].version < g.root.version
  /\ g.active = g.root.payload.active /\ BranchUsable(st, g.active)
  /\ g.fallback = g.root.payload.fallback
  /\ g.fallback # None => BranchUsable(st, g.fallback)
  /\ ~g.selectedFallback

\* The fields of a graph have their types.
LEMMA GraphFields ==
  ASSUME NEW g \in Graphs
  PROVE  /\ g = [rootSlot |-> g.rootSlot, root |-> g.root, active |-> g.active,
                 fallback |-> g.fallback,
                 selectedFallback |-> g.selectedFallback]
         /\ g.rootSlot \in {0, 1} /\ g.rootSlot \in Slots("root")
         /\ g.root \in Records("root") /\ g.root.version \in Nat
         /\ g.root.payload.active \in Branches
         /\ g.root.payload.fallback \in Branches \cup {None}
         /\ g.active \in Branches /\ g.fallback \in Branches \cup {None}
         /\ g.selectedFallback \in BOOLEAN /\ g.active # None
<1>1. g.root \in Records("root") /\ g.rootSlot \in {0, 1}
  BY SlotNumbers DEF Graphs
<1>2. g.root.version \in Versions /\ g.root.payload \in RootPayloads
  BY <1>1, RootRecord
<1>3. g.root.version \in Nat
  BY <1>2, VersionsNat
<1>4. /\ g.root.payload.active \in Branches
      /\ g.root.payload.fallback \in Branches \cup {None}
  BY <1>2 DEF RootPayloads
<1> QED
  BY <1>1, <1>3, <1>4, StoreNone DEF Graphs

\* A whole graph is the one a restart loads.
LEMMA WholeLoaded ==
  ASSUME NEW st, Stored(st), ~IdentityCollision(st), NEW g, Whole(st, g)
  PROVE  LoadCanonicalGraph(st) = g
<1> DEFINE usable == {i \in Readable(st, "root") :
                        SelectedBranch(st, st["root"][i]) # None}
           before(i, j) == \/ st["root"][i].version > st["root"][j].version
                           \/ /\ st["root"][i].version = st["root"][j].version
                              /\ i <= j
<1>1. g \in Graphs
  BY DEF Whole
<1>2. st["root"][g.rootSlot] = g.root /\ g.rootSlot \in Readable(st, "root")
  BY <1>1, GraphFields, GroupsApart, RecordReadable DEF Whole
<1>3. SelectedBranch(st, g.root) = g.active
  BY DEF SelectedBranch, Whole
<1>4. g.rootSlot \in usable
  BY <1>1, <1>2, <1>3, GraphFields
<1>5. \A i \in usable : st["root"][i].version \in Nat
  BY ReadRecord, VersionsNat, GroupsApart
<1>6. \A i \in usable : i # g.rootSlot =>
         st["root"][i].version < st["root"][g.rootSlot].version
  BY <1>2 DEF Whole
<1>7. \A i \in usable : before(g.rootSlot, i)
  BY <1>1, <1>4, <1>5, <1>6, GraphFields
<1>8. \A i \in usable : i # g.rootSlot => ~before(i, g.rootSlot)
  BY <1>4, <1>5, <1>6
<1>9. (CHOOSE i \in usable : \A j \in usable : before(i, j)) = g.rootSlot
  <2> HIDE DEF before, usable
  <2>1. \E i \in usable : \A j \in usable : before(i, j)
    BY <1>4, <1>7
  <2> DEFINE m == CHOOSE i \in usable : \A j \in usable : before(i, j)
  <2>2. m \in usable /\ \A j \in usable : before(m, j)
    BY <2>1
  <2> HIDE DEF m
  <2>3. m = g.rootSlot
    BY <1>4, <1>8, <2>2
  <2> QED
    BY <2>3 DEF m
<1>10. LoadCanonicalGraph(st) = LoadRoot(st, g.rootSlot)
  <2>1. usable # {}
    BY <1>4
  <2> QED
    BY <1>9, <2>1 DEF LoadCanonicalGraph
<1>11. LoadRoot(st, g.rootSlot) =
         [rootSlot |-> g.rootSlot, root |-> g.root, active |-> g.active,
          fallback |-> g.fallback, selectedFallback |-> g.selectedFallback]
  <2>1. g.selectedFallback = FALSE
    BY <1>1, GraphFields DEF Whole
  <2>2. (g.active # g.root.payload.active) = FALSE
    BY DEF Whole
  <2> QED
    BY <1>2, <1>3, <2>1, <2>2 DEF LoadRoot, Whole
<1> QED
  BY <1>1, <1>10, <1>11, GraphFields

\* A whole graph in a store without damaged roots passes the scan.
LEMMA WholeScan ==
  ASSUME NEW st, Stored(st), ~IdentityCollision(st), NEW g, Whole(st, g),
         \A i \in Slots("root") : st["root"][i] # Corrupt
  PROVE  ValidationScan(st, g) = "Success"
<1>1. g \in Graphs
  BY DEF Whole
<1>2. \A i \in Readable(st, "root") :
         ~(st["root"][i].version > g.root.version)
  <2> TAKE i \in Readable(st, "root")
  <2>1. st["root"][i].version \in Nat /\ g.root.version \in Nat
    BY <1>1, ReadRecord, VersionsNat, GroupsApart, GraphFields
  <2>2. CASE i = g.rootSlot
    BY <2>1, <2>2 DEF Whole
  <2>3. CASE i # g.rootSlot
    BY <2>1, <2>3 DEF Whole
  <2> QED
    BY <2>2, <2>3
<1>3. ~BasisMoved(st, g)
  BY <1>2 DEF BasisMoved, Whole
<1>4. BranchUsable(st, g.active) /\ FallbackConfirmed(st, g)
  BY DEF FallbackConfirmed, Whole
<1> QED
  BY <1>3, <1>4 DEF ValidationScan

\* A graph gives out a branch that its root names.
BranchNamed(g) == g.active \in {g.root.payload.active, g.root.payload.fallback}

\* Where one root selects a branch, a restart loads a graph.
LEMMA RootLoaded ==
  ASSUME NEW st, Stored(st), ~IdentityCollision(st),
         NEW slot \in Readable(st, "root"),
         SelectedBranch(st, st["root"][slot]) # None
  PROVE  /\ LoadCanonicalGraph(st) \in Graphs /\ LoadCanonicalGraph(st) # None
         /\ BranchNamed(LoadCanonicalGraph(st))
<1> DEFINE usable == {i \in Readable(st, "root") :
                        SelectedBranch(st, st["root"][i]) # None}
           before(i, j) == \/ st["root"][i].version > st["root"][j].version
                           \/ /\ st["root"][i].version = st["root"][j].version
                              /\ i <= j
           first == CHOOSE i \in usable : \A j \in usable : before(i, j)
<1>1. usable # {} /\ LoadCanonicalGraph(st) = LoadRoot(st, first)
  BY DEF LoadCanonicalGraph
<1>2. usable \subseteq {0, 1}
  BY SlotNumbers DEF Readable
<1>3. \A i \in usable : st["root"][i].version \in Nat
  BY ReadRecord, VersionsNat, GroupsApart
<1>4. \E i \in usable : \A j \in usable : before(i, j)
  <2> HIDE DEF usable
  <2>1. CASE 0 \notin usable
    <3>1. usable # {}
      BY <1>1
    <3>2. usable = {1}
      BY <1>2, <2>1, <3>1
    <3>3. before(1, 1)
      BY <1>3, <3>2
    <3> QED
      BY <3>2, <3>3
  <2>2. CASE 1 \notin usable
    <3>1. usable # {}
      BY <1>1
    <3>2. usable = {0}
      BY <1>2, <2>2, <3>1
    <3>3. before(0, 0)
      BY <1>3, <3>2
    <3> QED
      BY <3>2, <3>3
  <2>3. CASE 0 \in usable /\ 1 \in usable
    <3>1. before(0, 0) /\ before(1, 1)
      BY <1>3, <2>3
    <3>2. before(0, 1) \/ before(1, 0)
      BY <1>3, <2>3
    <3> HIDE DEF before
    <3> QED
      BY <1>2, <2>3, <3>1, <3>2
  <2> QED
    BY <2>1, <2>2, <2>3
<1>5. first \in usable
  <2> HIDE DEF usable, before
  <2> QED
    BY <1>4
<1> HIDE DEF first
<1>6. /\ first \in Slots("root") /\ st["root"][first] \in Records("root")
      /\ SelectedBranch(st, st["root"][first]) # None
  BY <1>5, ReadRecord, GroupsApart
<1> DEFINE root == st["root"][first]
<1>7. root \in Records("root") /\ root.payload \in RootPayloads
  BY <1>6, RootRecord
<1>8. /\ root.payload.active \in Branches
      /\ root.payload.fallback \in Branches \cup {None}
  BY <1>7 DEF RootPayloads
<1>9. SelectedBranch(st, root) \in Branches
  BY <1>6, <1>8 DEF SelectedBranch
<1>10. LoadRoot(st, first) =
          [rootSlot |-> first, root |-> root,
           active |-> SelectedBranch(st, root),
           fallback |->
             IF /\ ~(SelectedBranch(st, root) # root.payload.active)
                /\ root.payload.fallback # None
                /\ BranchUsable(st, root.payload.fallback)
             THEN root.payload.fallback ELSE None,
           selectedFallback |-> SelectedBranch(st, root) # root.payload.active]
  BY DEF LoadRoot
<1> HIDE DEF root
<1>11. (SelectedBranch(st, root) # root.payload.active) \in BOOLEAN
  OBVIOUS
<1>12. LoadRoot(st, first) \in Graphs
  BY <1>6, <1>7, <1>8, <1>9, <1>10, <1>11 DEF Graphs
<1>13. /\ LoadRoot(st, first).active = SelectedBranch(st, root)
       /\ LoadRoot(st, first).root = root
  BY <1>10
<1>14. BranchNamed(LoadRoot(st, first))
  BY <1>6, <1>13 DEF BranchNamed, SelectedBranch, root
<1> QED
  BY <1>1, <1>12, <1>14, StoreNone

\* What a restart loads is a graph.
LEMMA LoadedGraph ==
  ASSUME NEW st, Stored(st), LoadCanonicalGraph(st) # None
  PROVE  /\ LoadCanonicalGraph(st) \in Graphs
         /\ BranchNamed(LoadCanonicalGraph(st))
<1>1. /\ ~IdentityCollision(st)
      /\ \E slot \in Readable(st, "root") :
            SelectedBranch(st, st["root"][slot]) # None
  BY DEF LoadCanonicalGraph
<1> QED
  BY <1>1, RootLoaded

-----------------------------------------------------------------------------
(* Planning a commit                                                       *)

\* The groups a branch has a record in.
BranchGroups == Documents \cup {"manifest"}

LEMMA BranchGroup ==
  ASSUME NEW group \in BranchGroups
  PROVE  /\ group \in Groups /\ group # "root"
         /\ SlotCount(group) \in {3, 4}
         /\ Slots(group) = 0 .. SlotCount(group) - 1
BY GroupsApart DEF BranchGroups, Slots, SlotCount

\* The references of a branch.
LEMMA BranchReference ==
  ASSUME NEW branch \in Branches, NEW group \in BranchGroups
  PROVE  /\ ReferenceOf(branch, group).slot \in Slots(group)
         /\ ReferenceOf(branch, group).version \in Versions
         /\ Record(ReferenceOf(branch, group).version,
                   ReferenceOf(branch, group).payload) \in Records(group)
<1>1. CASE group = "manifest"
  <2>1. /\ branch.slot \in Slots("manifest") /\ branch.version \in Versions
        /\ branch.payload \in ManifestPayloads
    BY DEF Branches
  <2> QED
    BY <1>1, <2>1, RecordShapes DEF ReferenceOf, Record
<1>2. CASE group \in Documents
  <2>1. branch.payload[group] \in DocumentReferences
    BY <1>2 DEF Branches, ManifestPayloads
  <2>2. group # "manifest" /\ Slots(group) = 0 .. 3
    BY <1>2, GroupsApart, SlotNumbers
  <2>3. Records(group) = [version : Versions, payload : Contents]
    BY <1>2, RecordShapes
  <2> QED
    BY <2>1, <2>2, <2>3 DEF DocumentReferences, ReferenceOf, Record
<1> QED
  BY <1>1, <1>2 DEF BranchGroups

\* Two branches protect at most two slots.
LEMMA ProtectedTwo ==
  ASSUME NEW g \in Graphs, NEW group \in BranchGroups
  PROVE  \E a, b \in Slots(group) : ProtectedSlots(g, group) = {a, b}
<1>1. g.active \in Branches /\ g.fallback \in Branches \cup {None}
      /\ g.active # None
  BY GraphFields
<1>2. CASE g.fallback = None
  <2>1. ProtectedSlots(g, group) = {ReferenceOf(g.active, group).slot}
    BY <1>1, <1>2 DEF ProtectedSlots
  <2> QED
    BY <1>1, <2>1, BranchReference
<1>3. CASE g.fallback # None
  <2>1. ProtectedSlots(g, group) = {ReferenceOf(g.active, group).slot,
                                    ReferenceOf(g.fallback, group).slot}
    BY <1>1, <1>3 DEF ProtectedSlots
  <2> QED
    BY <1>1, <1>3, <2>1, BranchReference
<1> QED
  BY <1>2, <1>3

\* With three or four slots there is one to write, and neither branch is in it.
LEMMA SlotPlanned ==
  ASSUME NEW g \in Graphs, NEW group \in BranchGroups
  PROVE  /\ PlannedSlot(g, group) \in Slots(group)
         /\ PlannedSlot(g, group) \notin ProtectedSlots(g, group)
         /\ PlannedSlot(g, group) # None
<1> DEFINE after == ReferenceOf(g.active, group).slot
           count == SlotCount(group)
           protected == ProtectedSlots(g, group)
           free == {n \in 1 .. count : (after + n) % count \notin protected}
<1>1. count \in {3, 4} /\ Slots(group) = 0 .. count - 1
  BY BranchGroup
<1>2. after \in 0 .. count - 1
  BY <1>1, BranchReference, GraphFields
<1>3. PICK a, b \in 0 .. count - 1 : protected = {a, b}
  BY <1>1, ProtectedTwo
<1>4. free # {}
  <2> HIDE DEF protected, after, count
  <2>1. \E n \in 1 .. count : (after + n) % count # a
                              /\ (after + n) % count # b
    <3>1. CASE count = 3
      <4>1. after \in {0, 1, 2} /\ a \in {0, 1, 2} /\ b \in {0, 1, 2}
        BY <1>2, <1>3, <3>1
      <4>2. \E n \in {1, 2, 3} : (after + n) % 3 # a /\ (after + n) % 3 # b
        BY <4>1
      <4> QED
        BY <3>1, <4>2
    <3>2. CASE count = 4
      <4>1. after \in {0, 1, 2, 3} /\ a \in {0, 1, 2, 3} /\ b \in {0, 1, 2, 3}
        BY <1>2, <1>3, <3>2
      <4>2. \E n \in {1, 2, 3} : (after + n) % 4 # a /\ (after + n) % 4 # b
        BY <4>1
      <4> QED
        BY <3>2, <4>2
    <3> QED
      BY <1>1, <3>1, <3>2
  <2> QED
    BY <1>3, <2>1
<1>5. Min(free) \in free
  <2>1. free \in SUBSET Nat
    BY <1>1
  <2> HIDE DEF free
  <2> QED
    BY <1>4, <2>1, MinLeast
<1> DEFINE n == Min(free)
<1>6. PlannedSlot(g, group) = (after + n) % count
  BY <1>4 DEF PlannedSlot, ChooseSlot
<1> HIDE DEF n
<1>7. n \in 1 .. count /\ (after + n) % count \notin protected
  BY <1>5 DEF n
<1>8. (after + n) % count \in 0 .. count - 1
  <2> HIDE DEF after, count
  <2>1. CASE count = 3
    BY <1>2, <1>7, <2>1
  <2>2. CASE count = 4
    BY <1>2, <1>7, <2>2
  <2> QED
    BY <1>1, <2>1, <2>2
<1>9. None \notin 0 .. count - 1
  BY <1>1, StoreNone
<1> QED
  BY <1>1, <1>6, <1>7, <1>8, <1>9

\* The next version is fresh, and a version unless the counter is used up.
LEMMA VersionPlanned ==
  ASSUME NEW st, Stored(st), NEW group \in Groups,
         HighWater(st, group) < VersionMax
  PROVE  /\ NextVersion(st, group) \in Versions
         /\ Fresh(st, group, NextVersion(st, group))
<1>1. /\ HighWater(st, group) \in 0 .. VersionMax
      /\ \A i \in Readable(st, group) :
            st[group][i].version <= HighWater(st, group)
  BY HighWaterBounds
<1>2. \A i \in Readable(st, group) : st[group][i].version \in Nat
  BY ReadRecord, VersionsNat
<1>3. VersionMax \in Nat
  BY StoreConstants
<1> QED
  BY <1>1, <1>2, <1>3 DEF NextVersion, Versions, Fresh

\* What a prepared commit is, as long as it is kept.
Prepared(c) ==
  /\ c.new.rootSlot = 1 - c.old.rootSlot
  /\ c.new.root.payload.active = c.new.active
  /\ c.new.root.payload.fallback = c.new.fallback
  /\ c.new.fallback = c.old.active
  /\ ~c.new.selectedFallback
  /\ Configuration(c.new.active) # Configuration(c.old.active)
  /\ \A group \in c.writes :
        ReferenceOf(c.new.active, group).slot
          \notin ProtectedSlots(c.old, group)

\* The versions it is about to write are fresh.
WritesFresh(st, c) ==
  \A group \in c.writes :
     Fresh(st, group, ReferenceOf(c.new.active, group).version)

RootFresh(st, c) == Fresh(st, "root", c.new.root.version)

\* prepareCommitInto() builds such a commit.
LEMMA CommitPrepared ==
  ASSUME NEW st, Stored(st), NEW g \in Graphs,
         NEW candidate \in [Documents -> Contents],
         candidate # Configuration(g.active),
         PlanSlots(st, g, candidate)
  PROVE  LET c == PrepareCommit(st, g, candidate)
         IN  /\ c \in Contexts /\ Prepared(c) /\ c.old = g
             /\ c.phase = "records"
             /\ Configuration(c.new.active) = candidate
             /\ WritesFresh(st, c) /\ RootFresh(st, c)
<1> DEFINE changed == ChangedDocuments(g, candidate)
           written == changed \cup {"manifest"}
           documents == [d \in Documents |->
                           IF d \in changed
                           THEN PlannedReference(st, g, d, candidate[d])
                           ELSE g.active.payload[d]]
           manifest == PlannedReference(st, g, "manifest", documents)
           root == Record(NextVersion(st, "root"),
                          [active |-> manifest, fallback |-> g.active])
           new == [rootSlot |-> 1 - g.rootSlot, root |-> root,
                   active |-> manifest, fallback |-> g.active,
                   selectedFallback |-> FALSE]
           c == PrepareCommit(st, g, candidate)
<1>1. c = [old |-> g, new |-> new, writes |-> written,
           previousTarget |-> st["root"][1 - g.rootSlot],
           phase |-> "records"]
  BY DEF PrepareCommit
<1>2. written \subseteq BranchGroups /\ changed \subseteq Documents
  BY DEF ChangedDocuments, BranchGroups
<1>3. \A group \in written \cup {"root"} :
         /\ group \in Groups
         /\ NextVersion(st, group) \in Versions
         /\ Fresh(st, group, NextVersion(st, group))
  <2>1. \A group \in written \cup {"root"} :
           group \in Groups /\ HighWater(st, group) < VersionMax
    BY <1>2, BranchGroup, GroupsApart DEF PlanSlots
  <2> HIDE DEF written
  <2> QED
    BY <2>1, VersionPlanned
<1>4. \A group \in written :
         /\ PlannedSlot(g, group) \in Slots(group)
         /\ PlannedSlot(g, group) \notin ProtectedSlots(g, group)
  <2> HIDE DEF written
  <2> QED
    BY <1>2, SlotPlanned
<1>5. g.active \in Branches /\ g.active.payload \in ManifestPayloads
  BY GraphFields DEF Branches
<1>6. \A d \in changed :
         PlannedReference(st, g, d, candidate[d]) \in DocumentReferences
  <2> TAKE d \in changed
  <2>1. PlannedSlot(g, d) \in 0 .. 3 /\ NextVersion(st, d) \in Versions
    BY <1>2, <1>3, <1>4, SlotNumbers
  <2>2. candidate[d] \in Contents
    BY <1>2
  <2> QED
    BY <2>1, <2>2 DEF PlannedReference, DocumentReferences
<1>7. documents \in ManifestPayloads
  <2>1. ManifestPayloads = [Documents -> DocumentReferences]
    BY DEF ManifestPayloads
  <2> HIDE DEF changed
  <2> QED
    BY <1>5, <1>6, <2>1
<1>8. manifest = [slot |-> PlannedSlot(g, "manifest"),
                  version |-> NextVersion(st, "manifest"),
                  payload |-> documents]
  BY DEF PlannedReference
<1>9. manifest \in Branches
  <2> HIDE DEF documents, manifest
  <2> QED
    BY <1>3, <1>4, <1>7, <1>8 DEF Branches
<1>10. root \in Records("root")
  <2>1. [active |-> manifest, fallback |-> g.active] \in RootPayloads
    BY <1>5, <1>9 DEF RootPayloads
  <2>2. NextVersion(st, "root") \in Versions
    BY <1>3
  <2>3. Records("root") = [version : Versions, payload : RootPayloads]
    BY RecordShapes
  <2> QED
    BY <2>1, <2>2, <2>3 DEF Record
<1>11. g.rootSlot \in {0, 1} /\ 1 - g.rootSlot \in Slots("root")
  BY GraphFields, SlotNumbers
<1>12. new \in Graphs
  <2> HIDE DEF manifest, root
  <2> QED
    BY <1>5, <1>9, <1>10, <1>11 DEF Graphs
<1>13. st["root"][1 - g.rootSlot] \in Cells("root")
  BY <1>11, GroupsApart DEF Stored
<1>14. c \in Contexts
  <2> HIDE DEF new, written
  <2> QED
    BY <1>1, <1>2, <1>12, <1>13 DEF Contexts, BranchGroups
<1>15. \A group \in written :
          /\ ReferenceOf(manifest, group).slot = PlannedSlot(g, group)
          /\ ReferenceOf(manifest, group).version = NextVersion(st, group)
  <2> TAKE group \in written
  <2>1. CASE group = "manifest"
    BY <1>8, <2>1 DEF ReferenceOf
  <2>2. CASE group \in changed
    <3>1. group # "manifest" /\ group \in Documents
      BY <1>2, <2>2, GroupsApart
    <3>2. manifest.payload[group] =
             PlannedReference(st, g, group, candidate[group])
      BY <1>8, <2>2, <3>1
    <3> QED
      BY <3>1, <3>2 DEF ReferenceOf, PlannedReference
  <2> QED
    BY <2>1, <2>2
<1>16. Configuration(manifest) = candidate
  <2>1. \A d \in Documents : documents[d].payload = candidate[d]
    <3> TAKE d \in Documents
    <3>1. CASE d \in changed
      BY <3>1 DEF PlannedReference
    <3>2. CASE d \notin changed
      <4>1. candidate[d] = g.active.payload[d].payload
        BY <3>2 DEF ChangedDocuments, Configuration
      <4> QED
        BY <3>2, <4>1
    <3> QED
      BY <3>1, <3>2
  <2>2. Configuration(manifest) = [d \in Documents |-> documents[d].payload]
    BY <1>8 DEF Configuration
  <2> HIDE DEF documents
  <2> QED
    BY <2>1, <2>2
<1>17. root.version = NextVersion(st, "root")
       /\ root.payload = [active |-> manifest, fallback |-> g.active]
  BY DEF Record
<1> HIDE DEF manifest, root, written
<1>18. Prepared(c)
  BY <1>1, <1>4, <1>15, <1>16, <1>17 DEF Prepared
<1>19. WritesFresh(st, c) /\ RootFresh(st, c)
  BY <1>1, <1>3, <1>15, <1>17 DEF WritesFresh, RootFresh
<1> QED
  BY <1>1, <1>14, <1>16, <1>18, <1>19

-----------------------------------------------------------------------------
(* The invariant                                                           *)

\* The commit that is kept was prepared from the graph of the service, and as
\* long as it runs what it has still to write is fresh.
ContextPrepared ==
  context # None =>
    /\ Prepared(context) /\ context.old = graph
    /\ mode = "CommitIndeterminate" => context.phase = "unknown"
    /\ mode = "RuntimeFailure" /\ cause = "PostCommitVerificationFailure" =>
         context.phase \in {"written", "unknown"}
    /\ mode = "CommitInProgress" /\ context.phase = "records" =>
         WritesFresh(store, context)
    /\ mode = "CommitInProgress" /\ context.phase \in {"records", "root"} =>
         RootFresh(store, context)

\* The graph a restart loads from a store with the root of the commit or not.
Decided(st, c) ==
  IF st["root"][c.new.rootSlot] = c.new.root THEN c.new ELSE c.old

\* While nothing is lost, a restart loads a whole graph: the one of the service,
\* and during a commit the old or the new one, as the root write decided.
RestartWhole ==
  losses = 0 =>
    /\ Whole(store, restart) /\ kept = Configuration(restart.active)
    /\ mode # "ResetEligibleNoRuntime"
    /\ mode = "Operational" => graph = restart
    /\ context # None =>
         /\ context.phase \in {"records", "root"} => restart = context.old
         /\ context.phase = "root" => TargetVerified(store, context)
         /\ context.phase = "written" => restart = context.new
         /\ context.phase = "unknown" => restart = Decided(store, context)

StoreInv ==
  /\ TypeOK /\ IdentityUnique /\ ContextPrepared
  /\ restart = LoadCanonicalGraph(store) /\ RestartWhole

\* How the observer follows a step.
Observed ==
  /\ restart' = LoadCanonicalGraph(store')
  /\ kept' = IF losses' = 0 THEN Loaded(restart') ELSE kept

\* A step of the code is a step of the register or none at all.
RegisterStep == Register!Next \/ UNCHANGED Register!vars

-----------------------------------------------------------------------------
(* What the invariant says of the state                                    *)

LEMMA ConfigurationType ==
  ASSUME NEW branch \in Branches
  PROVE  /\ Configuration(branch) \in [Documents -> Contents]
         /\ Configuration(branch) # None
<1>1. branch.payload \in [Documents -> DocumentReferences]
  BY DEF Branches, ManifestPayloads
<1>2. Configuration(branch) \in [Documents -> Contents]
  BY <1>1 DEF Configuration, DocumentReferences
<1> QED
  BY <1>2, StoreNone

LEMMA InvStored ==
  ASSUME StoreInv
  PROVE  Stored(store) /\ ~IdentityCollision(store)
BY DEF StoreInv, TypeOK, Stored, IdentityUnique

LEMMA ContextFields ==
  ASSUME StoreInv, context # None
  PROVE  /\ context \in Contexts /\ graph \in Graphs
         /\ context.old \in Graphs /\ context.new \in Graphs
         /\ context.writes \subseteq BranchGroups
         /\ Prepared(context) /\ context.old = graph
         /\ mode \in {"CommitInProgress", "CommitIndeterminate",
                      "RuntimeFailure"}
<1>1. /\ context \in Contexts /\ graph \in Graphs
      /\ mode \in {"CommitInProgress", "CommitIndeterminate",
                   "RuntimeFailure"}
  BY DEF StoreInv, TypeOK
<1>2. /\ context.old \in Graphs /\ context.new \in Graphs
      /\ context.writes \subseteq BranchGroups
  BY <1>1 DEF Contexts, BranchGroups
<1>3. Prepared(context) /\ context.old = graph
  BY DEF StoreInv, ContextPrepared
<1> QED
  BY <1>1, <1>2, <1>3

\* A whole graph after a step is the one the observer sees.
LEMMA SeenWhole ==
  ASSUME Observed, losses' = 0, Stored(store'), ~IdentityCollision(store'),
         NEW g, Whole(store', g)
  PROVE  /\ restart' = g /\ kept' = Configuration(g.active)
         /\ Whole(store', restart')
<1>1. restart' = g
  BY WholeLoaded DEF Observed
<1>2. g \in Graphs /\ g # None
  BY StoreNone DEF Whole
<1> QED
  BY <1>1, <1>2 DEF Observed, Loaded

\* A step that leaves the store alone leaves what the observer sees.
LEMMA SeenSame ==
  ASSUME StoreInv, Observed, UNCHANGED <<store, losses>>
  PROVE  /\ restart' = restart /\ kept' = kept
         /\ Stored(store') /\ ~IdentityCollision(store')
         /\ losses = 0 => Whole(store', restart')
<1>1. restart' = restart
  BY DEF StoreInv, Observed
<1>2. losses = 0 =>
        Whole(store, restart) /\ kept = Configuration(restart.active)
  BY DEF StoreInv, RestartWhole
<1>3. losses = 0 => restart \in Graphs /\ restart # None
  BY <1>2, StoreNone DEF Whole
<1>4. kept' = kept
  BY <1>1, <1>2, <1>3 DEF Observed, Loaded
<1>5. Stored(store') /\ ~IdentityCollision(store')
  BY InvStored
<1> QED
  BY <1>1, <1>2, <1>4, <1>5

-----------------------------------------------------------------------------
(* How a commit ends                                                       *)

\* A commit is given up while a restart still loads the old graph.
LEMMA AbandonKeeps ==
  ASSUME StoreInv, context # None, Abandon, Observed, losses' = losses,
         Stored(store'), ~IdentityCollision(store'),
         losses = 0 => restart = context.old /\ Whole(store', context.old)
  PROVE  StoreInv' /\ RegisterStep
<1>1. /\ mode' = "Operational" /\ cause' = None /\ context' = None
      /\ graph' = graph
  BY DEF Abandon
<1>2. /\ graph \in Graphs /\ context.old = graph /\ context \in Contexts
      /\ context.new \in Graphs /\ Prepared(context) /\ mode # "Operational"
  BY ContextFields
<1>3. losses = 0 =>
        /\ restart' = graph /\ kept' = Configuration(graph.active)
        /\ Whole(store', restart') /\ kept = kept'
  BY <1>2, SeenWhole DEF StoreInv, RestartWhole
<1>4. losses # 0 => kept' = kept
  BY DEF Observed
<1>5. TypeOK'
  BY <1>1, <1>2 DEF StoreInv, TypeOK, Stored
<1>6. StoreInv'
  BY <1>1, <1>3, <1>5 DEF StoreInv, IdentityUnique, ContextPrepared,
     RestartWhole, Observed
<1>7. CASE losses = 0
  <2>1. Configuration(context.new.active) # Configuration(graph.active)
    BY <1>2 DEF Prepared
  <2>2. Configuration(context.new.active) # None
    BY <1>2, GraphFields, ConfigurationType
  <2>3. Register!Abandon
    BY <1>1, <1>2, <1>3, <1>7, <2>1, <2>2
       DEF Register!Abandon, Intact, ProposedConfiguration
  <2> QED
    BY <1>6, <2>3 DEF RegisterStep, Register!Next
<1>8. CASE losses # 0
  BY <1>4, <1>6, <1>8 DEF RegisterStep, Register!vars, Intact
<1> QED
  BY <1>7, <1>8

\* A commit is published once a restart loads its graph.
LEMMA PublishKeeps ==
  ASSUME StoreInv, context # None, PublishPrepared, Observed,
         UNCHANGED <<store, losses>>, losses = 0 => restart = context.new
  PROVE  StoreInv' /\ RegisterStep
<1>1. /\ mode' = "Operational" /\ cause' = None /\ context' = None
      /\ graph' = context.new
  BY DEF PublishPrepared
<1>2. context.new \in Graphs /\ mode # "Operational"
  BY ContextFields
<1>3. /\ restart' = restart /\ kept' = kept
      /\ Stored(store') /\ ~IdentityCollision(store')
      /\ losses = 0 => Whole(store', restart')
  BY SeenSame
<1>4. losses = 0 => kept = Configuration(context.new.active)
  BY DEF StoreInv, RestartWhole
<1>5. TypeOK'
  BY <1>1, <1>2 DEF StoreInv, TypeOK
<1>6. StoreInv'
  BY <1>1, <1>3, <1>4, <1>5 DEF StoreInv, IdentityUnique, ContextPrepared,
     RestartWhole, Observed
<1>7. CASE losses = 0
  <2>1. Configuration(context.new.active) # None
    BY <1>2, GraphFields, ConfigurationType
  <2>2. Register!Publish
    BY <1>1, <1>2, <1>3, <1>4, <1>7, <2>1
       DEF Register!Publish, Intact, ProposedConfiguration
  <2> QED
    BY <1>6, <2>2 DEF RegisterStep, Register!Next
<1>8. CASE losses # 0
  BY <1>3, <1>6, <1>8 DEF RegisterStep, Register!vars, Intact
<1> QED
  BY <1>7, <1>8

\* The service gives nothing out any more and keeps what it knows of the commit.
LEMMA FailKeeps ==
  ASSUME StoreInv, graph # None, NEW newMode, NEW newCause,
         EnterFailClosed(newMode, newCause), Observed,
         UNCHANGED <<store, losses, context>>,
         \/ newMode = "RuntimeFailure"
         \/ /\ newMode = "CommitIndeterminate" /\ context # None
            /\ context.phase = "unknown",
         newCause = "PostCommitVerificationFailure" /\ context # None =>
           context.phase \in {"written", "unknown"}
  PROVE  StoreInv' /\ RegisterStep
<1>1. mode' = newMode /\ cause' = newCause /\ graph' = graph
  BY DEF EnterFailClosed
<1>2. /\ restart' = restart /\ kept' = kept
      /\ Stored(store') /\ ~IdentityCollision(store')
      /\ losses = 0 => Whole(store', restart')
  BY SeenSame
<1>3. graph \in Graphs /\ context \in Contexts \cup {None}
  BY DEF StoreInv, TypeOK
<1>4. TypeOK'
  BY <1>1, <1>3 DEF StoreInv, TypeOK
<1>5. ContextPrepared'
  BY <1>1 DEF StoreInv, ContextPrepared
<1>6. RestartWhole'
  BY <1>1, <1>2 DEF StoreInv, RestartWhole, Decided, TargetVerified
<1>7. StoreInv'
  BY <1>2, <1>4, <1>5, <1>6 DEF StoreInv, IdentityUnique, Observed
<1>8. Register!FailClosed
  BY <1>1, <1>2 DEF Register!FailClosed, Intact, ProposedConfiguration
<1> QED
  BY <1>7, <1>8 DEF RegisterStep, Register!Next

-----------------------------------------------------------------------------
(* The writes                                                              *)

\* The next record belongs to a group that is still to be written.
LEMMA NextGroupDue ==
  ASSUME NEW writes \in SUBSET BranchGroups, writes # {}
  PROVE  NextGroup(writes) \in writes
<1> DEFINE due == {i \in DOMAIN DocumentOrder : DocumentOrder[i] \in writes}
<1>1. CASE due = {}
  <2>1. writes \cap Documents = {}
    BY <1>1 DEF Documents
  <2>2. "manifest" \in writes
    BY <2>1 DEF BranchGroups
  <2> QED
    BY <1>1, <2>2 DEF NextGroup
<1>2. CASE due # {}
  <2>1. due \in SUBSET Nat
    BY StoreConstants
  <2>2. Min(due) \in due
    <3> HIDE DEF due
    <3> QED
      BY <1>2, <2>1, MinLeast
  <2>3. NextGroup(writes) = DocumentOrder[Min(due)]
    BY <1>2 DEF NextGroup
  <2> QED
    BY <2>2, <2>3
<1> QED
  BY <1>1, <1>2

\* A store after a write of a fresh record, as the write left it.
LEMMA TornStore ==
  ASSUME StoreInv, NEW group \in Groups, NEW slot \in Slots(group),
         NEW record \in Records(group),
         NEW outcome \in WriteOutcomes(group, slot, record),
         store' = Put(group, slot, outcome),
         Fresh(store, group, record.version)
  PROVE  /\ Stored(store') /\ ~IdentityCollision(store')
         /\ Others(store, store', group, slot)
         /\ Beside(store, store', group)
         /\ store'[group][slot] = outcome
<1>1. Stored(store) /\ ~IdentityCollision(store)
  BY InvStored
<1>2. outcome \in Cells(group)
  BY <1>1 DEF WriteOutcomes, Cells, Stored
<1>3. store' = Write(store, group, slot, outcome)
  BY DEF Put, Write
<1>4. Stored(store') /\ store'[group][slot] = outcome
  BY <1>1, <1>2, <1>3, WriteCells
<1>5. \A g \in Groups : \A i \in Slots(g) : g # group \/ i # slot =>
         store'[g][i] = store[g][i]
  BY <1>1, <1>2, <1>3, WriteCells
<1>6. Others(store, store', group, slot) /\ Beside(store, store', group)
  BY <1>5 DEF Others, Beside
<1>7. \/ store'[group][slot] \in {store[group][slot], Absent, Corrupt}
      \/ Fresh(store, group, store'[group][slot].version)
  BY <1>4 DEF WriteOutcomes
<1>8. ~IdentityCollision(store')
  BY <1>1, <1>4, <1>6, <1>7, StaysUnique
<1> QED
  BY <1>4, <1>6, <1>8

\* A write beside its branches and its root leaves a graph whole.
LEMMA WholeKept ==
  ASSUME NEW g, Whole(store, g), NEW group \in BranchGroups, NEW slot,
         Others(store, store', group, slot), Beside(store, store', group),
         slot \notin ProtectedSlots(g, group)
  PROVE  Whole(store', g)
<1>1. group # "root" /\ "root" \in Groups /\ g \in Graphs
  BY BranchGroup, GroupsApart DEF Whole
<1>2. \A i \in Slots("root") : store'["root"][i] = store["root"][i]
  BY <1>1 DEF Beside
<1>3. g.rootSlot \in Slots("root") /\ g.active # None
  BY <1>1, GraphFields
<1>4. Readable(store', "root") = Readable(store, "root")
  BY <1>2 DEF Readable
<1>5. /\ ReferenceOf(g.active, group).slot # slot
      /\ g.fallback # None => ReferenceOf(g.fallback, group).slot # slot
  BY <1>3 DEF ProtectedSlots
<1>6. BranchUsable(store', g.active)
  BY <1>1, <1>5, BranchKept, BranchGroup DEF Whole
<1>7. g.fallback # None => BranchUsable(store', g.fallback)
  BY <1>1, <1>5, BranchKept, BranchGroup DEF Whole
<1>8. \A i \in Readable(store', "root") \ {g.rootSlot} :
         store'["root"][i].version < g.root.version
  BY <1>2, <1>4 DEF Whole, Readable
<1> QED
  BY <1>1, <1>2, <1>3, <1>6, <1>7, <1>8 DEF Whole

\* What is fresh stays so, but for the group that is written.
LEMMA FreshKept ==
  ASSUME NEW group, NEW g \in Groups \ {group}, NEW version,
         Fresh(store, g, version), Beside(store, store', group)
  PROVE  Fresh(store', g, version)
BY DEF Fresh, Beside, Readable

\* The record that is due while documents and manifest are written.
LEMMA RecordDue ==
  ASSUME StoreInv, mode = "CommitInProgress", context.phase = "records",
         context.writes # {}
  PROVE  /\ context # None
         /\ PendingWrite.group \in context.writes
         /\ PendingWrite.group \in BranchGroups
         /\ PendingWrite.group \in Groups /\ PendingWrite.group # "root"
         /\ PendingWrite.slot \in Slots(PendingWrite.group)
         /\ PendingWrite.record \in Records(PendingWrite.group)
         /\ Fresh(store, PendingWrite.group, PendingWrite.record.version)
         /\ PendingWrite.slot
              \notin ProtectedSlots(context.old, PendingWrite.group)
<1>1. context # None
  BY DEF StoreInv, TypeOK
<1>2. /\ context.writes \subseteq BranchGroups /\ Prepared(context)
      /\ context.new \in Graphs
  BY <1>1, ContextFields
<1> DEFINE group == NextGroup(context.writes)
           ref == ReferenceOf(context.new.active, group)
<1>3. group \in context.writes /\ group \in BranchGroups
  BY <1>2, NextGroupDue
<1>4. PendingWrite = [group |-> group, slot |-> ref.slot,
                      record |-> Record(ref.version, ref.payload)]
  BY DEF PendingWrite
<1> HIDE DEF group
<1>5. /\ ref.slot \in Slots(group)
      /\ Record(ref.version, ref.payload) \in Records(group)
  BY <1>2, <1>3, BranchReference, GraphFields
<1>6. Fresh(store, group, ref.version)
  BY <1>1, <1>3 DEF StoreInv, ContextPrepared, WritesFresh
<1>7. ref.slot \notin ProtectedSlots(context.old, group)
  BY <1>2, <1>3 DEF Prepared
<1>8. Record(ref.version, ref.payload).version = ref.version
  BY DEF Record
<1> HIDE DEF ref
<1>9. group \in Groups /\ group # "root"
  BY <1>3, BranchGroup
<1> QED
  BY <1>1, <1>3, <1>4, <1>5, <1>6, <1>7, <1>8, <1>9

\* However the write of a document or of the manifest ends, the old graph is
\* whole, and the root and the other records are fresh.
LEMMA RecordTorn ==
  ASSUME StoreInv, mode = "CommitInProgress", context.phase = "records",
         context.writes # {},
         NEW outcome \in WriteOutcomes(PendingWrite.group, PendingWrite.slot,
                                       PendingWrite.record),
         store' = Put(PendingWrite.group, PendingWrite.slot, outcome)
  PROVE  /\ Stored(store') /\ ~IdentityCollision(store')
         /\ losses = 0 => restart = context.old /\ Whole(store', context.old)
         /\ RootFresh(store', context)
         /\ \A group \in context.writes \ {PendingWrite.group} :
               Fresh(store', group,
                     ReferenceOf(context.new.active, group).version)
<1> DEFINE group == PendingWrite.group
           slot == PendingWrite.slot
           record == PendingWrite.record
<1>1. /\ context # None /\ group \in context.writes /\ group \in BranchGroups
      /\ group \in Groups /\ group # "root" /\ slot \in Slots(group)
      /\ record \in Records(group) /\ Fresh(store, group, record.version)
      /\ slot \notin ProtectedSlots(context.old, group)
  BY RecordDue
<1> HIDE DEF group, slot, record
<1>2. /\ outcome \in WriteOutcomes(group, slot, record)
      /\ store' = Put(group, slot, outcome)
  BY DEF group, slot, record
<1>3. /\ Stored(store') /\ ~IdentityCollision(store')
      /\ Others(store, store', group, slot) /\ Beside(store, store', group)
  BY <1>1, <1>2, TornStore
<1>4. losses = 0 => restart = context.old /\ Whole(store, context.old)
  BY <1>1 DEF StoreInv, RestartWhole
<1>5. losses = 0 => Whole(store', context.old)
  BY <1>1, <1>3, <1>4, WholeKept
<1>6. RootFresh(store, context) /\ WritesFresh(store, context)
  BY <1>1 DEF StoreInv, ContextPrepared
<1>7. RootFresh(store', context)
  BY <1>1, <1>3, <1>6, FreshKept, GroupsApart DEF RootFresh
<1>8. \A g \in context.writes \ {group} :
         Fresh(store', g, ReferenceOf(context.new.active, g).version)
  <2> TAKE g \in context.writes \ {group}
  <2>1. g \in Groups \ {group}
    BY <1>1, ContextFields, BranchGroup
  <2>2. Fresh(store, g, ReferenceOf(context.new.active, g).version)
    BY <1>6 DEF WritesFresh
  <2> QED
    BY <1>3, <2>1, <2>2, FreshKept
<1> QED
  BY <1>3, <1>4, <1>5, <1>7, <1>8 DEF group

\* However the root write ends, one of the two graphs is whole.
LEMMA RootTorn ==
  ASSUME StoreInv, mode = "CommitInProgress", context.phase = "root",
         NEW outcome \in WriteOutcomes("root", PendingWrite.slot,
                                       PendingWrite.record),
         store' = Put("root", PendingWrite.slot, outcome)
  PROVE  /\ context # None /\ Stored(store') /\ ~IdentityCollision(store')
         /\ store'["root"][context.new.rootSlot] = outcome
         /\ PendingWrite.record = context.new.root
         /\ losses = 0 => /\ restart = context.old
                          /\ Whole(store', Decided(store', context))
<1>1. context # None
  BY DEF StoreInv, TypeOK
<1>2. /\ context.old \in Graphs /\ context.new \in Graphs /\ Prepared(context)
  BY <1>1, ContextFields
<1> DEFINE slot == context.new.rootSlot
           record == context.new.root
<1>3. /\ slot \in Slots("root") /\ record \in Records("root")
      /\ context.new.active \in Branches /\ context.new.fallback \in Branches
      /\ "root" \in Groups
  BY <1>2, GraphFields, GroupsApart DEF Prepared
<1>4. PendingWrite.slot = slot /\ PendingWrite.record = record
  BY DEF PendingWrite
<1>5. RootFresh(store, context)
  BY <1>1 DEF StoreInv, ContextPrepared
<1>6. /\ Stored(store') /\ ~IdentityCollision(store')
      /\ Others(store, store', "root", slot) /\ Beside(store, store', "root")
      /\ store'["root"][slot] = outcome
  BY <1>3, <1>4, <1>5, TornStore DEF RootFresh
<1>7. ASSUME losses = 0
      PROVE  restart = context.old /\ Whole(store', Decided(store', context))
  <2>1. /\ restart = context.old /\ Whole(store, context.old)
        /\ TargetVerified(store, context)
    BY <1>1, <1>7 DEF StoreInv, RestartWhole
  <2>2. context.old.rootSlot \in Slots("root") /\ context.old.rootSlot # slot
        /\ Slots("root") = {slot, context.old.rootSlot}
    BY <1>2, GraphFields, SlotNumbers DEF Prepared
  <2>3. store'["root"][context.old.rootSlot] = context.old.root
    BY <1>6, <2>1, <2>2 DEF Others, Whole
  <2>4. CASE outcome = record
    <3>1. Decided(store', context) = context.new
      BY <1>6, <2>4 DEF Decided
    <3>2. /\ BranchUsable(store', context.new.active)
          /\ BranchUsable(store', context.new.fallback)
      BY <1>3, <1>6, <2>1, BranchKept DEF TargetVerified
    <3>3. context.old.rootSlot \in Readable(store, "root")
      BY <1>2, <1>3, <2>1, GraphFields, RecordReadable DEF Whole
    <3>4. context.old.root.version < record.version
      BY <1>5, <2>1, <3>3 DEF RootFresh, Fresh, Whole
    <3>5. \A i \in Readable(store', "root") \ {slot} :
             store'["root"][i].version < record.version
      BY <2>2, <2>3, <3>4 DEF Readable
    <3> QED
      BY <1>2, <1>6, <2>1, <2>4, <3>1, <3>2, <3>5 DEF Whole, Prepared
  <2>5. CASE outcome # record
    <3>1. Decided(store', context) = context.old
      BY <1>6, <2>5 DEF Decided
    <3>2. outcome \in {store["root"][slot], Absent, Corrupt}
      BY <1>4, <2>5 DEF WriteOutcomes
    <3>3. BranchUsable(store', context.old.active)
      BY <1>3, <1>6, <2>1, BranchKept DEF Whole
    <3>4. context.old.fallback # None =>
             BranchUsable(store', context.old.fallback)
      BY <1>3, <1>6, <2>1, BranchKept DEF Whole
    <3>5. \A i \in Readable(store', "root") \ {context.old.rootSlot} :
             i = slot /\ i \in Readable(store, "root")
             /\ store'["root"][i] = store["root"][i]
      BY <1>6, <2>2, <3>2 DEF Readable
    <3>6. \A i \in Readable(store', "root") \ {context.old.rootSlot} :
             store'["root"][i].version < context.old.root.version
      BY <2>1, <3>5 DEF Whole
    <3> QED
      BY <1>2, <2>1, <2>3, <3>1, <3>3, <3>4, <3>6 DEF Whole
  <2> QED
    BY <2>1, <2>4, <2>5
<1> QED
  BY <1>1, <1>4, <1>6, <1>7

-----------------------------------------------------------------------------
(* The actions                                                             *)

\* The commit goes on to another phase or another record.
GoesOn(c) ==
  /\ context # None /\ mode = "CommitInProgress"
  /\ UNCHANGED <<mode, graph, cause, losses>>
  /\ context' = c /\ c \in Contexts
  /\ c.old = context.old /\ c.new = context.new
  /\ c.writes \subseteq context.writes

\* A commit that goes on leaves the register alone or takes effect in it.
LEMMA GoesOnKeeps ==
  ASSUME StoreInv, Observed, NEW c, GoesOn(c),
         Stored(store'), ~IdentityCollision(store'),
         c.phase = "records" => WritesFresh(store', c),
         c.phase \in {"records", "root"} => RootFresh(store', c),
         losses = 0 =>
           /\ restart = context.old
           /\ c.phase \in {"records", "root"} => Whole(store', c.old)
           /\ c.phase = "root" => TargetVerified(store', c)
           /\ c.phase = "written" => Whole(store', c.new)
           /\ c.phase = "unknown" => Whole(store', Decided(store', c))
  PROVE  StoreInv' /\ RegisterStep
<1>1. /\ context # None /\ context' = c /\ c \in Contexts /\ c # None
      /\ c.old = context.old /\ c.new = context.new
      /\ c.writes \subseteq context.writes
      /\ mode' = mode /\ graph' = graph /\ cause' = cause /\ losses' = losses
      /\ mode = "CommitInProgress"
  BY StoreNone DEF GoesOn, StoreInv, TypeOK
<1>2. /\ Prepared(context) /\ context.old = graph /\ graph \in Graphs
      /\ context.new \in Graphs
  BY <1>1, ContextFields
<1>3. Prepared(c)
  BY <1>1, <1>2 DEF Prepared
<1>4. TypeOK'
  BY <1>1, <1>2 DEF StoreInv, TypeOK, Stored
<1>5. ContextPrepared'
  BY <1>1, <1>2, <1>3 DEF ContextPrepared
<1>6. c.phase \in {"records", "root", "written", "unknown"}
  BY <1>1 DEF Contexts
<1>7. losses = 0 =>
        /\ Whole(store', restart') /\ kept' = Configuration(restart'.active)
        /\ c.phase \in {"records", "root"} => restart' = c.old
        /\ c.phase = "written" => restart' = c.new
        /\ c.phase = "unknown" => restart' = Decided(store', c)
  BY <1>1, <1>6, SeenWhole
<1>8. RestartWhole'
  BY <1>1, <1>7 DEF RestartWhole, Decided, TargetVerified
<1>9. StoreInv'
  BY <1>4, <1>5, <1>8 DEF StoreInv, IdentityUnique, Observed
<1>10. CASE losses = 0
  <2>1. kept = Configuration(context.old.active)
    BY <1>10 DEF StoreInv, RestartWhole
  <2>2. restart' \in {context.old, context.new}
    BY <1>1, <1>6, <1>7, <1>10 DEF Decided
  <2>3. kept' \in {kept, Configuration(context.new.active)}
    BY <1>7, <1>10, <2>1, <2>2
  <2>4. Configuration(context.new.active) # None
    BY <1>2, GraphFields, ConfigurationType
  <2>5. CASE kept' = kept
    BY <1>1, <1>9, <1>10, <2>5
       DEF RegisterStep, Register!vars, Intact, ProposedConfiguration
  <2>6. CASE kept' = Configuration(context.new.active)
    <3>1. Register!TakeEffect
      BY <1>1, <1>10, <2>4, <2>6
         DEF Register!TakeEffect, Intact, ProposedConfiguration
    <3> QED
      BY <1>9, <3>1 DEF RegisterStep, Register!Next
  <2> QED
    BY <2>3, <2>5, <2>6
<1>11. CASE losses # 0
  <2>1. kept' = kept
    BY <1>1, <1>11 DEF Observed
  <2> QED
    BY <1>1, <1>9, <1>11, <2>1 DEF RegisterStep, Register!vars, Intact
<1> QED
  BY <1>10, <1>11

\* boot() loads what the register holds.
LEMMA BootKeeps ==
  ASSUME StoreInv, Boot, Observed
  PROVE  StoreInv' /\ RegisterStep
<1>1. /\ mode = "NoRuntime" /\ UNCHANGED <<store, context, cause, losses>>
      /\ graph = None /\ context = None /\ cause = None
  BY DEF Boot, StoreInv, TypeOK
<1>2. /\ restart' = restart /\ kept' = kept
      /\ Stored(store') /\ ~IdentityCollision(store')
      /\ losses = 0 => Whole(store', restart')
  BY <1>1, SeenSame
<1>3. restart = LoadCanonicalGraph(store)
  BY DEF StoreInv
<1>4. losses = 0 => restart \in Graphs /\ restart # None
                    /\ kept = Configuration(restart.active)
  BY StoreNone DEF StoreInv, RestartWhole, Whole
<1>5. ASSUME restart # None, graph' = restart, mode' = "Operational",
             cause = None
      PROVE  StoreInv' /\ RegisterStep
  <2>1. restart \in Graphs
    BY <1>3, <1>5, InvStored, LoadedGraph
  <2>2. TypeOK'
    BY <1>1, <1>5, <2>1 DEF StoreInv, TypeOK
  <2>3. StoreInv'
    BY <1>1, <1>2, <1>4, <1>5, <2>2 DEF StoreInv, IdentityUnique,
       ContextPrepared, RestartWhole, Observed
  <2>4. CASE losses = 0
    <3>1. Register!Boot
      BY <1>1, <1>2, <1>4, <1>5, <2>4
         DEF Register!Boot, Intact, ProposedConfiguration
    <3> QED
      BY <2>3, <3>1 DEF RegisterStep, Register!Next
  <2>5. CASE losses # 0
    BY <1>1, <1>2, <2>3, <2>5 DEF RegisterStep, Register!vars, Intact
  <2> QED
    BY <2>4, <2>5
<1>6. ASSUME restart = None, mode' = "ResetEligibleNoRuntime",
             graph' = graph
      PROVE  StoreInv' /\ RegisterStep
  <2>1. losses # 0
    BY <1>4, <1>6
  <2>2. TypeOK'
    BY <1>1, <1>6 DEF StoreInv, TypeOK
  <2>3. StoreInv'
    BY <1>1, <1>2, <1>6, <2>1, <2>2 DEF StoreInv, IdentityUnique,
       ContextPrepared, RestartWhole, Observed
  <2> QED
    BY <1>1, <1>2, <2>1, <2>3 DEF RegisterStep, Register!vars, Intact
<1> QED
  BY <1>1, <1>3, <1>5, <1>6 DEF Boot

\* confirmPreview() proposes the change to the register, or fails closed.
LEMMA ConfirmKeeps ==
  ASSUME StoreInv, NEW candidate \in [Documents -> Contents],
         Confirm(candidate), Observed
  PROVE  StoreInv' /\ RegisterStep
<1>1. /\ mode = "Operational" /\ candidate # Configuration(graph.active)
      /\ UNCHANGED <<store, losses>>
  BY DEF Confirm
<1>2. /\ graph \in Graphs /\ graph # None /\ context = None /\ cause = None
      /\ Stored(store)
  BY <1>1, StoreNone, InvStored DEF StoreInv, TypeOK
<1>3. CASE /\ PlanSlots(store, graph, candidate)
           /\ context' = PrepareCommit(store, graph, candidate)
           /\ mode' = "CommitInProgress"
           /\ UNCHANGED <<graph, cause>>
  <2> DEFINE c == PrepareCommit(store, graph, candidate)
  <2>1. /\ c \in Contexts /\ Prepared(c) /\ c.old = graph
        /\ c.phase = "records" /\ Configuration(c.new.active) = candidate
        /\ WritesFresh(store, c) /\ RootFresh(store, c)
    BY <1>1, <1>2, <1>3, CommitPrepared
  <2> HIDE DEF c
  <2>2. context' = c /\ c # None
    BY <1>3, <2>1, StoreNone DEF c
  <2>3. /\ restart' = restart /\ kept' = kept
        /\ Stored(store') /\ ~IdentityCollision(store')
        /\ losses = 0 => Whole(store', restart')
    BY <1>1, SeenSame
  <2>4. losses = 0 => graph = restart /\ kept = Configuration(graph.active)
    BY <1>1 DEF StoreInv, RestartWhole
  <2>5. TypeOK'
    BY <1>1, <1>2, <1>3, <2>1, <2>2 DEF StoreInv, TypeOK
  <2>6. WritesFresh(store', c) /\ RootFresh(store', c)
    BY <1>1, <2>1
  <2>7. ContextPrepared'
    BY <1>3, <2>1, <2>2, <2>6 DEF ContextPrepared
  <2>8. RestartWhole'
    BY <1>1, <1>3, <2>1, <2>2, <2>3, <2>4 DEF RestartWhole
  <2>9. StoreInv'
    BY <2>3, <2>5, <2>7, <2>8 DEF StoreInv, IdentityUnique, Observed
  <2>10. CASE losses = 0
    <3>1. Configuration(graph.active) # None
      BY <1>2, GraphFields, ConfigurationType
    <3>2. Register!Propose
      BY <1>1, <1>2, <1>3, <2>1, <2>2, <2>3, <2>4, <2>10, <3>1
         DEF Register!Propose, Intact, ProposedConfiguration
    <3> QED
      BY <2>9, <3>2 DEF RegisterStep, Register!Next
  <2>11. CASE losses # 0
    BY <1>1, <2>3, <2>9, <2>11 DEF RegisterStep, Register!vars, Intact
  <2> QED
    BY <2>10, <2>11
<1>4. ASSUME NEW newCause, EnterFailClosed("RuntimeFailure", newCause),
             UNCHANGED context
      PROVE  StoreInv' /\ RegisterStep
  BY <1>1, <1>2, <1>4, FailKeeps
<1> QED
  BY <1>3, <1>4 DEF Confirm

\* The write of a record: the commit is given up or goes on.
LEMMA WriteRecordKeeps ==
  ASSUME StoreInv, WriteRecord, Observed
  PROVE  StoreInv' /\ RegisterStep
<1>1. /\ mode = "CommitInProgress" /\ context.phase = "records"
      /\ context.writes # {} /\ losses' = losses
  BY DEF WriteRecord
<1>2. PICK outcome \in WriteOutcomes(PendingWrite.group, PendingWrite.slot,
                                     PendingWrite.record) :
        /\ store' = Put(PendingWrite.group, PendingWrite.slot, outcome)
        /\ \/ Abandon
           \/ /\ context' = [context EXCEPT
                               !.writes = @ \ {PendingWrite.group}]
              /\ UNCHANGED <<mode, graph, cause>>
  BY DEF WriteRecord
<1>3. /\ Stored(store') /\ ~IdentityCollision(store')
      /\ losses = 0 => restart = context.old /\ Whole(store', context.old)
      /\ RootFresh(store', context)
      /\ \A group \in context.writes \ {PendingWrite.group} :
            Fresh(store', group,
                  ReferenceOf(context.new.active, group).version)
  BY <1>1, <1>2, RecordTorn
<1>4. context # None
  BY <1>1, RecordDue
<1>5. CASE Abandon
  BY <1>1, <1>3, <1>4, <1>5, AbandonKeeps
<1>6. CASE /\ context' = [context EXCEPT
                            !.writes = @ \ {PendingWrite.group}]
           /\ UNCHANGED <<mode, graph, cause>>
  <2> DEFINE g == PendingWrite.group
             c == [context EXCEPT !.writes = @ \ {g}]
  <2>1. context \in Contexts
    BY <1>4, ContextFields
  <2> HIDE DEF g
  <2>2. /\ c \in Contexts /\ c.old = context.old /\ c.new = context.new
        /\ c.writes = context.writes \ {g} /\ c.phase = "records"
    BY <1>1, <2>1 DEF Contexts
  <2>3. context' = c
    BY <1>6 DEF g
  <2> HIDE DEF c
  <2>4. GoesOn(c)
    BY <1>1, <1>4, <1>6, <2>2, <2>3 DEF GoesOn
  <2>5. WritesFresh(store', c) /\ RootFresh(store', c)
    BY <1>3, <2>2 DEF WritesFresh, RootFresh, g
  <2> QED
    BY <1>3, <2>2, <2>4, <2>5, GoesOnKeeps
<1> QED
  BY <1>2, <1>5, <1>6

\* The records are read back.
LEMMA VerifyTargetKeeps ==
  ASSUME StoreInv, VerifyTarget, Observed
  PROVE  StoreInv' /\ RegisterStep
<1>1. /\ mode = "CommitInProgress" /\ context.phase = "records"
      /\ UNCHANGED <<store, losses>> /\ context # None
  BY DEF VerifyTarget, StoreInv, TypeOK
<1>2. /\ context \in Contexts /\ graph \in Graphs /\ graph # None
  BY <1>1, ContextFields, StoreNone
<1>3. CASE /\ TargetVerified(store, context)
           /\ context' = [context EXCEPT !.phase = "root"]
           /\ UNCHANGED <<mode, graph, cause>>
  <2> DEFINE c == [context EXCEPT !.phase = "root"]
  <2>1. /\ c \in Contexts /\ c.old = context.old /\ c.new = context.new
        /\ c.writes = context.writes /\ c.phase = "root"
    BY <1>2 DEF Contexts
  <2> HIDE DEF c
  <2>2. GoesOn(c)
    BY <1>1, <1>3, <2>1 DEF GoesOn, c
  <2>3. Stored(store') /\ ~IdentityCollision(store')
    BY <1>1, InvStored
  <2>4. RootFresh(store', c)
    BY <1>1, <2>1 DEF StoreInv, ContextPrepared, RootFresh
  <2>5. losses = 0 => restart = context.old /\ Whole(store', c.old)
    BY <1>1, <2>1 DEF StoreInv, RestartWhole
  <2>6. TargetVerified(store', c)
    BY <1>1, <1>3, <2>1 DEF TargetVerified
  <2> QED
    BY <2>1, <2>2, <2>3, <2>4, <2>5, <2>6, GoesOnKeeps
<1>4. ASSUME NEW newCause \in {"PersistentGraphFailure",
                               "PersistentStoreReadFailure"},
             EnterFailClosed("RuntimeFailure", newCause), UNCHANGED context
      PROVE  StoreInv' /\ RegisterStep
  BY <1>1, <1>2, <1>4, FailKeeps
<1> QED
  BY <1>3, <1>4 DEF VerifyTarget

\* The root write: rejected, successful, or of unknown outcome.
LEMMA WriteRootKeeps ==
  ASSUME StoreInv, WriteRoot, Observed
  PROVE  StoreInv' /\ RegisterStep
<1>1. /\ mode = "CommitInProgress" /\ context.phase = "root"
      /\ losses' = losses /\ context # None
  BY DEF WriteRoot, StoreInv, TypeOK
<1>2. context \in Contexts
  BY <1>1, ContextFields
<1>3. CASE Abandon /\ UNCHANGED store
  <2>1. losses = 0 => restart = context.old /\ Whole(store, context.old)
    BY <1>1 DEF StoreInv, RestartWhole
  <2>2. Stored(store') /\ ~IdentityCollision(store')
    BY <1>3, InvStored
  <2>3. losses = 0 => Whole(store', context.old)
    BY <1>3, <2>1
  <2> QED
    BY <1>1, <1>3, <2>1, <2>2, <2>3, AbandonKeeps
<1>4. ASSUME NEW phase \in {"written", "unknown"},
             NEW outcome \in WriteOutcomes("root", PendingWrite.slot,
                                           PendingWrite.record),
             phase = "written" => outcome = PendingWrite.record,
             store' = Put("root", PendingWrite.slot, outcome),
             context' = [context EXCEPT !.phase = phase],
             UNCHANGED <<mode, graph, cause>>
      PROVE  StoreInv' /\ RegisterStep
  <2> DEFINE c == [context EXCEPT !.phase = phase]
  <2>1. /\ c \in Contexts /\ c.old = context.old /\ c.new = context.new
        /\ c.writes = context.writes /\ c.phase = phase
    BY <1>2 DEF Contexts
  <2> HIDE DEF c
  <2>2. GoesOn(c)
    BY <1>1, <1>4, <2>1 DEF GoesOn, c
  <2>3. /\ Stored(store') /\ ~IdentityCollision(store')
        /\ store'["root"][context.new.rootSlot] = outcome
        /\ PendingWrite.record = context.new.root
        /\ losses = 0 => /\ restart = context.old
                         /\ Whole(store', Decided(store', context))
    BY <1>1, <1>4, RootTorn
  <2>4. Decided(store', c) = Decided(store', context)
    BY <2>1 DEF Decided
  <2>5. phase = "written" => Decided(store', context) = context.new
    BY <1>4, <2>3 DEF Decided
  <2>6. c.phase \notin {"records", "root"}
    BY <2>1
  <2> QED
    BY <2>1, <2>2, <2>3, <2>4, <2>5, <2>6, GoesOnKeeps
<1>5. PendingWrite.record \in WriteOutcomes("root", PendingWrite.slot,
                                            PendingWrite.record)
  BY DEF WriteOutcomes
<1>6. CASE /\ store' = Put("root", PendingWrite.slot, PendingWrite.record)
           /\ context' = [context EXCEPT !.phase = "written"]
           /\ UNCHANGED <<mode, graph, cause>>
  BY <1>4, <1>5, <1>6
<1>7. CASE /\ \E outcome \in WriteOutcomes("root", PendingWrite.slot,
                                           PendingWrite.record) :
                store' = Put("root", PendingWrite.slot, outcome)
           /\ context' = [context EXCEPT !.phase = "unknown"]
           /\ UNCHANGED <<mode, graph, cause>>
  BY <1>4, <1>7
<1> QED
  BY <1>3, <1>6, <1>7 DEF WriteRoot

\* The successful root write is verified.
LEMMA VerifyRootKeeps ==
  ASSUME StoreInv, VerifyRoot, Observed
  PROVE  StoreInv' /\ RegisterStep
<1>1. /\ mode = "CommitInProgress" /\ context.phase = "written"
      /\ UNCHANGED <<store, losses>> /\ context # None
  BY DEF VerifyRoot, StoreInv, TypeOK
<1>2. graph # None
  BY <1>1, ContextFields, StoreNone
<1>3. CASE PublishPrepared
  <2>1. losses = 0 => restart = context.new
    BY <1>1 DEF StoreInv, RestartWhole
  <2> QED
    BY <1>1, <1>3, <2>1, PublishKeeps
<1>4. CASE /\ EnterFailClosed("RuntimeFailure",
                              "PostCommitVerificationFailure")
           /\ UNCHANGED context
  BY <1>1, <1>2, <1>4, FailKeeps
<1> QED
  BY <1>3, <1>4 DEF VerifyRoot

\* A resolution that is sure of the new or of the old configuration is right.
LEMMA ResolvedRight ==
  /\ ResolveCommitDetailed(store, context) = "RecoveredNew" =>
       Decided(store, context) = context.new
  /\ ResolveCommitDetailed(store, context) = "RecoveredOld" =>
       Decided(store, context) = context.old
BY DEF ResolveCommitDetailed, Resolved, Decided

\* An unknown root write is resolved.
LEMMA ResolveKeeps ==
  ASSUME StoreInv, Resolve, Observed, UNCHANGED <<store, losses>>,
         mode \in {"CommitInProgress", "CommitIndeterminate"},
         context.phase = "unknown"
  PROVE  StoreInv' /\ RegisterStep
<1>1. context # None
  BY DEF StoreInv, TypeOK
<1>2. graph # None
  BY <1>1, ContextFields, StoreNone
<1>3. losses = 0 =>
        restart = Decided(store, context) /\ Whole(store, restart)
  BY <1>1 DEF StoreInv, RestartWhole
<1>4. CASE /\ ResolveCommitDetailed(store, context) = "RecoveredNew"
           /\ PublishPrepared
  BY <1>1, <1>3, <1>4, ResolvedRight, PublishKeeps
<1>5. CASE /\ ResolveCommitDetailed(store, context) = "RecoveredOld"
           /\ Abandon
  <2>1. losses = 0 => restart = context.old /\ Whole(store, context.old)
    BY <1>3, <1>5, ResolvedRight
  <2>2. losses = 0 => Whole(store', context.old)
    BY <2>1
  <2>3. Stored(store') /\ ~IdentityCollision(store')
    BY InvStored
  <2> QED
    BY <1>1, <1>5, <2>1, <2>2, <2>3, AbandonKeeps
<1>6. CASE /\ EnterFailClosed("CommitIndeterminate",
                              "PersistentGraphVerificationFailure")
           /\ UNCHANGED context
  BY <1>1, <1>2, <1>6, FailKeeps
<1>7. CASE /\ EnterFailClosed("RuntimeFailure",
                              "PostCommitVerificationFailure")
           /\ UNCHANGED context
  BY <1>1, <1>2, <1>7, FailKeeps
<1> QED
  BY <1>4, <1>5, <1>6, <1>7 DEF Resolve

LEMMA ResolveRootKeeps ==
  ASSUME StoreInv, ResolveRoot, Observed
  PROVE  StoreInv' /\ RegisterStep
BY ResolveKeeps DEF ResolveRoot

LEMMA ResolveIndeterminateKeeps ==
  ASSUME StoreInv, ResolveIndeterminate, Observed
  PROVE  StoreInv' /\ RegisterStep
<1>1. mode = "CommitIndeterminate" /\ Resolve /\ UNCHANGED <<store, losses>>
  BY DEF ResolveIndeterminate
<1>2. context # None
  BY <1>1 DEF StoreInv, TypeOK
<1>3. context.phase = "unknown"
  BY <1>1, <1>2 DEF StoreInv, ContextPrepared
<1> QED
  BY <1>1, <1>3, ResolveKeeps

\* recoverRuntimeFailure() only goes forward to the new configuration.
LEMMA RecoverKeeps ==
  ASSUME StoreInv, RecoverRuntimeFailure, Observed
  PROVE  StoreInv' /\ RegisterStep
<1>1. /\ mode = "RuntimeFailure" /\ context # None
      /\ cause = "PostCommitVerificationFailure"
      /\ ResolveCommitDetailed(store, context) = "RecoveredNew"
      /\ PublishPrepared /\ UNCHANGED <<store, losses>>
  BY DEF RecoverRuntimeFailure
<1>2. context.phase \in {"written", "unknown"}
  BY <1>1 DEF StoreInv, ContextPrepared
<1>3. losses = 0 => restart = context.new
  BY <1>1, <1>2, ResolvedRight DEF StoreInv, RestartWhole
<1> QED
  BY <1>1, <1>3, PublishKeeps

\* After a power loss a restart loads the old or the new configuration.
LEMMA PowerLossKeeps ==
  ASSUME StoreInv, PowerLoss, Observed
  PROVE  StoreInv' /\ RegisterStep
<1>1. /\ mode' = "NoRuntime" /\ graph' = None /\ context' = None
      /\ cause' = None /\ losses' = losses /\ mode # "NoRuntime"
  BY DEF PowerLoss
<1>2. ASSUME Stored(store'), ~IdentityCollision(store'),
             losses = 0 =>
               /\ Whole(store', restart')
               /\ kept' = Configuration(restart'.active)
               /\ \/ kept' = kept
                  \/ /\ context # None
                     /\ kept' = Configuration(context.new.active)
      PROVE  StoreInv' /\ RegisterStep
  <2>1. TypeOK'
    BY <1>1, <1>2 DEF StoreInv, TypeOK, Stored
  <2>2. StoreInv'
    BY <1>1, <1>2, <2>1 DEF StoreInv, IdentityUnique, ContextPrepared,
       RestartWhole, Observed
  <2>3. CASE losses = 0
    <3>1. context # None => Configuration(context.new.active) # None
      BY ContextFields, GraphFields, ConfigurationType
    <3>2. Register!PowerLoss
      BY <1>1, <1>2, <2>3, <3>1
         DEF Register!PowerLoss, Intact, ProposedConfiguration
    <3> QED
      BY <2>2, <3>2 DEF RegisterStep, Register!Next
  <2>4. CASE losses # 0
    <3>1. kept' = kept
      BY <1>1, <2>4 DEF Observed
    <3> QED
      BY <1>1, <2>2, <2>4, <3>1 DEF RegisterStep, Register!vars, Intact
  <2> QED
    BY <2>3, <2>4
<1>3. losses = 0 => kept = Configuration(restart.active)
  BY DEF StoreInv, RestartWhole
<1>4. CASE ~WriteUnderWay
  <2>1. UNCHANGED <<store, losses>>
    BY <1>1, <1>4 DEF PowerLoss
  <2>2. /\ restart' = restart /\ kept' = kept
        /\ Stored(store') /\ ~IdentityCollision(store')
        /\ losses = 0 => Whole(store', restart')
    BY <2>1, SeenSame
  <2> QED
    BY <1>2, <1>3, <2>2
<1>5. CASE WriteUnderWay
  <2>1. PICK outcome \in WriteOutcomes(PendingWrite.group, PendingWrite.slot,
                                       PendingWrite.record) :
          store' = Put(PendingWrite.group, PendingWrite.slot, outcome)
    BY <1>5 DEF PowerLoss
  <2>2. mode = "CommitInProgress" /\ context # None
    BY <1>5 DEF WriteUnderWay, StoreInv, TypeOK
  <2>3. CASE context.phase = "records" /\ context.writes # {}
    <3>1. /\ Stored(store') /\ ~IdentityCollision(store')
          /\ losses = 0 => restart = context.old /\ Whole(store', context.old)
      BY <2>1, <2>2, <2>3, RecordTorn
    <3>2. losses = 0 =>
            /\ Whole(store', restart') /\ restart' = restart
            /\ kept' = Configuration(restart'.active)
      BY <1>1, <3>1, SeenWhole
    <3> QED
      BY <1>2, <1>3, <3>1, <3>2
  <2>4. CASE context.phase = "root"
    <3>1. PendingWrite.group = "root"
      BY <2>4 DEF PendingWrite
    <3>2. /\ outcome \in WriteOutcomes("root", PendingWrite.slot,
                                       PendingWrite.record)
          /\ store' = Put("root", PendingWrite.slot, outcome)
      BY <2>1, <3>1
    <3>3. /\ Stored(store') /\ ~IdentityCollision(store')
          /\ losses = 0 => /\ restart = context.old
                           /\ Whole(store', Decided(store', context))
      BY <2>2, <2>4, <3>2, RootTorn
    <3>4. losses = 0 =>
            /\ Whole(store', restart') /\ restart' = Decided(store', context)
            /\ kept' = Configuration(restart'.active)
      BY <1>1, <3>3, SeenWhole
    <3>5. losses = 0 => restart' \in {restart, context.new}
      BY <3>3, <3>4 DEF Decided
    <3>6. losses = 0 => \/ kept' = kept
                        \/ kept' = Configuration(context.new.active)
      BY <1>3, <3>4, <3>5
    <3> QED
      BY <1>2, <2>2, <3>3, <3>4, <3>6
  <2> QED
    BY <1>5, <2>3, <2>4 DEF WriteUnderWay
<1> QED
  BY <1>4, <1>5

\* A lost record takes nothing fresh away, and the register stands still.
LEMMA LoseKeeps ==
  ASSUME StoreInv, Lose, Observed
  PROVE  StoreInv' /\ RegisterStep
<1>1. /\ losses < MaxLosses /\ losses' = losses + 1
      /\ UNCHANGED <<mode, graph, context, cause>>
  BY DEF Lose
<1>2. PICK group \in Groups : \E i \in Readable(store, group) :
         \E left \in {Absent, Corrupt} : store' = Put(group, i, left)
  BY DEF Lose
<1>3. PICK i \in Readable(store, group), left \in {Absent, Corrupt} :
         store' = Put(group, i, left)
  BY <1>2
<1>4. losses \in 0 .. MaxLosses /\ MaxLosses \in Nat
  BY StoreConstants DEF StoreInv, TypeOK
<1>5. losses' # 0 /\ losses' \in 0 .. MaxLosses
  BY <1>1, <1>4
<1>6. i \in Slots(group) /\ left \in Cells(group)
  BY DEF Readable, Cells
<1>7. Stored(store) /\ ~IdentityCollision(store)
  BY InvStored
<1>8. store' = Write(store, group, i, left)
  BY <1>3 DEF Put, Write
<1>9. Stored(store') /\ store'[group][i] = left
  BY <1>6, <1>7, <1>8, WriteCells
<1>10. \A g \in Groups : \A k \in Slots(g) : g # group \/ k # i =>
          store'[g][k] = store[g][k]
  BY <1>6, <1>7, <1>8, WriteCells
<1>11. Others(store, store', group, i) /\ Beside(store, store', group)
  BY <1>10 DEF Others, Beside
<1>12. ~IdentityCollision(store')
  BY <1>6, <1>7, <1>9, <1>11, StaysUnique
<1>13. \A g \in Groups : \A k \in Readable(store', g) :
          k \in Readable(store, g) /\ store'[g][k] = store[g][k]
  <2> TAKE g \in Groups
  <2> TAKE k \in Readable(store', g)
  <2>1. k \in Slots(g) /\ store'[g][k] \notin {Absent, Corrupt}
    BY DEF Readable
  <2>2. g # group \/ k # i
    BY <1>9, <2>1
  <2> QED
    BY <1>10, <2>1, <2>2 DEF Readable
<1>14. \A g \in Groups : \A version :
          Fresh(store, g, version) => Fresh(store', g, version)
  BY <1>13 DEF Fresh
<1>15. TypeOK'
  BY <1>1, <1>5, <1>9 DEF StoreInv, TypeOK, Stored
<1>16. ContextPrepared'
  <2>1. context # None => context.writes \subseteq Groups
    BY ContextFields, BranchGroup
  <2>2. context # None /\ WritesFresh(store, context) =>
          WritesFresh(store', context)
    BY <1>14, <2>1 DEF WritesFresh
  <2>3. RootFresh(store, context) => RootFresh(store', context)
    BY <1>14, GroupsApart DEF RootFresh
  <2> QED
    BY <1>1, <2>2, <2>3 DEF StoreInv, ContextPrepared
<1>17. StoreInv'
  BY <1>5, <1>12, <1>15, <1>16
     DEF StoreInv, IdentityUnique, RestartWhole, Observed
<1>18. kept' = kept
  BY <1>5 DEF Observed
<1>19. CASE losses = 0
  <2>1. Register!PowerLoss
    BY <1>5, <1>18 DEF Register!PowerLoss, Intact
  <2> QED
    BY <1>17, <2>1 DEF RegisterStep, Register!Next
<1>20. CASE losses # 0
  BY <1>5, <1>17, <1>18, <1>20 DEF RegisterStep, Register!vars, Intact
<1> QED
  BY <1>19, <1>20

-----------------------------------------------------------------------------
(* The factory configuration                                               *)

FactoryDocuments ==
  [d \in Documents |-> Reference(0, Record(1, FactoryContent))]
FactoryManifest == Reference(0, Record(1, FactoryDocuments))
FactoryRoot == Record(1, [active |-> FactoryManifest, fallback |-> None])

\* The first slot of every group holds a record, the others nothing.
LEMMA FactoryCells ==
  /\ DOMAIN FactoryGraph = Groups
  /\ \A group \in Groups :
        /\ DOMAIN FactoryGraph[group] = Slots(group)
        /\ \A i \in Slots(group) : i # 0 => FactoryGraph[group][i] = Absent
  /\ FactoryGraph["root"][0] = FactoryRoot
  /\ FactoryGraph["manifest"][0] = Record(1, FactoryDocuments)
  /\ \A d \in Documents : FactoryGraph[d][0] = Record(1, FactoryContent)
<1> DEFINE first == [group \in Groups |->
                       CASE group = "root" -> FactoryRoot
                         [] group = "manifest" -> Record(1, FactoryDocuments)
                         [] OTHER -> Record(1, FactoryContent)]
<1>1. FactoryGraph =
        [group \in Groups |->
           [i \in Slots(group) |-> IF i = 0 THEN first[group] ELSE Absent]]
  BY DEF FactoryGraph, FactoryRoot, FactoryManifest, FactoryDocuments
<1>2. /\ first["root"] = FactoryRoot
      /\ first["manifest"] = Record(1, FactoryDocuments)
      /\ \A d \in Documents : first[d] = Record(1, FactoryContent)
  BY GroupsApart
<1> HIDE DEF first
<1>3. \A group \in Groups : 0 \in Slots(group)
  BY SlotNumbers DEF Groups
<1> QED
  BY <1>1, <1>2, <1>3, GroupsApart

LEMMA FactoryTypes ==
  /\ FactoryDocuments \in ManifestPayloads
  /\ FactoryManifest \in Branches
  /\ FactoryRoot \in Records("root")
  /\ Record(1, FactoryDocuments) \in Records("manifest")
  /\ \A d \in Documents : Record(1, FactoryContent) \in Records(d)
<1>1. 1 \in Versions /\ FactoryContent \in Contents
  BY StoreConstants DEF Versions
<1>2. FactoryDocuments \in ManifestPayloads
  BY <1>1 DEF FactoryDocuments, ManifestPayloads, DocumentReferences,
     Reference, Record
<1>3. FactoryManifest = [slot |-> 0, version |-> 1,
                         payload |-> FactoryDocuments]
  BY DEF FactoryManifest, Reference, Record
<1>4. FactoryManifest \in Branches
  BY <1>1, <1>2, <1>3, SlotNumbers DEF Branches
<1>5. [active |-> FactoryManifest, fallback |-> None] \in RootPayloads
  BY <1>4 DEF RootPayloads
<1>6. Records("root") = [version : Versions, payload : RootPayloads]
  BY RecordShapes
<1>7. FactoryRoot \in Records("root")
  BY <1>1, <1>5, <1>6 DEF FactoryRoot, Record
<1>8. Record(1, FactoryDocuments) \in Records("manifest")
  BY <1>1, <1>2, RecordShapes DEF Record
<1>9. \A d \in Documents : Record(1, FactoryContent) \in Records(d)
  BY <1>1, RecordShapes DEF Record
<1> QED
  BY <1>2, <1>4, <1>7, <1>8, <1>9

\* The factory configuration is a store without collisions.
LEMMA FactoryStored == Stored(FactoryGraph) /\ ~IdentityCollision(FactoryGraph)
<1>1. \A group \in Groups : FactoryGraph[group][0] \in Records(group)
  BY FactoryCells, FactoryTypes DEF Groups
<1>2. \A group \in Groups :
         FactoryGraph[group] \in [Slots(group) -> Cells(group)]
  <2> TAKE group \in Groups
  <2>1. FactoryGraph[group] =
          [i \in Slots(group) |-> FactoryGraph[group][i]]
    BY FactoryCells DEF FactoryGraph
  <2>2. \A i \in Slots(group) : FactoryGraph[group][i] \in Cells(group)
    BY <1>1, FactoryCells DEF Cells
  <2> QED
    BY <2>1, <2>2
<1>3. \A group \in Groups : Readable(FactoryGraph, group) \subseteq {0}
  BY FactoryCells DEF Readable
<1>4. ~IdentityCollision(FactoryGraph)
  BY <1>3 DEF IdentityCollision
<1> QED
  BY <1>2, <1>4, FactoryCells DEF Stored

\* The graph of the factory configuration is whole.
LEMMA FactoryWhole ==
  Whole(FactoryGraph,
        [rootSlot |-> 0, root |-> FactoryRoot, active |-> FactoryManifest,
         fallback |-> None, selectedFallback |-> FALSE])
<1> DEFINE g == [rootSlot |-> 0, root |-> FactoryRoot,
                 active |-> FactoryManifest, fallback |-> None,
                 selectedFallback |-> FALSE]
<1>1. g \in Graphs
  BY FactoryTypes, SlotNumbers DEF Graphs
<1>2. Readable(FactoryGraph, "root") \subseteq {0}
  BY FactoryCells, GroupsApart DEF Readable
<1>3. FactoryRoot.payload = [active |-> FactoryManifest, fallback |-> None]
  BY DEF FactoryRoot, Record
<1>4. HasRecord(FactoryGraph, "manifest", FactoryManifest)
  <2>1. 0 \in Readable(FactoryGraph, "manifest")
    BY FactoryCells, FactoryTypes, GroupsApart, SlotNumbers, RecordReadable
  <2>2. FactoryManifest.slot = 0
    BY DEF FactoryManifest, Reference
  <2> QED
    BY <2>1, <2>2, FactoryCells DEF HasRecord, FactoryManifest
<1>5. ASSUME NEW d \in Documents
      PROVE  HasRecord(FactoryGraph, d, FactoryManifest.payload[d])
  <2>1. 0 \in Slots(d) /\ d \in Groups
    BY SlotNumbers, GroupsApart
  <2>2. FactoryGraph[d][0] = Record(1, FactoryContent)
    BY FactoryCells
  <2>3. 0 \in Readable(FactoryGraph, d)
    BY <2>1, <2>2, FactoryTypes, RecordReadable
  <2>4. FactoryManifest.payload = FactoryDocuments
    BY DEF FactoryManifest, Reference, Record
  <2>5. FactoryManifest.payload[d] = Reference(0, Record(1, FactoryContent))
    BY <2>4 DEF FactoryDocuments
  <2>6. Reference(0, Record(1, FactoryContent)).slot = 0
    BY DEF Reference
  <2> QED
    BY <2>2, <2>3, <2>5, <2>6 DEF HasRecord
<1>6. BranchUsable(FactoryGraph, FactoryManifest)
  BY <1>4, <1>5 DEF BranchUsable
<1> QED
  BY <1>1, <1>2, <1>3, <1>6, FactoryCells DEF Whole

\* The device starts with the factory configuration in the register.
LEMMA StoreInit ==
  ASSUME MCInit
  PROVE  StoreInv /\ Register!Init
<1> DEFINE g == [rootSlot |-> 0, root |-> FactoryRoot,
                 active |-> FactoryManifest, fallback |-> None,
                 selectedFallback |-> FALSE]
<1>1. /\ store = FactoryGraph /\ mode = "NoRuntime" /\ graph = None
      /\ context = None /\ cause = None /\ losses = 0
      /\ restart = LoadCanonicalGraph(store) /\ kept = Loaded(restart)
  BY DEF MCInit, Init
<1>2. Stored(store) /\ ~IdentityCollision(store) /\ Whole(store, g)
  BY <1>1, FactoryStored, FactoryWhole
<1> HIDE DEF g
<1>3. restart = g /\ g \in Graphs /\ g # None
  BY <1>1, <1>2, WholeLoaded, StoreNone DEF Whole
<1>4. kept = Configuration(g.active)
  BY <1>1, <1>3 DEF Loaded
<1>5. TypeOK
  <2>1. losses \in 0 .. MaxLosses
    BY <1>1, StoreConstants
  <2> QED
    BY <1>1, <1>2, <2>1 DEF TypeOK, Stored
<1>6. StoreInv
  BY <1>1, <1>2, <1>3, <1>4, <1>5
     DEF StoreInv, IdentityUnique, ContextPrepared, RestartWhole
<1>7. Register!Init
  <2>1. kept \in [Documents -> Contents]
    BY <1>3, <1>4, GraphFields, ConfigurationType
  <2> QED
    BY <1>1, <2>1 DEF Register!Init, Intact, ProposedConfiguration
<1> QED
  BY <1>6, <1>7

-----------------------------------------------------------------------------
(* After the loss of one record                                            *)

\* The root of the graph is in its slot and selects one of its branches.
Backed(st, g) ==
  /\ st["root"][g.rootSlot] = g.root
  /\ \E branch \in {g.active, g.fallback} \ {None} :
       /\ branch \in {g.root.payload.active, g.root.payload.fallback}
       /\ BranchUsable(st, branch)

\* No root names one branch twice.
BranchesApart(st) ==
  \A i \in Readable(st, "root") :
    st["root"][i].payload.active # st["root"][i].payload.fallback

\* As long as no more than one record is lost, and one with a spare, a restart
\* loads something, and a commit that may still be torn is backed by the root
\* it began from.
SpareInv ==
  /\ graph # None => BranchNamed(graph)
  /\ BranchesApart(store)
  /\ losses <= 1 /\ spare =>
       /\ restart # None
       /\ mode = "CommitInProgress" /\ context.phase \in {"records", "root"} =>
            Backed(store, context.old)

\* A restart loads something as long as a graph is backed.
LEMMA BackedLoads ==
  ASSUME NEW st, Stored(st), ~IdentityCollision(st), NEW g \in Graphs,
         Backed(st, g)
  PROVE  LoadCanonicalGraph(st) # None
<1>1. g.rootSlot \in Slots("root") /\ g.root \in Records("root")
  BY GraphFields
<1>2. g.rootSlot \in Readable(st, "root") /\ st["root"][g.rootSlot] = g.root
  BY <1>1, GroupsApart, RecordReadable DEF Backed
<1>3. g.root.payload.active # None
  BY GraphFields, StoreNone
<1>4. SelectedBranch(st, g.root) # None
  BY <1>3 DEF SelectedBranch, Backed
<1> QED
  BY <1>2, <1>4, RootLoaded

\* A whole graph is backed by both of its branches.
LEMMA WholeBacked ==
  ASSUME NEW st, NEW g, Whole(st, g)
  PROVE  Backed(st, g)
<1>1. g.active # None
  BY GraphFields DEF Whole
<1> QED
  BY <1>1 DEF Backed, Whole

\* A graph that passes the scan is backed.
LEMMA ScannedBacked ==
  ASSUME NEW st, NEW g \in Graphs, BranchNamed(g),
         ValidationScan(st, g) = "Success"
  PROVE  Backed(st, g)
<1>1. ~BasisMoved(st, g) /\ BranchUsable(st, g.active)
  BY DEF ValidationScan
<1>2. st["root"][g.rootSlot] = g.root /\ g.active # None
  BY <1>1, GraphFields DEF BasisMoved
<1> QED
  BY <1>1, <1>2 DEF Backed, BranchNamed

\* A write outside the branches of a graph and beside its root leaves it backed.
LEMMA BackedKept ==
  ASSUME NEW st, NEW su, NEW g \in Graphs, Backed(st, g), NEW group \in Groups,
         NEW slot, Others(st, su, group, slot), Beside(st, su, group),
         IF group = "root" THEN slot # g.rootSlot
         ELSE slot \notin ProtectedSlots(g, group)
  PROVE  Backed(su, g)
<1>1. PICK branch \in {g.active, g.fallback} \ {None} :
        /\ branch \in {g.root.payload.active, g.root.payload.fallback}
        /\ BranchUsable(st, branch)
  BY DEF Backed
<1>2. group # "root" => ReferenceOf(branch, group).slot # slot
  BY DEF ProtectedSlots
<1>3. BranchUsable(su, branch)
  BY <1>1, <1>2, BranchKept
<1>4. g.rootSlot \in Slots("root")
  BY GraphFields
<1>5. su["root"][g.rootSlot] = st["root"][g.rootSlot]
  BY <1>4, GroupsApart DEF Others, Beside
<1> QED
  BY <1>1, <1>3, <1>5 DEF Backed

\* A store whose roots were readable before keeps its branches apart.
LEMMA ApartKept ==
  ASSUME NEW st, NEW su, BranchesApart(st),
         \A i \in Readable(su, "root") :
           \/ i \in Readable(st, "root") /\ su["root"][i] = st["root"][i]
           \/ su["root"][i].payload.active # su["root"][i].payload.fallback
  PROVE  BranchesApart(su)
BY DEF BranchesApart

\* What the observer of a step sees, the root of the commit being in its place.
LEMMA SpareKept ==
  ASSUME SpareInv, StoreInv, StoreInv', graph' # None => BranchNamed(graph'),
         BranchesApart(store'), losses' = losses, spare' => spare,
         losses <= 1 /\ spare =>
           /\ \/ UNCHANGED store
              \/ LoadCanonicalGraph(store') # None
           /\ mode' = "CommitInProgress" /\ context'.phase \in {"records", "root"}
                => Backed(store', context'.old)
  PROVE  SpareInv'
<1>1. /\ restart = LoadCanonicalGraph(store)
      /\ restart' = LoadCanonicalGraph(store')
  BY DEF StoreInv
<1> QED
  BY <1>1 DEF SpareInv

\* A write of a document or of the manifest misses what backs the commit.
LEMMA RecordBacked ==
  ASSUME StoreInv, SpareInv, losses <= 1 /\ spare,
         mode = "CommitInProgress", context.phase = "records",
         context.writes # {},
         NEW outcome \in WriteOutcomes(PendingWrite.group, PendingWrite.slot,
                                       PendingWrite.record),
         store' = Put(PendingWrite.group, PendingWrite.slot, outcome)
  PROVE  Backed(store', context.old) /\ LoadCanonicalGraph(store') # None
<1>1. /\ context # None /\ PendingWrite.group \in Groups
      /\ PendingWrite.group # "root"
      /\ PendingWrite.slot \in Slots(PendingWrite.group)
      /\ PendingWrite.record \in Records(PendingWrite.group)
      /\ Fresh(store, PendingWrite.group, PendingWrite.record.version)
      /\ PendingWrite.slot \notin ProtectedSlots(context.old, PendingWrite.group)
  BY RecordDue
<1>2. /\ Stored(store') /\ ~IdentityCollision(store')
      /\ Others(store, store', PendingWrite.group, PendingWrite.slot)
      /\ Beside(store, store', PendingWrite.group)
  BY <1>1, TornStore
<1>3. context.old \in Graphs
  BY <1>1, ContextFields
<1>4. Backed(store, context.old)
  BY DEF SpareInv
<1> HIDE DEF PendingWrite
<1>5. Backed(store', context.old)
  BY <1>1, <1>2, <1>3, <1>4, BackedKept
<1> QED
  BY <1>2, <1>3, <1>5, BackedLoads

\* Nor does such a write touch a root.
LEMMA RecordApart ==
  ASSUME StoreInv, SpareInv, mode = "CommitInProgress",
         context.phase = "records", context.writes # {},
         NEW outcome \in WriteOutcomes(PendingWrite.group, PendingWrite.slot,
                                       PendingWrite.record),
         store' = Put(PendingWrite.group, PendingWrite.slot, outcome)
  PROVE  BranchesApart(store')
<1>1. PendingWrite.group \in Groups /\ PendingWrite.group # "root"
  BY RecordDue
<1>2. store'["root"] = store["root"]
  <2> HIDE DEF PendingWrite
  <2> QED
    BY <1>1 DEF Put
<1> QED
  BY <1>2 DEF SpareInv, BranchesApart, Readable

\* The root write takes the other slot, and its root names two branches.
LEMMA RootBacked ==
  ASSUME StoreInv, SpareInv, mode = "CommitInProgress", context.phase = "root",
         NEW outcome \in WriteOutcomes("root", PendingWrite.slot,
                                       PendingWrite.record),
         store' = Put("root", PendingWrite.slot, outcome)
  PROVE  /\ BranchesApart(store')
         /\ losses <= 1 /\ spare =>
              Backed(store', context.old) /\ LoadCanonicalGraph(store') # None
<1>1. context # None
  BY DEF StoreInv, TypeOK
<1>2. /\ context.old \in Graphs /\ context.new \in Graphs /\ Prepared(context)
  BY <1>1, ContextFields
<1> DEFINE slot == context.new.rootSlot
           record == context.new.root
<1>3. slot \in Slots("root") /\ record \in Records("root") /\ "root" \in Groups
  BY <1>2, GraphFields, GroupsApart
<1>4. PendingWrite.slot = slot /\ PendingWrite.record = record
  BY DEF PendingWrite
<1>5. RootFresh(store, context)
  BY <1>1 DEF StoreInv, ContextPrepared
<1>6. /\ Stored(store') /\ ~IdentityCollision(store')
      /\ Others(store, store', "root", slot) /\ Beside(store, store', "root")
      /\ store'["root"][slot] = outcome
  BY <1>3, <1>4, <1>5, TornStore DEF RootFresh
<1>7. record.payload.active # record.payload.fallback
  BY <1>2 DEF Prepared
<1>8. outcome \in {store["root"][slot], record, Absent, Corrupt}
  BY <1>4 DEF WriteOutcomes
<1>9. BranchesApart(store')
  <2>1. \A i \in Readable(store', "root") :
          \/ i \in Readable(store, "root") /\ store'["root"][i] = store["root"][i]
          \/ store'["root"][i] = record
    BY <1>6, <1>8 DEF Readable, Others
  <2> HIDE DEF record
  <2> QED
    BY <1>7, <2>1, ApartKept DEF SpareInv
<1>10. slot # context.old.rootSlot
  BY <1>2, GraphFields DEF Prepared
<1>11. ASSUME losses <= 1 /\ spare
       PROVE  Backed(store', context.old) /\ LoadCanonicalGraph(store') # None
  <2>1. Backed(store, context.old)
    BY <1>11 DEF SpareInv
  <2>2. Backed(store', context.old)
    BY <1>2, <1>3, <1>6, <1>10, <2>1, BackedKept
  <2> QED
    BY <1>2, <1>6, <2>2, BackedLoads
<1> QED
  BY <1>9, <1>11

\* Of two branches that do not share the lost record one is still usable.
LEMMA OneBranchLeft ==
  ASSUME StoreInv, SpareInv, losses = 0, NEW group \in Groups,
         NEW slot \in Readable(store, group), NEW left \in {Absent, Corrupt},
         store' = Put(group, slot, left), losses' # losses, ~LossWithoutSpare
  PROVE  Backed(store', restart)
<1>1. Stored(store) /\ Whole(store, restart)
  BY InvStored DEF StoreInv, RestartWhole
<1> DEFINE a == restart.active
           f == restart.fallback
<1>2. /\ restart \in Graphs /\ restart.rootSlot \in Slots("root")
      /\ restart.root \in Records("root")
      /\ a = restart.root.payload.active /\ f = restart.root.payload.fallback
      /\ a # None /\ BranchUsable(store, a)
  BY <1>1, GraphFields DEF Whole
<1>3. /\ store'["root"] = store["root"] /\ f # None
      /\ \A d \in Documents :
            a.payload[d] = f.payload[d] => store'[d] = store[d]
  BY DEF LossWithoutSpare
<1>4. /\ slot \in Slots(group) /\ left \in Cells(group)
      /\ store[group][slot] \notin {Absent, Corrupt}
      /\ store' = Write(store, group, slot, left)
  BY DEF Readable, Cells, Put, Write
<1>5. /\ Stored(store') /\ store'[group][slot] = left
      /\ Others(store, store', group, slot) /\ Beside(store, store', group)
  BY <1>1, <1>4, WriteCells DEF Others, Beside
<1>6. store'[group] # store[group] /\ group # "root"
  BY <1>3, <1>4, <1>5
<1>7. f = restart.fallback /\ f \in Branches /\ BranchUsable(store, f)
  BY <1>1, <1>2, <1>3, GraphFields DEF Whole
<1>8. a # f
  <2>1. /\ store["root"][restart.rootSlot] = restart.root
        /\ restart.rootSlot \in Readable(store, "root")
    BY <1>1, <1>2, GroupsApart, RecordReadable DEF Whole
  <2> QED
    BY <1>2, <2>1 DEF SpareInv, BranchesApart
<1> HIDE DEF a, f
<1>9. ~(ReferenceOf(a, group).slot = slot /\ ReferenceOf(f, group).slot = slot)
  <2>1. CASE group = "manifest"
    <3>1. HasRecord(store, "manifest", a) /\ HasRecord(store, "manifest", f)
      BY <1>2, <1>7 DEF BranchUsable
    <3> QED
      BY <1>8, <2>1, <3>1 DEF HasRecord, ReferenceOf
  <2>2. CASE group \in Documents
    <3>1. group # "manifest" /\ a.payload[group] # f.payload[group]
      BY <1>3, <1>6, <2>2, GroupsApart
    <3>2. /\ HasRecord(store, group, a.payload[group])
          /\ HasRecord(store, group, f.payload[group])
      BY <1>2, <1>7, <2>2 DEF BranchUsable
    <3> QED
      BY <3>1, <3>2 DEF HasRecord, ReferenceOf
  <2> QED
    BY <1>6, <2>1, <2>2 DEF Groups
<1>10. BranchUsable(store', a) \/ BranchUsable(store', f)
  BY <1>2, <1>5, <1>6, <1>7, <1>9, BranchKept
<1>11. store'["root"][restart.rootSlot] = restart.root
  BY <1>1, <1>3 DEF Whole
<1>12. /\ a = restart.active /\ f = restart.fallback
  BY DEF a, f
<1> QED
  BY <1>2, <1>3, <1>10, <1>11, <1>12 DEF Backed

\* The loss of the first record.
LEMMA LoseSpare ==
  ASSUME StoreInv, StoreInv', SpareInv, Lose,
         spare' = (spare /\ ~LossWithoutSpare)
  PROVE  SpareInv'
<1>1. /\ losses' = losses + 1 /\ losses \in Nat
      /\ UNCHANGED <<mode, graph, context, cause>>
  BY StoreConstants DEF Lose, StoreInv, TypeOK
<1>2. PICK group \in Groups : \E slot \in Readable(store, group) :
        \E left \in {Absent, Corrupt} : store' = Put(group, slot, left)
  BY DEF Lose
<1>5. PICK slot \in Readable(store, group), left \in {Absent, Corrupt} :
      store' = Put(group, slot, left)
  BY <1>2
<1>3. BranchesApart(store')
  <2>1. \A i \in Readable(store', "root") :
          i \in Readable(store, "root") /\ store'["root"][i] = store["root"][i]
    BY <1>5, InvStored, GroupsApart DEF Put, Readable, Stored
  <2> QED
    BY <2>1, ApartKept DEF SpareInv
<1>4. ASSUME losses' <= 1, spare'
      PROVE  /\ restart' # None
             /\ mode' = "CommitInProgress"
                  /\ context'.phase \in {"records", "root"} =>
                  Backed(store', context'.old)
  <2>1. losses = 0 /\ losses' # losses
    BY <1>1, <1>4
  <2>2. ~LossWithoutSpare
    BY <1>4, Zenon
  <2>3. Backed(store', restart)
    BY <1>5, <2>1, <2>2, OneBranchLeft
  <2>4. restart \in Graphs
    BY <2>1 DEF StoreInv, RestartWhole, Whole
  <2>5. Stored(store') /\ ~IdentityCollision(store')
    BY DEF StoreInv, TypeOK, Stored, IdentityUnique
  <2>6. restart' = LoadCanonicalGraph(store')
    BY DEF StoreInv
  <2>7. restart' # None
    BY <2>3, <2>4, <2>5, <2>6, BackedLoads
  <2>8. mode = "CommitInProgress" /\ context.phase \in {"records", "root"} =>
          restart = context.old
    BY <2>1 DEF StoreInv, TypeOK, RestartWhole
  <2> QED
    BY <1>1, <2>3, <2>7, <2>8
<1> QED
  BY <1>1, <1>3, <1>4 DEF SpareInv

\* A change is prepared on a graph that passed the scan.
LEMMA ConfirmSpare ==
  ASSUME StoreInv, StoreInv', SpareInv, spare' => spare,
         NEW candidate \in [Documents -> Contents], Confirm(candidate)
  PROVE  SpareInv'
<1>1. /\ UNCHANGED <<store, losses, graph>> /\ graph \in Graphs /\ graph # None
      /\ context = None /\ mode = "Operational"
  BY StoreNone DEF Confirm, EnterFailClosed, StoreInv, TypeOK
<1>2. BranchNamed(graph) /\ BranchesApart(store)
  BY <1>1 DEF SpareInv
<1>3. mode' = "CommitInProgress" => Backed(store', context'.old)
  <2>1. mode' = "CommitInProgress" =>
          /\ ValidationScan(store, graph) = "Success"
          /\ context' = PrepareCommit(store, graph, candidate)
    BY DEF Confirm, EnterFailClosed
  <2>2. PrepareCommit(store, graph, candidate).old = graph
    BY DEF PrepareCommit
  <2> QED
    BY <1>1, <1>2, <2>1, <2>2, ScannedBacked
<1> QED
  BY <1>1, <1>2, <1>3, SpareKept

\* The root of a prepared commit names its branch.
LEMMA PreparedNamed ==
  ASSUME StoreInv, context # None
  PROVE  BranchNamed(context.new)
BY ContextFields DEF Prepared, BranchNamed

\* Once the root is written, nothing more is written.
LEMMA ResolveSpare ==
  ASSUME StoreInv, StoreInv', SpareInv, spare' => spare, context # None,
         Resolve \/ PublishPrepared, UNCHANGED <<store, losses>>
  PROVE  SpareInv'
<1>1. /\ BranchesApart(store) /\ BranchNamed(context.new)
      /\ graph # None => BranchNamed(graph)
  BY PreparedNamed DEF SpareInv
<1>2. mode' # "CommitInProgress" /\ graph' \in {graph, context.new}
  BY DEF Resolve, EnterFailClosed, PublishPrepared, Abandon
<1>3. graph' # None => BranchNamed(graph')
  BY <1>1, <1>2
<1>4. BranchesApart(store') /\ losses' = losses
  BY <1>1
<1> QED
  BY <1>2, <1>3, <1>4, SpareKept

\* Records are written while the old root backs the commit.
LEMMA WriteRecordSpare ==
  ASSUME StoreInv, StoreInv', SpareInv, spare' => spare, WriteRecord
  PROVE  SpareInv'
<1>1. /\ mode = "CommitInProgress" /\ context.phase = "records"
      /\ context.writes # {} /\ losses' = losses
  BY DEF WriteRecord
<1>2. PICK outcome \in WriteOutcomes(PendingWrite.group, PendingWrite.slot,
                                     PendingWrite.record) :
        store' = Put(PendingWrite.group, PendingWrite.slot, outcome)
  BY DEF WriteRecord
<1>3. BranchesApart(store')
  BY <1>1, <1>2, RecordApart
<1>4. losses <= 1 /\ spare =>
        Backed(store', context.old) /\ LoadCanonicalGraph(store') # None
  BY <1>1, <1>2, RecordBacked
<1>5. graph' = graph /\ (mode' = "CommitInProgress" =>
                           context'.old = context.old)
  <2>1. context \in Contexts
    BY <1>1, RecordDue, ContextFields
  <2>2. [context EXCEPT !.writes = @ \ {PendingWrite.group}].old = context.old
    BY <2>1 DEF Contexts
  <2> QED
    BY <2>2 DEF WriteRecord, Abandon
<1> QED
  BY <1>1, <1>3, <1>4, <1>5, SpareKept DEF SpareInv

\* The verification writes nothing.
LEMMA VerifySpare ==
  ASSUME StoreInv, StoreInv', SpareInv, spare' => spare,
         VerifyTarget \/ VerifyRoot
  PROVE  SpareInv'
<1>1. UNCHANGED <<store, losses>> /\ mode = "CommitInProgress"
      /\ context # None
  BY DEF VerifyTarget, VerifyRoot, StoreInv, TypeOK
<1>2. CASE VerifyTarget
  <2>1. context \in Contexts /\ context.phase = "records"
    BY <1>1, <1>2, ContextFields DEF VerifyTarget
  <2>2. [context EXCEPT !.phase = "root"].old = context.old
    BY <2>1 DEF Contexts
  <2>3. graph' = graph /\ (mode' = "CommitInProgress" =>
                             context'.old = context.old)
    BY <1>2, <2>2 DEF VerifyTarget, EnterFailClosed
  <2> QED
    BY <1>1, <2>1, <2>3, SpareKept DEF SpareInv
<1>3. CASE VerifyRoot /\ PublishPrepared
  BY <1>1, <1>3, ResolveSpare
<1>4. CASE VerifyRoot /\ ~PublishPrepared
  <2>1. graph' = graph /\ mode' = "RuntimeFailure"
    BY <1>4 DEF VerifyRoot, EnterFailClosed
  <2> QED
    BY <1>1, <2>1, SpareKept DEF SpareInv
<1> QED
  BY <1>2, <1>3, <1>4

\* The root write leaves the old root in its slot.
LEMMA WriteRootSpare ==
  ASSUME StoreInv, StoreInv', SpareInv, spare' => spare, WriteRoot
  PROVE  SpareInv'
<1>1. /\ mode = "CommitInProgress" /\ context.phase = "root"
      /\ losses' = losses /\ graph' = graph
  BY DEF WriteRoot, Abandon
<1>2. CASE Abandon /\ UNCHANGED store
  BY <1>1, <1>2, SpareKept DEF SpareInv, Abandon
<1>3. ASSUME NEW outcome \in WriteOutcomes("root", PendingWrite.slot,
                                           PendingWrite.record),
             store' = Put("root", PendingWrite.slot, outcome),
             context'.phase \notin {"records", "root"}
      PROVE  SpareInv'
  BY <1>1, <1>3, RootBacked, SpareKept DEF SpareInv
<1>4. \A phase \in {"written", "unknown"} :
        [context EXCEPT !.phase = phase].phase = phase
  <2>1. context \in Contexts
    BY <1>1, ContextFields DEF StoreInv, TypeOK
  <2> QED
    BY <2>1 DEF Contexts
<1>5. PendingWrite.record \in WriteOutcomes("root", PendingWrite.slot,
                                            PendingWrite.record)
  BY DEF WriteOutcomes
<1> QED
  BY <1>2, <1>3, <1>4, <1>5 DEF WriteRoot

\* Whatever write the power cuts off, the old root is in its slot.
LEMMA PowerLossSpare ==
  ASSUME StoreInv, StoreInv', SpareInv, spare' => spare, PowerLoss
  PROVE  SpareInv'
<1>1. losses' = losses /\ graph' = None /\ mode' = "NoRuntime"
  BY DEF PowerLoss
<1>2. CASE ~WriteUnderWay
  BY <1>1, <1>2, SpareKept DEF SpareInv, PowerLoss
<1>3. CASE WriteUnderWay /\ context.phase = "records"
  <2>1. mode = "CommitInProgress" /\ context.writes # {}
    BY <1>3 DEF WriteUnderWay
  <2>2. PICK outcome \in WriteOutcomes(PendingWrite.group, PendingWrite.slot,
                                       PendingWrite.record) :
          store' = Put(PendingWrite.group, PendingWrite.slot, outcome)
    BY <1>3 DEF PowerLoss
  <2>3. BranchesApart(store')
    BY <1>3, <2>1, <2>2, RecordApart
  <2>4. losses <= 1 /\ spare => LoadCanonicalGraph(store') # None
    BY <1>3, <2>1, <2>2, RecordBacked
  <2> QED
    BY <1>1, <2>3, <2>4, SpareKept
<1>4. CASE WriteUnderWay /\ context.phase = "root"
  <2>1. mode = "CommitInProgress" /\ PendingWrite.group = "root"
    BY <1>4 DEF WriteUnderWay, PendingWrite
  <2>2. PICK outcome \in WriteOutcomes("root", PendingWrite.slot,
                                       PendingWrite.record) :
          store' = Put("root", PendingWrite.slot, outcome)
    <3> HIDE DEF PendingWrite
    <3> QED
      BY <1>4, <2>1 DEF PowerLoss
  <2> QED
    BY <1>1, <1>4, <2>1, <2>2, RootBacked, SpareKept
<1> QED
  BY <1>2, <1>3, <1>4 DEF WriteUnderWay

\* A restart loads a graph whose root names its branch.
LEMMA BootSpare ==
  ASSUME StoreInv, StoreInv', SpareInv, spare' => spare, Boot
  PROVE  SpareInv'
<1>1. UNCHANGED <<store, losses>> /\ mode' # "CommitInProgress"
  BY DEF Boot
<1>2. graph' # None => BranchNamed(graph')
  BY InvStored, LoadedGraph DEF Boot, SpareInv
<1> QED
  BY <1>1, <1>2, SpareKept DEF SpareInv

-----------------------------------------------------------------------------
(* Theorems                                                                *)

\* Every step keeps the invariant and is a step of the register, or none.
LEMMA StoreStep ==
  ASSUME StoreInv, [MCNext]_mcVars
  PROVE  StoreInv' /\ RegisterStep
<1>1. CASE UNCHANGED mcVars
  <2>1. /\ UNCHANGED <<store, mode, graph, context, cause, losses>>
        /\ restart' = restart /\ kept' = kept
    BY <1>1 DEF mcVars, vars
  <2>2. Stored(store') /\ ~IdentityCollision(store')
    BY <2>1, InvStored
  <2>3. TypeOK' /\ ContextPrepared'
    BY <2>1 DEF StoreInv, TypeOK, ContextPrepared
  <2>4. RestartWhole'
    BY <2>1 DEF StoreInv, RestartWhole
  <2>5. StoreInv'
    BY <2>1, <2>2, <2>3, <2>4 DEF StoreInv, IdentityUnique
  <2>6. UNCHANGED Register!vars
    BY <2>1 DEF Register!vars, Intact, ProposedConfiguration
  <2> QED
    BY <2>5, <2>6 DEF RegisterStep
<1>2. CASE MCNext
  <2>1. Next /\ Observed
    BY <1>2 DEF MCNext, Observed
  <2>2. CASE Boot
    BY <2>1, <2>2, BootKeeps
  <2>3. ASSUME NEW candidate \in [Documents -> Contents], Confirm(candidate)
        PROVE  StoreInv' /\ RegisterStep
    BY <2>1, <2>3, ConfirmKeeps
  <2>4. CASE WriteRecord
    BY <2>1, <2>4, WriteRecordKeeps
  <2>5. CASE VerifyTarget
    BY <2>1, <2>5, VerifyTargetKeeps
  <2>6. CASE WriteRoot
    BY <2>1, <2>6, WriteRootKeeps
  <2>7. CASE VerifyRoot
    BY <2>1, <2>7, VerifyRootKeeps
  <2>8. CASE ResolveRoot
    BY <2>1, <2>8, ResolveRootKeeps
  <2>9. CASE ResolveIndeterminate
    BY <2>1, <2>9, ResolveIndeterminateKeeps
  <2>10. CASE RecoverRuntimeFailure
    BY <2>1, <2>10, RecoverKeeps
  <2>11. CASE PowerLoss
    BY <2>1, <2>11, PowerLossKeeps
  <2>12. CASE Lose
    BY <2>1, <2>12, LoseKeeps
  <2> QED
    BY <2>1, <2>2, <2>3, <2>4, <2>5, <2>6, <2>7, <2>8, <2>9, <2>10, <2>11,
       <2>12 DEF Next
<1> QED
  BY <1>1, <1>2

\* The invariant: versions that are still to be written are above all others,
\* and while nothing is lost a restart loads a graph with two whole branches,
\* the one of the service, or the one the root write decided for.
THEOREM StoreInvariant == MCSpec => []StoreInv
<1>1. MCInit => StoreInv
  BY StoreInit
<1>2. StoreInv /\ [MCNext]_mcVars => StoreInv'
  BY StoreStep
<1> QED
  BY <1>1, <1>2, PTL DEF MCSpec

\* Slots hold records of their group or nothing, and the service has a graph
\* and a prepared commit whenever its mode needs them.
THEOREM StoreTypeCorrect == MCSpec => []TypeOK
<1>1. StoreInv => TypeOK
  BY DEF StoreInv
<1> QED
  BY <1>1, StoreInvariant, PTL

\* No version is ever given to two different records of a group, whatever was
\* torn, aborted or lost, so that validationScan() finds no collision.
THEOREM StoreIdentityUnique == MCSpec => []IdentityUnique
<1>1. StoreInv => IdentityUnique
  BY DEF StoreInv
<1> QED
  BY <1>1, StoreInvariant, PTL

\* Without lost records, damaged roots or exhausted counters every change can
\* be prepared: the scan succeeds and chooseSlot() finds a slot in each group.
THEOREM StoreCommitNeverBlocked == MCSpec => []CommitNeverBlocked
<1>1. ASSUME StoreInv
      PROVE  CommitNeverBlocked
  <2> SUFFICES ASSUME mode = "Operational", losses = 0,
                      \A i \in Slots("root") : store["root"][i] # Corrupt,
                      \A group \in Groups : HighWater(store, group) < VersionMax
               PROVE  /\ ValidationScan(store, graph) = "Success"
                      /\ \A candidate \in [Documents -> Contents] :
                            PlanSlots(store, graph, candidate)
    BY DEF CommitNeverBlocked
  <2>1. Whole(store, graph) /\ graph \in Graphs
    BY <1>1 DEF StoreInv, RestartWhole, Whole
  <2>2. ValidationScan(store, graph) = "Success"
    BY <1>1, <2>1, InvStored, WholeScan
  <2>3. ASSUME NEW candidate \in [Documents -> Contents]
        PROVE  PlanSlots(store, graph, candidate)
    <3>1. ChangedDocuments(graph, candidate) \cup {"manifest"}
            \subseteq BranchGroups
      BY DEF ChangedDocuments, BranchGroups
    <3>2. \A group \in BranchGroups : group \in Groups
      BY BranchGroup
    <3>3. \A group \in BranchGroups : PlannedSlot(graph, group) # None
      BY <2>1, SlotPlanned
    <3> QED
      BY <3>1, <3>2, <3>3, GroupsApart DEF PlanSlots
  <2> QED
    BY <2>2, <2>3
<1> QED
  BY <1>1, StoreInvariant, PTL

\* The code implements the atomic register as long as no record is lost: the
\* durable configuration changes in one step of a commit or not at all, and
\* what is given out, called failed or loaded at a restart agrees with it
\* (executePreparedCommit, resolveCommitDetailed, boot).
THEOREM StoreImplementsRegister == MCSpec => RegisterSpec
<1>1. MCInit => Register!Init
  BY StoreInit
<1>2. StoreInv /\ [MCNext]_mcVars => [Register!Next]_(Register!vars)
  BY StoreStep DEF RegisterStep
<1> QED
  BY <1>1, <1>2, StoreInvariant, PTL DEF MCSpec, RegisterSpec, Register!Spec

\* Every step keeps a restart possible.
LEMMA SpareStep ==
  ASSUME StoreInv, SpareInv, [MCNext]_mcVars
  PROVE  SpareInv'
<1>1. StoreInv'
  BY StoreStep
<1>2. CASE UNCHANGED mcVars
  BY <1>2 DEF mcVars, vars, SpareInv
<1>3. CASE MCNext
  <2>1. /\ Next /\ spare' = (spare /\ ~LossWithoutSpare)
        /\ spare' => spare
    BY <1>3 DEF MCNext
  <2>2. CASE Boot
    BY <1>1, <2>1, <2>2, BootSpare
  <2>3. ASSUME NEW candidate \in [Documents -> Contents], Confirm(candidate)
        PROVE  SpareInv'
    BY <1>1, <2>1, <2>3, ConfirmSpare
  <2>4. CASE WriteRecord
    BY <1>1, <2>1, <2>4, WriteRecordSpare
  <2>5. CASE VerifyTarget \/ VerifyRoot
    BY <1>1, <2>1, <2>5, VerifySpare
  <2>6. CASE WriteRoot
    BY <1>1, <2>1, <2>6, WriteRootSpare
  <2>7. CASE ResolveRoot \/ ResolveIndeterminate \/ RecoverRuntimeFailure
    <3>1. /\ context # None /\ UNCHANGED <<store, losses>>
          /\ Resolve \/ PublishPrepared
      BY <2>7 DEF ResolveRoot, ResolveIndeterminate, RecoverRuntimeFailure,
         StoreInv, TypeOK
    <3> QED
      BY <1>1, <2>1, <3>1, ResolveSpare
  <2>8. CASE PowerLoss
    BY <1>1, <2>1, <2>8, PowerLossSpare
  <2>9. CASE Lose
    BY <1>1, <2>1, <2>9, LoseSpare
  <2> QED
    BY <2>1, <2>2, <2>3, <2>4, <2>5, <2>6, <2>7, <2>8, <2>9 DEF Next
<1> QED
  BY <1>2, <1>3

\* The factory configuration can be loaded.
LEMMA SpareInit ==
  ASSUME MCInit
  PROVE  SpareInv
<1>1. /\ store = FactoryGraph /\ mode = "NoRuntime" /\ graph = None
      /\ losses = 0
  BY DEF MCInit, Init
<1>2. restart # None
  BY <1>1, StoreInit, StoreNone DEF StoreInv, RestartWhole, Whole
<1>3. BranchesApart(store)
  <2>1. Readable(FactoryGraph, "root") \subseteq {0}
    BY FactoryCells, GroupsApart DEF Readable
  <2>2. FactoryRoot.payload = [active |-> FactoryManifest, fallback |-> None]
    BY DEF FactoryRoot, Record
  <2>3. FactoryManifest # None
    BY FactoryTypes, StoreNone
  <2> QED
    BY <1>1, <2>1, <2>2, <2>3, FactoryCells DEF BranchesApart
<1> QED
  BY <1>1, <1>2, <1>3 DEF SpareInv

\* Neither commits, torn writes and power losses nor the loss of one record
\* that has a spare in the other branch end that a configuration can be loaded
\* (chooseSlot keeps both branches, loadCanonicalGraph falls back).
THEOREM StoreStaysLoadable == MCSpec => StaysLoadable
<1>1. MCSpec => []SpareInv
  <2>1. MCInit => SpareInv
    BY SpareInit
  <2>2. StoreInv /\ SpareInv /\ [MCNext]_mcVars => SpareInv'
    BY SpareStep
  <2> QED
    BY <2>1, <2>2, StoreInvariant, PTL DEF MCSpec
<1>2. SpareInv' =>
        [restart # None /\ spare' /\ losses' <= 1 => restart' # None]_mcVars
  BY DEF SpareInv
<1> QED
  BY <1>1, <1>2, PTL DEF StaysLoadable
=============================================================================
