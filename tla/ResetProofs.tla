----------------------------- MODULE ResetProofs -----------------------------
(***************************************************************************)
(* The factory reset and the boot, from the module that carries them out   *)
(* and from the touch surface where a reset is asked for.                  *)
(*                                                                         *)
(* First part: what module Bootstrap promises, proved for every number of  *)
(* documents, attempts, lockout lengths and epochs, and for any number of  *)
(* failed writes, lost outcomes and corrupted records.                     *)
(*                                                                         *)
(* None of its four properties is inductive.  The invariant adds what the  *)
(* code relies on without saying so: of the two bootstrap records one is   *)
(* the other's successor; an operation under way finds the canonical       *)
(* record in the state that its next write continues; an open access       *)
(* domain belongs to the epoch that was entered last; a provisioned root   *)
(* has the credentials of its epoch; the persisted lockout and its clock   *)
(* know at least as much as an observer of the answers.                    *)
(*                                                                         *)
(* Second part: what module TouchWorkspace promises, for any catalogs,     *)
(* pages, lengths of the long press and changes by others.  The invariant  *)
(* adds that the snapshot of a running step is never behind the reset      *)
(* flow, which nobody else changes; that the stage of the flow tells how   *)
(* often it was acknowledged; that the hold counts only steps in which the *)
(* contact was seen, and none between a skipped step and the next release; *)
(* and that the program of the active run is listed.                       *)
(***************************************************************************)
EXTENDS Bootstrap, TouchWorkspace, FiniteSetTheorems, TLAPS

AuthPlaces == {"auth", "authStart", "authSpoil", "authRoot", "authConsume",
               "authGiveUp", "authCheck"}

Places ==
    {"off", "boot", "build", "finalize", "handoff", "idle", "provision",
     "provisionRevoke", "provisionEnd", "changeRoot", "change"} \cup AuthPlaces

Jobs ==
    [at: Places, reset: BOOLEAN, phase: {"Pending", "Committed", None},
     epoch: Nat \cup {None}, admitted: BOOLEAN, replace: BOOLEAN,
     kind: Kinds \cup {None}]

-----------------------------------------------------------------------------
(* The parts of the invariant.                                             *)

\* The variables have the shape the records of the code have.
StorageOK ==
    /\ slots \in [{0, 1} -> BootRecords \cup {Absent}]
    /\ graph \in [epoch: Nat, written: 0 .. Documents + 1, intact: BOOLEAN]

SecretsOK ==
    /\ root \in Roots \cup {Absent, Corrupt}
    /\ creds \in Credentials \cup {Absent, Corrupt}
    /\ ctx \in AuthContexts \cup {None}
    /\ clock \in [Kinds -> LockClocks \cup {None}]
    /\ seen \in [world: Nat, tries: [Kinds -> Nat], owed: [Kinds -> Nat]]

JobOK == job \in Jobs

\* The two slots hold nothing, one plausible record, or a record and its
\* successor.
Chained ==
    /\ \A s \in Used : Decodable(slots[s])
    /\ Used = {0, 1} => \E s \in {0, 1} :
                          IsAllowedSuccessor(slots[1 - s], slots[s])

\* Before the first record nothing else is there.
Untouched ==
    Used = {} =>
       graph.written = 0 /\ root = Absent /\ creds = Absent /\ ctx = None

GraphComplete == graph.epoch = Now.epoch /\ graph.written = Documents + 1

\* An Initialized record has its graph, and the access domain is handed over
\* only after the run store.
RecordTells ==
    Used # {} =>
       /\ Now.state = "Initialized" => GraphComplete
       /\ HandoffOpen => Now.auth = "None"

\* The access domain that is open is the one of the epoch entered last.
WorldsMatch == ctx # None => ctx.epoch = seen.world

\* No record of the access domain is ahead of the bootstrap record.
NoneAhead ==
    Used # {} =>
       /\ ctx # None => ctx.epoch <= Now.epoch
       /\ Known(root) => root.epoch <= Now.epoch
       /\ Known(creds) => creds.epoch <= Now.epoch

SameEpoch == Known(root) /\ Known(creds) /\ creds.epoch = root.epoch

\* A provisioned root has the credentials of its epoch, an unprovisioned one
\* has not.
RootTells ==
    Known(root) =>
       /\ root.state = "Provisioned" => creds = Corrupt \/ SameEpoch
       /\ root.state = "Unprovisioned" => ~SameEpoch

\* What the persisted lockout of secret k knows of the answers given.
LockKnows(k) ==
    /\ creds.lock[k].failed < Attempts[k]
    /\ seen.owed[k] = 0 => seen.tries[k] <= creds.lock[k].failed
    /\ seen.owed[k] > 0 =>
          /\ seen.owed[k] <= creds.lock[k].remaining
          /\ ClockFits(k) => seen.owed[k] <= clock[k].left

Guesses ==
    /\ \A k \in Kinds : seen.tries[k] <= Attempts[k]
    /\ Known(creds) => \A k \in Kinds : LockKnows(k)

\* What holds wherever the operation under way is.
Sound ==
    /\ StorageOK /\ SecretsOK /\ Chained /\ Untouched /\ RecordTells
    /\ WorldsMatch /\ NoneAhead /\ RootTells /\ Guesses

\* An epoch is built for a record that says so; no domain is open when it is
\* built at boot.
BuildReady ==
    /\ Used # {} /\ Now.state # "Initialized"
    /\ ~job.reset => ctx = None
    /\ job.at = "finalize" => GraphComplete

\* The handoffs belong to the epoch entered last, and each write finds the
\* record it continues.
HandoffReady ==
    /\ Used # {} /\ Now.state = "Initialized" /\ job.phase = Armed(Now)
    /\ seen.world = Now.epoch
    /\ job.at \in {"authStart", "authSpoil"} => Now.auth = "Unconsumed"
    /\ job.at \in {"authRoot", "authConsume", "authGiveUp"} =>
          Now.auth = "InProgress"
    /\ job.at \in {"authStart", "authRoot"} =>
          ~(Known(creds) /\ creds.epoch = Now.epoch)

ProvisionReady ==
    /\ Used # {} /\ Known(root) /\ root.state = "Provisioning"
    /\ ctx # None /\ ctx.epoch = root.epoch

ChangeReady ==
    /\ Used # {} /\ SameEpoch
    /\ root.state = IF job.at = "changeRoot" THEN "Provisioned"
                    ELSE "Provisioning"
    /\ job.at # "provisionEnd" =>
          /\ job.kind \in Kinds
          /\ seen.tries[job.kind] = 0 /\ seen.owed[job.kind] = 0

\* What the operation under way relies on.
Ready ==
    /\ job.at \in {"off", "boot"} => ctx = None
    /\ job.at \in {"build", "finalize"} => BuildReady
    /\ job.at \in AuthPlaces \cup {"handoff"} => HandoffReady
    /\ job.at \in {"provision", "provisionRevoke"} => ProvisionReady
    /\ job.at \in {"provisionEnd", "changeRoot", "change"} => ChangeReady

BootstrapInv == Sound /\ JobOK /\ Ready

-----------------------------------------------------------------------------
(* The bootstrap store.                                                    *)

SlotPairs == [{0, 1} -> BootRecords \cup {Absent}]

UsedIn(f) == {s \in {0, 1} : f[s] # Absent}

NewestIn(f) ==
    CHOOSE s \in UsedIn(f) : \A t \in UsedIn(f) : f[t].seq <= f[s].seq

\* The operators of the store as functions of its two slots.
LEMMA SlotsUsed ==
  /\ Used = UsedIn(slots) /\ Newest = NewestIn(slots)
  /\ Now = slots[NewestIn(slots)]
  /\ Used' = UsedIn(slots') /\ Newest' = NewestIn(slots')
  /\ Now' = slots'[NewestIn(slots')]
BY DEF Used, UsedIn, Newest, NewestIn, Now

\* A slot that is used holds a record.
LEMMA SlotRecord ==
  ASSUME NEW f \in SlotPairs, NEW s \in UsedIn(f)
  PROVE  s \in {0, 1} /\ f[s] \in BootRecords /\ f[s].seq \in Nat
BY DEF SlotPairs, UsedIn, BootRecords

\* Some record is the newest.
LEMMA NewestExists ==
  ASSUME NEW f \in SlotPairs, UsedIn(f) # {}
  PROVE  /\ NewestIn(f) \in UsedIn(f)
         /\ \A t \in UsedIn(f) : f[t].seq <= f[NewestIn(f)].seq
<1>1. \E s \in UsedIn(f) : \A t \in UsedIn(f) : f[t].seq <= f[s].seq
  <2>1. \A s \in UsedIn(f) : s \in {0, 1} /\ f[s].seq \in Nat
    BY SlotRecord
  <2> QED
    BY <2>1
<1> QED
  BY <1>1 DEF NewestIn

\* A record with the only highest number is the newest.
LEMMA NewestUnique ==
  ASSUME NEW f \in SlotPairs, NEW n \in UsedIn(f),
         \A t \in UsedIn(f) \ {n} : f[t].seq < f[n].seq
  PROVE  NewestIn(f) = n
<1>1. NewestIn(f) \in UsedIn(f) /\ f[n].seq <= f[NewestIn(f)].seq
  BY NewestExists
<1>2. f[NewestIn(f)].seq \in Nat /\ f[n].seq \in Nat
  BY <1>1, SlotRecord
<1> QED
  BY <1>1, <1>2

\* The canonical record is a plausible one.
LEMMA NowSound ==
  ASSUME StorageOK, Chained, Used # {}
  PROVE  Now \in BootRecords /\ Decodable(Now)
<1>1. NewestIn(slots) \in UsedIn(slots)
  BY SlotsUsed, NewestExists DEF StorageOK, SlotPairs
<1> QED
  BY <1>1, SlotsUsed, SlotRecord DEF StorageOK, SlotPairs, Chained

\* The two slots always scan.
LEMMA Scans ==
  ASSUME StorageOK, Chained
  PROVE  ScanStatus = IF Used = {} THEN "Empty" ELSE "Available"
<1>1. CASE Used = {}
  BY <1>1 DEF ScanStatus
<1>2. CASE Used # {}
  <2>1. ~ \E s \in Used : ~Decodable(slots[s])
    BY DEF Chained
  <2>2. ASSUME Used = {0, 1}
        PROVE  /\ slots[0].seq # slots[1].seq
               /\ IsAllowedSuccessor(slots[1 - Newest], slots[Newest])
    <3>1. PICK s \in {0, 1} : IsAllowedSuccessor(slots[1 - s], slots[s])
      BY <2>2 DEF Chained
    <3>2. /\ 1 - s \in {0, 1} /\ 1 - s # s /\ 1 - (1 - s) = s
          /\ slots[s].seq = slots[1 - s].seq + 1
      BY <3>1 DEF IsAllowedSuccessor
    <3>3. slots[0].seq \in Nat /\ slots[1].seq \in Nat
      BY <2>2, SlotsUsed, SlotRecord DEF StorageOK, SlotPairs
    <3>4. \A t \in Used \ {s} : slots[t].seq < slots[s].seq
      BY <2>2, <3>2, <3>3
    <3>5. Newest = s
      BY <2>2, <3>4, SlotsUsed, NewestUnique DEF StorageOK, SlotPairs
    <3> QED
      BY <3>1, <3>2, <3>3, <3>5
  <2> QED
    BY <1>2, <2>1, <2>2 DEF ScanStatus
<1> QED
  BY <1>1, <1>2

\* What a write to the store leaves behind.
Written(r, o) ==
    /\ Chained' /\ slots' \in SlotPairs
    /\ Effective(o) => Used' # {} /\ Now' = r
    /\ ~Effective(o) => Used' = Used /\ Now' = Now

\* writeBound() overwrites the older slot: an allowed record becomes the
\* canonical one and the chain holds, whatever becomes of the write.
LEMMA WriteEffect ==
  ASSUME StorageOK, Chained, NEW r \in BootRecords, NEW o,
         Allowed(r), WriteBound(r, o)
  PROVE  Written(r, o)
<1>1. slots \in SlotPairs /\ Decodable(r) /\ r # Absent
  BY AbsentAssumption DEF StorageOK, SlotPairs, WriteBound, Encodable, Decodable
<1>2. CASE ~Effective(o)
  <2>1. slots' = slots
    BY <1>2 DEF WriteBound
  <2>2. Used' = Used /\ Now' = Now
    BY <2>1, SlotsUsed
  <2>3. Chained'
    BY <2>1, <2>2 DEF Chained
  <2> QED
    BY <1>1, <1>2, <2>1, <2>2, <2>3 DEF Written
<1>3. CASE Effective(o) /\ Used = {}
  <2>1. slots' = [slots EXCEPT ![0] = r]
    BY <1>3 DEF WriteBound
  <2>2. slots[0] = Absent /\ slots[1] = Absent
    BY <1>3 DEF Used
  <2>3. slots' \in SlotPairs /\ slots'[0] = r /\ slots'[1] = Absent
    BY <1>1, <2>1, <2>2 DEF SlotPairs
  <2>4. Used' = {0}
    BY <1>1, <2>3, SlotsUsed DEF UsedIn
  <2>5. NewestIn(slots') = 0
    BY <2>3, <2>4, SlotsUsed, NewestUnique
  <2>6. Now' = r /\ Used' # {}
    BY <2>3, <2>4, <2>5, SlotsUsed
  <2>7. Chained'
    BY <1>1, <2>3, <2>4 DEF Chained
  <2> QED
    BY <1>3, <2>3, <2>6, <2>7 DEF Written
<1>4. CASE Effective(o) /\ Used # {}
  <2> DEFINE n == Newest
             m == 1 - n
  <2>1. n \in Used /\ n \in {0, 1} /\ slots[n] = Now /\ Now \in BootRecords
    BY <1>1, <1>4, SlotsUsed, NewestExists, SlotRecord
  <2>2. m \in {0, 1} /\ m # n /\ {m, n} = {0, 1} /\ 1 - m = n
    BY <2>1
  <2>3. slots' = [slots EXCEPT ![m] = r]
    BY <1>4 DEF WriteBound
  <2> HIDE DEF n, m
  <2>4. slots' \in SlotPairs /\ slots'[m] = r /\ slots'[n] = Now
    BY <1>1, <2>1, <2>2, <2>3 DEF SlotPairs
  <2>5. IsAllowedSuccessor(Now, r) /\ r.seq = Now.seq + 1
    BY <1>4 DEF Allowed, IsAllowedSuccessor
  <2>6. Used' = {0, 1}
    BY <1>1, <2>1, <2>2, <2>4, AbsentAssumption, SlotsUsed DEF UsedIn
  <2>7. NewestIn(slots') = m
    <3>1. Now.seq \in Nat
      BY <2>1 DEF BootRecords
    <3> QED
      BY <2>2, <2>4, <2>5, <2>6, <3>1, SlotsUsed, NewestUnique
  <2>8. Now' = r /\ Used' # {}
    BY <2>4, <2>6, <2>7, SlotsUsed
  <2>9. Decodable(Now)
    BY <2>1 DEF Chained
  <2>10. Chained'
    <3>1. \A s \in Used' : Decodable(slots'[s])
      BY <1>1, <2>2, <2>4, <2>6, <2>9
    <3>2. IsAllowedSuccessor(slots'[1 - m], slots'[m])
      BY <2>2, <2>4, <2>5
    <3> QED
      BY <2>2, <3>1, <3>2 DEF Chained
  <2> QED
    BY <1>4, <2>4, <2>8, <2>10 DEF Written
<1> QED
  BY <1>2, <1>3, <1>4

-----------------------------------------------------------------------------
(* The records the code writes.                                            *)

\* What the decoder asks of a record, schema by schema.
LEMMA PlausibleCases ==
  ASSUME NEW r \in BootRecords
  PROVE  /\ r.schema \in 1..3
         /\ r.schema = 1 => (IsPlausible(r) <=> Schema1Plausible(r))
         /\ r.schema = 2 => (IsPlausible(r) <=> Schema2Plausible(r))
         /\ r.schema = 3 => (IsPlausible(r) <=> Schema3Plausible(r))
         /\ Decodable(r) <=> IsPlausible(r)
         /\ Encodable(r) <=> r.schema # 1 /\ IsPlausible(r)
<1>1. r.schema \in {1, 2, 3}
  BY DEF BootRecords
<1>2. CASE r.schema = 1
  BY <1>2 DEF IsPlausible, Decodable, Encodable
<1>3. CASE r.schema = 2
  BY <1>3 DEF IsPlausible, Decodable, Encodable
<1>4. CASE r.schema = 3
  BY <1>4 DEF IsPlausible, Decodable, Encodable
<1> QED
  BY <1>1, <1>2, <1>3, <1>4

\* What the store asks of a successor, schema by schema.
LEMMA SuccessorCases ==
  ASSUME NEW p \in BootRecords, NEW n \in BootRecords,
         Decodable(p), Encodable(n), n.seq = p.seq + 1
  PROVE  /\ p.schema = 1 /\ n.schema = 2 =>
              (IsAllowedSuccessor(p, n) <=> Schema1Successor(p, n))
         /\ p.schema = 2 /\ n.schema = 2 =>
              (IsAllowedSuccessor(p, n) <=> Schema2Successor(p, n))
         /\ p.schema = 2 /\ n.schema = 3 =>
              (IsAllowedSuccessor(p, n) <=>
                 AuthHandoffAdvances(p, n) /\ n.auth = "Unconsumed")
         /\ p.schema = 3 /\ n.schema = 3 =>
              (IsAllowedSuccessor(p, n) <=>
                 \/ AuthHandoffAdvances(p, n)
                 \/ Schema3ConfigurationSuccessor(p, n))
         /\ IsAllowedSuccessor(p, n) =>
              <<p.schema, n.schema>> \in
                {<<1, 2>>, <<2, 2>>, <<2, 3>>, <<3, 3>>}
<1>1. /\ p.schema \in {1, 2, 3} /\ n.schema \in {2, 3}
      /\ IsPlausible(p) /\ IsPlausible(n)
  BY DEF Decodable, Encodable
<1>2. CASE p.schema = 1
  BY <1>1, <1>2 DEF IsAllowedSuccessor
<1>3. CASE p.schema = 2
  BY <1>1, <1>3 DEF IsAllowedSuccessor
<1>4. CASE p.schema = 3
  BY <1>1, <1>4 DEF IsAllowedSuccessor
<1> QED
  BY <1>1, <1>2, <1>3, <1>4

\* What Allowed and WriteBound ask of the successor n of record r.
Follows(r, n) == n \in BootRecords /\ IsAllowedSuccessor(r, n) /\ Encodable(n)

\* The end of an initialisation or of a reset is always an allowed record; a
\* reset opens the handoff of the run store with it.
LEMMA EndFollows ==
  ASSUME NEW r \in BootRecords, Decodable(r), r.state # "Initialized"
  PROVE  LET n == NextState(r, "Initialized")
         IN  /\ Follows(r, n) /\ n.state = "Initialized"
             /\ n.epoch = r.epoch /\ n.auth = "None"
<1> DEFINE n == NextState(r, "Initialized")
<1> USE AbsentAssumption
<1>1. r = [seq |-> r.seq, epoch |-> r.epoch, state |-> r.state,
           schema |-> r.schema, handoff |-> r.handoff, prev |-> r.prev,
           cur |-> r.cur, auth |-> r.auth, authSeq |-> r.authSeq]
  BY DEF BootRecords
<1>2. /\ r.seq \in Nat /\ r.epoch \in Nat /\ r.schema \in 1..3
      /\ r.authSeq \in Nat
      /\ r.state \in {"Initializing", "Initialized", "Resetting"}
  BY DEF BootRecords
<1>3. /\ r.epoch >= 1 /\ r.seq >= 1 /\ NoHandoffBinding(r)
      /\ NoAuthHandoffBinding(r)
  <2>1. CASE r.schema = 1
    BY <1>2, <2>1, PlausibleCases DEF Schema1Plausible
  <2>2. CASE r.schema = 2
    BY <1>2, <2>2, PlausibleCases DEF Schema2Plausible
  <2>3. CASE r.schema = 3
    BY <1>2, <2>3, PlausibleCases
    DEF Schema3Plausible, AuthHandoffBindingPlausible, NoAuthHandoffBinding
  <2> QED
    BY <1>2, <2>1, <2>2, <2>3
<1>4. CASE r.state = "Initializing"
  <2>1. r.schema \in {1, 2} /\ r.epoch = 1 /\ r.seq = 1
    BY <1>2, <1>4, PlausibleCases
    DEF Schema1Plausible, Schema2Plausible, Schema3Plausible
  <2>2. n = Record(2, 1, "Initialized", 2)
    BY <1>3, <1>4, <2>1 DEF NextState, Successor, Record, NoAuthHandoffBinding
  <2> HIDE DEF n
  <2>3. n \in BootRecords /\ Schema2Plausible(n) /\ n.schema = 2
    BY <2>2 DEF Record, BootRecords, Schema2Plausible, NoHandoffBinding,
       NoAuthHandoffBinding
  <2>4. EndsInitialization(r, n) /\ n.seq = r.seq + 1
    BY <2>1, <2>2 DEF Record, EndsInitialization, NoHandoffBinding
  <2>5. Encodable(n)
    BY <2>3, PlausibleCases
  <2>6. IsAllowedSuccessor(r, n)
    <3>1. Schema1Successor(r, n)
      BY <1>4, <2>4 DEF Schema1Successor
    <3>2. Schema2Successor(r, n)
      BY <1>4, <2>4 DEF Schema2Successor
    <3> QED
      BY <2>1, <2>3, <2>4, <2>5, <3>1, <3>2, SuccessorCases
  <2> QED
    BY <2>1, <2>2, <2>3, <2>5, <2>6 DEF Follows, n, Record
<1>5. CASE r.state = "Resetting"
  <2>1. r.epoch >= 2
    BY <1>2, <1>5, PlausibleCases
    DEF Schema1Plausible, Schema2Plausible, Schema3Plausible,
        Schema2SequencePlausible
  <2>2. n = [seq |-> r.seq + 1, epoch |-> r.epoch, state |-> "Initialized",
             schema |-> IF r.schema = 3 THEN 3 ELSE 2, handoff |-> "Pending",
             prev |-> r.epoch - 1, cur |-> r.epoch, auth |-> "None",
             authSeq |-> 0]
    BY <1>3, <1>5 DEF NextState, Successor, NoHandoffBinding,
       NoAuthHandoffBinding
  <2> HIDE DEF n
  <2>3. /\ n.seq = r.seq + 1 /\ n.epoch = r.epoch /\ n.state = "Initialized"
        /\ n.schema = (IF r.schema = 3 THEN 3 ELSE 2)
        /\ n.handoff = "Pending"
        /\ n.prev = r.epoch - 1 /\ n.cur = r.epoch
        /\ n.auth = "None" /\ n.authSeq = 0
    BY <2>2
  <2>4. n \in BootRecords
    BY <1>2, <2>1, <2>2 DEF BootRecords
  <2>5. BoundToEpoch(n) /\ NoAuthHandoffBinding(n)
    BY <1>2, <2>1, <2>3 DEF BoundToEpoch, NoAuthHandoffBinding
  <2>6. EndsReset(r, n)
    BY <2>3 DEF EndsReset
  <2>7. CASE r.schema = 3
    <3>1. Schema3Plausible(r)
      BY <2>7, PlausibleCases
    <3>2. Schema3Plausible(n)
      BY <1>2, <2>1, <2>3, <2>5, <3>1
      DEF Schema3Plausible, AuthHandoffBindingPlausible
    <3>3. Encodable(n)
      BY <2>3, <2>4, <2>7, <3>2, PlausibleCases
    <3>4. Schema3ConfigurationSuccessor(r, n)
      BY <1>5, <2>5, <2>6 DEF Schema3ConfigurationSuccessor
    <3> QED
      BY <2>3, <2>4, <2>7, <3>3, <3>4, SuccessorCases DEF Follows, n
  <2>8. CASE r.schema # 3
    <3>1. Schema2SequencePlausible(n, 1)
      <4>1. \/ r.schema = 1 /\ r.seq = 2 * r.epoch - 1
            \/ Schema2SequencePlausible(r, 0)
        BY <1>2, <1>5, <2>8, PlausibleCases
        DEF Schema1Plausible, Schema2Plausible
      <4>2. CASE r.seq = 2 * r.epoch - 1
        <5>1. n.seq - (2 * n.epoch - 1) - 1 = 0
          BY <1>2, <2>3, <4>2
        <5>2. 0 % 2 = 0 /\ 0 \div 2 = 0 /\ n.epoch >= 2
              /\ 0 <= n.epoch - 2
          BY <1>2, <2>1, <2>3
        <5> QED
          BY <5>1, <5>2 DEF Schema2SequencePlausible
      <4>3. CASE Schema2SequencePlausible(r, 0)
        <5>1. n.seq - (2 * n.epoch - 1) - 1 = r.seq - (2 * r.epoch - 1) - 0
          BY <1>2, <2>3
        <5> QED
          BY <2>3, <4>3, <5>1 DEF Schema2SequencePlausible
      <4> QED
        BY <4>1, <4>2, <4>3
    <3>2. Schema2Plausible(n) /\ n.schema = 2
      BY <1>2, <1>3, <2>3, <2>5, <2>8, <3>1 DEF Schema2Plausible
    <3>3. Encodable(n)
      BY <2>4, <3>2, PlausibleCases
    <3>4. Schema1Successor(r, n)
      BY <1>5, <2>6, <3>2 DEF Schema1Successor
    <3>5. Schema2Successor(r, n)
      BY <1>5, <2>6 DEF Schema2Successor
    <3>6. r.schema \in {1, 2}
      BY <1>2, <2>8
    <3> QED
      BY <2>3, <2>4, <3>2, <3>3, <3>4, <3>5, <3>6, SuccessorCases
      DEF Follows, n
  <2> QED
    BY <2>7, <2>8
<1> QED
  BY <1>2, <1>4, <1>5

\* The proof a boot finds is the open handoff of its record.
LEMMA ArmedOpen ==
  ASSUME NEW r \in BootRecords, Decodable(r), r.state = "Initialized"
  PROVE  /\ Armed(r) \in {"Pending", "Committed", None}
         /\ Armed(r) # None => r.handoff = Armed(r) /\ BoundToEpoch(r)
                               /\ r.schema \in {2, 3}
         /\ r.handoff \in {"None", "Consumed"} <=> Armed(r) = None
<1>1. r.handoff # "None" => BoundToEpoch(r) /\ r.schema \in {2, 3}
  BY PlausibleCases
  DEF Schema1Plausible, Schema2Plausible, Schema3Plausible, NoHandoffBinding
<1>2. r.handoff \in {"None", "Pending", "Committed", "Consumed"}
  BY DEF BootRecords
<1> QED
  BY <1>1, <1>2, AbsentAssumption DEF Armed

\* The handoff of the run store can always go on.
LEMMA HandoffFollows ==
  ASSUME NEW r \in BootRecords, Decodable(r), r.state = "Initialized",
         r.auth = "None", NEW h \in {"Committed", "Consumed"},
         Armed(r) = IF h = "Committed" THEN "Pending" ELSE "Committed"
  PROVE  LET n == Successor(r, "Initialized", h)
         IN  /\ Follows(r, n)
             /\ n.state = "Initialized" /\ n.epoch = r.epoch
             /\ n.auth = "None"
             /\ Armed(n) = IF h = "Committed" THEN h ELSE None
<1> DEFINE n == Successor(r, "Initialized", h)
<1> USE AbsentAssumption
<1>1. /\ r.handoff = IF h = "Committed" THEN "Pending" ELSE "Committed"
      /\ BoundToEpoch(r) /\ r.schema \in {2, 3}
  BY ArmedOpen
<1>2. /\ r.seq \in Nat /\ r.epoch \in Nat /\ r.authSeq \in Nat
      /\ r.auth \in {"None", "Unconsumed", "InProgress", "Consumed",
                     "Indeterminate"}
      /\ r.prev \in Nat /\ r.cur \in Nat
      /\ r.prev # 0 /\ r.cur = r.epoch /\ r.prev + 1 = r.cur
  BY <1>1 DEF BootRecords, BoundToEpoch
<1>3. n = [seq |-> r.seq + 1, epoch |-> r.epoch, state |-> "Initialized",
           schema |-> r.schema, handoff |-> h, prev |-> r.prev, cur |-> r.cur,
           auth |-> r.auth, authSeq |-> r.authSeq]
  BY <1>1, <1>2 DEF Successor
<1> HIDE DEF n
<1>4. /\ n.seq = r.seq + 1 /\ n.epoch = r.epoch /\ n.state = "Initialized"
      /\ n.schema = r.schema /\ n.handoff = h /\ n.prev = r.prev
      /\ n.cur = r.cur /\ n.auth = r.auth /\ n.authSeq = r.authSeq
  BY <1>3
<1>5. n \in BootRecords
  BY <1>1, <1>2, <1>3 DEF BootRecords
<1>6. BoundToEpoch(n) /\ HandoffAdvances(r, n)
  BY <1>1, <1>2, <1>4 DEF BoundToEpoch, HandoffAdvances, SameBinding
<1>7. ASSUME r.schema = 2
      PROVE  Follows(r, n)
  <2>1. Schema2Plausible(r)
    BY <1>7, PlausibleCases
  <2>2. NoAuthHandoffBinding(r) /\ ~NoHandoffBinding(r) /\ r.seq # 0
        /\ r.epoch # 0
        /\ Schema2SequencePlausible(r, IF h = "Committed" THEN 1 ELSE 2)
    BY <1>1, <2>1 DEF Schema2Plausible, NoHandoffBinding
  <2>3. Schema2SequencePlausible(n, IF h = "Committed" THEN 2 ELSE 3)
    BY <1>2, <1>4, <2>2 DEF Schema2SequencePlausible
  <2>4. Schema2Plausible(n)
    BY <1>2, <1>4, <1>6, <2>2, <2>3 DEF Schema2Plausible, NoAuthHandoffBinding
  <2>5. Encodable(n)
    BY <1>4, <1>5, <1>7, <2>4, PlausibleCases
  <2>6. Schema2Successor(r, n)
    BY <1>1, <1>6 DEF Schema2Successor
  <2> QED
    BY <1>4, <1>5, <1>7, <2>5, <2>6, SuccessorCases DEF Follows
<1>8. ASSUME r.schema = 3
      PROVE  Follows(r, n)
  <2>1. Schema3Plausible(r)
    BY <1>8, PlausibleCases
  <2>2. Schema3Plausible(n)
    BY <1>2, <1>4, <1>6, <2>1
    DEF Schema3Plausible, AuthHandoffBindingPlausible
  <2>3. Encodable(n)
    BY <1>4, <1>5, <1>8, <2>2, PlausibleCases
  <2>4. Schema3ConfigurationSuccessor(r, n)
    BY <1>4, <1>6 DEF Schema3ConfigurationSuccessor
  <2> QED
    BY <1>4, <1>5, <1>8, <2>3, <2>4, SuccessorCases DEF Follows
<1>9. Armed(n) = IF h = "Committed" THEN h ELSE None
  BY <1>1, <1>4, <1>6 DEF Armed
<1>10. Follows(r, n)
  BY <1>1, <1>7, <1>8
<1> QED
  BY <1>4, <1>9, <1>10 DEF n

\* Four fields of a record are replaced.
LEMMA UpdatedRecord ==
  ASSUME NEW A, NEW B, NEW C, NEW D, NEW E, NEW F, NEW G, NEW H, NEW I,
         NEW r \in [seq: A, epoch: B, state: C, schema: D, handoff: E,
                    prev: F, cur: G, auth: H, authSeq: I],
         NEW a \in A, NEW d \in D, NEW h \in H, NEW i \in I
  PROVE  [r EXCEPT !.seq = a, !.schema = d, !.auth = h, !.authSeq = i]
           \in [seq: A, epoch: B, state: C, schema: D, handoff: E,
                prev: F, cur: G, auth: H, authSeq: I]
OBVIOUS

\* A record of the access domain's handoff differs from the one before only in
\* its number, its schema and the handoff.
LEMMA NextAuthFields ==
  ASSUME NEW r \in BootRecords, NEW a
  PROVE  LET n == NextAuth(r, a)
         IN  /\ n.seq = r.seq + 1 /\ n.epoch = r.epoch /\ n.state = r.state
             /\ n.schema = 3 /\ n.handoff = r.handoff /\ n.prev = r.prev
             /\ n.cur = r.cur /\ n.auth = a
             /\ n.authSeq = IF a = "Unconsumed" THEN r.seq + 1 ELSE r.authSeq
             /\ a \in {"None", "Unconsumed", "InProgress", "Consumed",
                       "Indeterminate"} => n \in BootRecords
<1> DEFINE n == NextAuth(r, a)
           seq == IF a = "Unconsumed" THEN r.seq + 1 ELSE r.authSeq
<1>1. n = [r EXCEPT !.seq = r.seq + 1, !.schema = 3, !.auth = a,
                    !.authSeq = seq]
  BY DEF NextAuth
<1>2. r.seq + 1 \in Nat /\ seq \in Nat
  BY DEF BootRecords
<1> HIDE DEF n, seq
<1>3. /\ n.seq = r.seq + 1 /\ n.epoch = r.epoch /\ n.state = r.state
      /\ n.schema = 3 /\ n.handoff = r.handoff
  BY <1>1 DEF BootRecords
<1>4. n.prev = r.prev /\ n.cur = r.cur /\ n.auth = a /\ n.authSeq = seq
  BY <1>1 DEF BootRecords
<1>5. ASSUME a \in {"None", "Unconsumed", "InProgress", "Consumed",
                    "Indeterminate"}
      PROVE  n \in BootRecords
  <2>1. 3 \in 1..3
    OBVIOUS
  <2> QED
    BY <1>1, <1>2, <1>5, <2>1, UpdatedRecord, ZenonT(30) DEF BootRecords
<1> QED
  BY <1>3, <1>4, <1>5 DEF n, seq

\* It leaves the handoff of the run store alone.
LEMMA NextAuthArmed ==
  ASSUME NEW r \in BootRecords, NEW a, r.schema # 1
  PROVE  Armed(NextAuth(r, a)) = Armed(r)
<1>1. r.schema \in {2, 3}
  BY PlausibleCases
<1> DEFINE n == NextAuth(r, a)
<1>2. /\ n.epoch = r.epoch /\ n.schema = 3 /\ n.handoff = r.handoff
      /\ n.prev = r.prev /\ n.cur = r.cur
  BY NextAuthFields
<1> HIDE DEF n
<1>3. BoundToEpoch(n) <=> BoundToEpoch(r)
  BY <1>2 DEF BoundToEpoch
<1>4. Armed(n) = Armed(r)
  BY <1>1, <1>2, <1>3 DEF Armed
<1> QED
  BY <1>4 DEF n

AuthSteps == {<<"Unconsumed", "InProgress">>, <<"InProgress", "Consumed">>,
              <<"InProgress", "Indeterminate">>}

\* An opened handoff of the access domain can always go on.
LEMMA AuthFollows ==
  ASSUME NEW r \in BootRecords, Decodable(r), r.state = "Initialized", NEW a,
         <<r.auth, a>> \in AuthSteps
  PROVE  Follows(r, NextAuth(r, a)) /\ r.schema = 3
<1> DEFINE n == NextAuth(r, a)
<1>1. \/ r.auth = "Unconsumed" /\ a = "InProgress"
      \/ r.auth = "InProgress" /\ a \in {"Consumed", "Indeterminate"}
  BY DEF AuthSteps
<1>2. r.schema = 3 /\ Schema3Plausible(r)
  BY <1>1, PlausibleCases
  DEF Schema1Plausible, Schema2Plausible, NoAuthHandoffBinding
<1>3. /\ n.seq = r.seq + 1 /\ n.epoch = r.epoch /\ n.state = r.state
      /\ n.schema = 3 /\ n.handoff = r.handoff /\ n.prev = r.prev
      /\ n.cur = r.cur /\ n.auth = a /\ n.authSeq = r.authSeq
      /\ n \in BootRecords
  BY <1>1, NextAuthFields
<1> HIDE DEF n
<1>4. /\ r.seq \in Nat /\ r.authSeq \in Nat /\ r.epoch \in Nat /\ r.seq >= 3
      /\ r.authSeq # 0
      /\ r.seq = IF r.auth = "Unconsumed" THEN r.authSeq ELSE r.authSeq + 1
  BY <1>1, <1>2 DEF BootRecords, Schema3Plausible, AuthHandoffBindingPlausible
<1>5. AuthHandoffBindingPlausible(n)
  <2>1. CASE a = "InProgress"
    BY <1>1, <1>3, <1>4, <2>1 DEF AuthHandoffBindingPlausible
  <2>2. CASE a \in {"Consumed", "Indeterminate"}
    <3>1. n.seq >= n.authSeq + 2 /\ n.authSeq # 0
      BY <1>1, <1>3, <1>4, <2>2
    <3> QED
      BY <1>3, <2>2, <3>1 DEF AuthHandoffBindingPlausible
  <2> QED
    BY <1>1, <2>1, <2>2
<1>6. Schema3Plausible(n)
  BY <1>2, <1>3, <1>4, <1>5
  DEF Schema3Plausible, NoHandoffBinding, BoundToEpoch
<1>7. Encodable(n)
  BY <1>3, <1>6, PlausibleCases
<1>8. AuthHandoffAdvances(r, n)
  BY <1>1, <1>3 DEF AuthHandoffAdvances, SameBinding
<1>9. IsAllowedSuccessor(r, n)
  BY <1>2, <1>3, <1>7, <1>8, SuccessorCases
<1> QED
  BY <1>2, <1>3, <1>7, <1>9 DEF Follows, n

\* The first record of a reset.
LEMMA NextResetFields ==
  ASSUME NEW r \in BootRecords
  PROVE  LET n == NextState(r, "Resetting")
         IN  /\ n = [seq |-> r.seq + 1, epoch |-> r.epoch + 1,
                     state |-> "Resetting",
                     schema |-> IF r.schema = 3 THEN 3 ELSE 2,
                     handoff |-> "None", prev |-> None, cur |-> None,
                     auth |-> "None", authSeq |-> 0]
             /\ n \in BootRecords
<1>1. NextState(r, "Resetting") =
        [seq |-> r.seq + 1, epoch |-> r.epoch + 1, state |-> "Resetting",
         schema |-> IF r.schema = 3 THEN 3 ELSE 2,
         handoff |-> "None", prev |-> None, cur |-> None,
         auth |-> "None", authSeq |-> 0]
  BY DEF NextState, Successor
<1>2. r.seq + 1 \in Nat /\ r.epoch + 1 \in Nat
  BY DEF BootRecords
<1> QED
  BY <1>1, <1>2 DEF BootRecords

\* A reset can always start, but for the second one of a device whose record
\* still has schema 2.
LEMMA ResetFollows ==
  ASSUME NEW r \in BootRecords, Decodable(r), r.state = "Initialized",
         r.handoff \notin {"Pending", "Committed"},
         ~(r.schema = 2 /\ r.handoff = "Consumed")
  PROVE  Follows(r, NextState(r, "Resetting"))
<1> DEFINE n == NextState(r, "Resetting")
<1>1. n \in BootRecords
  BY NextResetFields
<1>2. /\ n.seq = r.seq + 1 /\ n.epoch = r.epoch + 1 /\ n.state = "Resetting"
      /\ n.schema = (IF r.schema = 3 THEN 3 ELSE 2)
      /\ n.handoff = "None" /\ n.prev = None /\ n.cur = None
      /\ n.auth = "None" /\ n.authSeq = 0
  BY NextResetFields
<1> HIDE DEF n
<1>3. /\ r.seq \in Nat /\ r.epoch \in Nat /\ r.schema \in 1..3
      /\ r.handoff \in {"None", "Consumed"}
  BY DEF BootRecords
<1>4. r.epoch # 0
  BY <1>3, PlausibleCases
  DEF Schema1Plausible, Schema2Plausible, Schema3Plausible
<1>5. NoHandoffBinding(n) /\ NoAuthHandoffBinding(n) /\ StartsReset(r, n)
  BY <1>2 DEF NoHandoffBinding, NoAuthHandoffBinding, StartsReset
<1>6. CASE r.schema = 3
  <2>1. Schema3Plausible(r)
    BY <1>6, PlausibleCases
  <2>2. Schema3Plausible(n)
    BY <1>2, <1>3, <1>4, <1>5, <2>1
    DEF Schema3Plausible, AuthHandoffBindingPlausible
  <2>3. Encodable(n)
    BY <1>1, <1>2, <1>6, <2>2, PlausibleCases
  <2>4. Schema3ConfigurationSuccessor(r, n)
    BY <1>3, <1>5 DEF Schema3ConfigurationSuccessor
  <2>5. IsAllowedSuccessor(r, n)
    BY <1>1, <1>2, <1>6, <2>3, <2>4, SuccessorCases
  <2> QED
    BY <1>1, <2>3, <2>5 DEF Follows, n
<1>7. CASE r.schema # 3
  <2>1. r.seq = 2 * r.epoch /\ r.handoff = "None" /\ r.schema \in {1, 2}
    <3>1. CASE r.schema = 1
      BY <3>1, PlausibleCases DEF Schema1Plausible, NoHandoffBinding
    <3>2. CASE r.schema = 2
      <4>1. r.handoff = "None"
        BY <1>3, <3>2
      <4> QED
        BY <3>2, <4>1, PlausibleCases DEF Schema2Plausible, BoundToEpoch
    <3> QED
      BY <1>3, <1>7, <3>1, <3>2
  <2>2. Schema2SequencePlausible(n, 0)
    <3>1. n.seq - (2 * n.epoch - 1) - 0 = 0
      BY <1>2, <1>3, <2>1
    <3>2. 0 % 2 = 0 /\ 0 \div 2 = 0 /\ n.epoch >= 2 /\ 0 <= n.epoch - 2
      BY <1>2, <1>3, <1>4
    <3> QED
      BY <3>1, <3>2 DEF Schema2SequencePlausible
  <2>3. Schema2Plausible(n) /\ n.schema = 2
    BY <1>2, <1>3, <1>5, <1>7, <2>2 DEF Schema2Plausible
  <2>4. Encodable(n)
    BY <1>1, <2>3, PlausibleCases
  <2>5. Schema1Successor(r, n)
    BY <1>5 DEF Schema1Successor
  <2>6. Schema2Successor(r, n)
    BY <1>5, <2>1 DEF Schema2Successor
  <2>7. IsAllowedSuccessor(r, n)
    BY <1>1, <1>2, <2>1, <2>3, <2>4, <2>5, <2>6, SuccessorCases
  <2> QED
    BY <1>1, <2>4, <2>7 DEF Follows, n
<1> QED
  BY <1>6, <1>7

-----------------------------------------------------------------------------
(* The invariant implies the properties.                                   *)

\* An allowed record may be written.
LEMMA FollowsAllowed ==
  ASSUME Used # {}, NEW n, Follows(Now, n)
  PROVE  Allowed(n) /\ Encodable(n) /\ n \in BootRecords
BY DEF Follows, Allowed

\* The record an operation needs next follows the canonical one.
LEMMA NeededFollows ==
  ASSUME BootstrapInv, NEW r \in NeededWrites
  PROVE  Allowed(r) /\ Encodable(r)
<1> USE DEF BootstrapInv, Sound
<1>1. \/ At("finalize") /\ r = NextState(Now, "Initialized")
      \/ /\ At("handoff") /\ job.phase = "Pending"
         /\ r = Successor(Now, "Initialized", "Committed")
      \/ /\ At("handoff") /\ job.phase = "Committed"
         /\ r = Successor(Now, "Initialized", "Consumed")
      \/ (At("authStart") \/ At("authSpoil")) /\ r = NextAuth(Now, "InProgress")
      \/ At("authConsume") /\ r = NextAuth(Now, "Consumed")
      \/ At("authGiveUp") /\ r = NextAuth(Now, "Indeterminate")
      \/ /\ At("idle") /\ Initialized /\ ~HandoffOpen
         /\ ~(Now.schema = 2 /\ Now.handoff = "Consumed")
         /\ r = NextState(Now, "Resetting")
  BY DEF NeededWrites
<1>2. Used # {}
  <2>1. CASE At("idle") /\ Initialized
    BY <2>1, Scans DEF Initialized
  <2>2. CASE ~(At("idle") /\ Initialized)
    BY <1>1, <2>2 DEF Ready, BuildReady, HandoffReady, AuthPlaces, At
  <2> QED
    BY <2>1, <2>2
<1>3. Now \in BootRecords /\ Decodable(Now)
  BY <1>2, NowSound
<1>4. CASE At("finalize") /\ r = NextState(Now, "Initialized")
  <2>1. Now.state # "Initialized"
    BY <1>4 DEF Ready, BuildReady, At
  <2> QED
    BY <1>2, <1>3, <1>4, <2>1, EndFollows, FollowsAllowed
<1>5. CASE At("handoff") /\ job.phase \in {"Pending", "Committed"}
  <2>1. Now.state = "Initialized" /\ Armed(Now) = job.phase
    BY <1>5 DEF Ready, HandoffReady, At
  <2>2. Now.auth = "None"
    BY <1>2, <1>3, <1>5, <2>1, ArmedOpen, AbsentAssumption
    DEF RecordTells, HandoffOpen
  <2>3. CASE /\ job.phase = "Pending"
             /\ r = Successor(Now, "Initialized", "Committed")
    <3>1. Follows(Now, Successor(Now, "Initialized", "Committed"))
      BY <1>3, <2>1, <2>2, <2>3, HandoffFollows
    <3> QED
      BY <1>2, <2>3, <3>1, FollowsAllowed
  <2>4. CASE /\ job.phase = "Committed"
             /\ r = Successor(Now, "Initialized", "Consumed")
    <3>1. Follows(Now, Successor(Now, "Initialized", "Consumed"))
      BY <1>3, <2>1, <2>2, <2>4, HandoffFollows
    <3> QED
      BY <1>2, <2>4, <3>1, FollowsAllowed
  <2> QED
    BY <1>1, <1>5, <2>3, <2>4 DEF At
<1>6. ASSUME NEW a, <<Now.auth, a>> \in AuthSteps, Now.state = "Initialized",
             r = NextAuth(Now, a)
      PROVE  Allowed(r) /\ Encodable(r)
  BY <1>2, <1>3, <1>6, AuthFollows, FollowsAllowed
<1>7. CASE /\ At("authStart") \/ At("authSpoil")
           /\ r = NextAuth(Now, "InProgress")
  BY <1>6, <1>7 DEF Ready, HandoffReady, At, AuthPlaces, AuthSteps
<1>8. CASE At("authConsume") /\ r = NextAuth(Now, "Consumed")
  BY <1>6, <1>8 DEF Ready, HandoffReady, At, AuthPlaces, AuthSteps
<1>9. CASE At("authGiveUp") /\ r = NextAuth(Now, "Indeterminate")
  BY <1>6, <1>9 DEF Ready, HandoffReady, At, AuthPlaces, AuthSteps
<1>10. CASE /\ Initialized /\ ~HandoffOpen
            /\ ~(Now.schema = 2 /\ Now.handoff = "Consumed")
            /\ r = NextState(Now, "Resetting")
  BY <1>2, <1>3, <1>10, ResetFollows, FollowsAllowed
  DEF Initialized, HandoffOpen
<1> QED
  BY <1>1, <1>4, <1>5, <1>7, <1>8, <1>9, <1>10

\* The device is not locked out of its storage.
LEMMA InvNeverStranded ==
  ASSUME BootstrapInv
  PROVE  NeverStranded
<1> USE DEF BootstrapInv, Sound
<1>1. ScanStatus = IF Used = {} THEN "Empty" ELSE "Available"
  BY Scans
<1>2. ScanStatus = "Empty" => FactoryEmpty
  BY <1>1 DEF Untouched, FactoryEmpty
<1>3. Initialized /\ graph.intact => GraphUsable(Now.epoch)
  BY <1>1 DEF Initialized, RecordTells, GraphComplete, GraphUsable
<1>4. \A r \in NeededWrites : Allowed(r) /\ Encodable(r)
  BY NeededFollows
<1> QED
  BY <1>1, <1>2, <1>3, <1>4 DEF NeverStranded

\* Accepted secrets are those of the epoch entered last.
LEMMA InvOldSecretsDead ==
  ASSUME BootstrapInv
  PROVE  OldSecretsDead
<1>1. ASSUME CredentialsActive
      PROVE  creds.epoch = seen.world
  <2>1. ctx # None /\ ReadStatus(creds, ctx.epoch) = "Success"
    BY <1>1 DEF CredentialsActive, RootActive
  <2>2. creds.epoch = ctx.epoch
    BY <2>1 DEF ReadStatus, Known
  <2> QED
    BY <2>1, <2>2 DEF BootstrapInv, Sound, WorldsMatch
<1> QED
  BY <1>1 DEF OldSecretsDead

\* A reset makes room for a new access domain.
LEMMA InvResetCures ==
  ASSUME BootstrapInv
  PROVE  ResetCures
<1> USE DEF BootstrapInv, Sound
<1> SUFFICES ASSUME Initialized,
                    ~(Known(root) /\ root.state = "Provisioned"
                      /\ creds = Corrupt)
             PROVE  Inventory(Now.epoch + 1, TRUE)
  BY DEF ResetCures
<1>1. Used # {}
  BY Scans DEF Initialized
<1>2. Now.epoch \in Nat
  BY <1>1, NowSound DEF BootRecords
<1>3. ASSUME NEW r \in {root, creds}
      PROVE  /\ ReadStatus(r, Now.epoch + 1) # "Success"
             /\ Known(r) => r.epoch < Now.epoch + 1
  <2>1. Known(r) => r.epoch \in Nat /\ r.epoch <= Now.epoch
    BY <1>1, <1>3 DEF NoneAhead, SecretsOK, Known, Roots, Credentials
  <2>2. Known(r) => r.epoch < Now.epoch + 1 /\ r.epoch # Now.epoch + 1
    BY <1>2, <2>1
  <2> QED
    BY <2>2 DEF ReadStatus, Known
<1>4. Known(root) /\ root.state = "Provisioned" =>
         Known(creds) /\ creds.epoch = root.epoch
  BY DEF RootTells, SameEpoch
<1>5. ~ /\ Known(root) /\ Known(creds) /\ creds.epoch = root.epoch
        /\ root.state = "Unprovisioned"
  BY DEF RootTells, SameEpoch
<1> QED
  BY <1>3, <1>4, <1>5 DEF Inventory

-----------------------------------------------------------------------------
(* The initial states.                                                     *)

\* The records of an older firmware are plausible, each follows the one
\* before.
LEMMA LegacySound ==
  ASSUME NEW n \in 1..4
  PROVE  /\ Legacy(n) \in BootRecords /\ Decodable(Legacy(n))
         /\ Legacy(n) # Absent /\ Legacy(n).seq = n
         /\ Legacy(n).handoff = "None"
         /\ Legacy(n).state = "Initialized" =>
              n # 1 /\ Legacy(n).epoch = IF n = 4 THEN 2 ELSE 1
         /\ n # 1 => IsAllowedSuccessor(Legacy(n - 1), Legacy(n))
<1>1. /\ Legacy(1) = Record(1, 1, "Initializing", 1)
      /\ Legacy(2) = Record(2, 1, "Initialized", 1)
      /\ Legacy(3) = Record(3, 2, "Resetting", 1)
      /\ Legacy(4) = Record(4, 2, "Initialized", 1)
  BY DEF Legacy
<1>2. ASSUME NEW m \in 1..4
      PROVE  /\ Legacy(m) \in BootRecords /\ Legacy(m).schema = 1
             /\ Legacy(m).seq = m
             /\ NoHandoffBinding(Legacy(m)) /\ NoAuthHandoffBinding(Legacy(m))
             /\ Legacy(m).epoch = IF m \in {1, 2} THEN 1 ELSE 2
             /\ Legacy(m).state = CASE m = 1 -> "Initializing"
                                    [] m = 3 -> "Resetting"
                                    [] OTHER -> "Initialized"
  BY <1>1 DEF Record, BootRecords, NoHandoffBinding, NoAuthHandoffBinding
<1>3. ASSUME NEW m \in 1..4
      PROVE  Decodable(Legacy(m)) /\ IsPlausible(Legacy(m))
  <2>1. Schema1Plausible(Legacy(m))
    BY <1>2 DEF Schema1Plausible
  <2> QED
    BY <1>2, <2>1, PlausibleCases
<1>4. ASSUME n # 1
      PROVE  IsAllowedSuccessor(Legacy(n - 1), Legacy(n))
  <2> DEFINE p == Legacy(n - 1)
             q == Legacy(n)
  <2>1. /\ p.schema = 1 /\ q.schema = 1 /\ IsPlausible(p) /\ IsPlausible(q)
        /\ q.seq = p.seq + 1
    BY <1>2, <1>3, <1>4
  <2>2. Schema1Successor(p, q)
    <3>1. CASE n = 2
      <4>1. p.state = "Initializing" /\ EndsInitialization(p, q)
        BY <1>2, <3>1 DEF EndsInitialization
      <4> QED
        BY <4>1 DEF Schema1Successor
    <3>2. CASE n = 3
      <4>1. p.state = "Initialized" /\ StartsReset(p, q)
        BY <1>2, <3>2 DEF StartsReset
      <4> QED
        BY <4>1 DEF Schema1Successor
    <3>3. CASE n = 4
      <4>1. /\ p.state = "Resetting" /\ q.state = "Initialized"
            /\ q.epoch = p.epoch
        BY <1>2, <3>3
      <4> QED
        BY <2>1, <4>1 DEF Schema1Successor
    <3> QED
      BY <1>4, <3>1, <3>2, <3>3
  <2> HIDE DEF p, q
  <2>3. IsAllowedSuccessor(p, q)
    BY <2>1, <2>2 DEF IsAllowedSuccessor
  <2> QED
    BY <2>3 DEF p, q
<1>5. Legacy(n) # Absent
  BY <1>2, AbsentAssumption
<1>6. /\ Legacy(n).handoff = "None"
      /\ Legacy(n).state = "Initialized" =>
           n # 1 /\ Legacy(n).epoch = IF n = 4 THEN 2 ELSE 1
  BY <1>2 DEF NoHandoffBinding
<1> QED
  BY <1>2, <1>3, <1>4, <1>5, <1>6

\* The slots an older firmware leaves behind.
LEMMA LegacyScans ==
  ASSUME NEW n \in 1..4, slots = LegacySlots(n)
  PROVE  slots \in SlotPairs /\ Chained /\ Used # {} /\ Now = Legacy(n)
<1> DEFINE s == (n - 1) % 2
           t == 1 - s
<1>1. s \in {0, 1} /\ t \in {0, 1} /\ s # t /\ {s, t} = {0, 1} /\ 1 - s = t
  BY DEF s, t
<1>2. /\ slots[s] = Legacy(n)
      /\ slots[t] = IF n = 1 THEN Absent ELSE Legacy(n - 1)
  <2>1. n # 0
    OBVIOUS
  <2> HIDE DEF s, t
  <2>2. (n - 1) % 2 = s
    BY DEF s
  <2> QED
    BY <1>1, <2>1, <2>2 DEF LegacySlots
<1> HIDE DEF s, t
<1>3. /\ Legacy(n) \in BootRecords /\ Legacy(n).seq = n /\ Legacy(n) # Absent
      /\ Decodable(Legacy(n))
  BY LegacySound
<1>4. n # 1 => /\ Legacy(n - 1) \in BootRecords /\ Legacy(n - 1).seq = n - 1
               /\ Decodable(Legacy(n - 1)) /\ Legacy(n - 1) # Absent
               /\ IsAllowedSuccessor(Legacy(n - 1), Legacy(n))
  BY LegacySound
<1>5. slots \in SlotPairs
  <2>1. slots = [i \in {0, 1} |-> slots[i]]
    BY DEF LegacySlots
  <2>2. \A i \in {0, 1} : slots[i] \in BootRecords \cup {Absent}
    BY <1>1, <1>2, <1>3, <1>4
  <2> QED
    BY <2>1, <2>2 DEF SlotPairs
<1>6. s \in Used /\ (t \in Used <=> n # 1)
  BY <1>1, <1>2, <1>3, <1>4 DEF Used
<1>7. NewestIn(slots) = s
  <2>1. \A i \in UsedIn(slots) \ {s} : slots[i].seq < slots[s].seq
    BY <1>1, <1>2, <1>3, <1>4, <1>6, SlotsUsed DEF UsedIn
  <2> QED
    BY <1>5, <1>6, <2>1, SlotsUsed, NewestUnique
<1>8. Chained
  <2>1. \A i \in Used : Decodable(slots[i])
    BY <1>1, <1>2, <1>3, <1>4, <1>6 DEF Used
  <2>2. Used = {0, 1} => IsAllowedSuccessor(slots[1 - s], slots[s])
    BY <1>1, <1>2, <1>4, <1>6
  <2> QED
    BY <1>1, <2>1, <2>2 DEF Chained
<1> QED
  BY <1>2, <1>5, <1>6, <1>7, <1>8, SlotsUsed

\* The device leaves the factory with empty storage.
LEMMA InitInv ==
  ASSUME Init
  PROVE  BootstrapInv
<1> USE BootstrapAssumption, AbsentAssumption
<1>1. PICK n \in 0 .. 4 :
         /\ slots = IF n = 0 THEN [s \in {0, 1} |-> Absent] ELSE LegacySlots(n)
         /\ graph = IF n \in {0, 1}
                    THEN [epoch |-> 1, written |-> 0, intact |-> TRUE]
                    ELSE [epoch |-> IF n = 4 THEN 2 ELSE 1,
                          written |-> Documents + 1, intact |-> TRUE]
  BY DEF Init
<1>2. /\ root = Absent /\ creds = Absent /\ job = Off /\ ctx = None
      /\ clock = [k \in Kinds |-> None] /\ seen = Fresh(0)
  BY DEF Init
<1>3. /\ slots \in SlotPairs /\ Chained
      /\ n = 0 => Used = {}
      /\ n # 0 => Used # {} /\ Now = Legacy(n)
  <2>1. CASE n = 0
    <3>1. slots \in SlotPairs
      BY <1>1, <2>1 DEF SlotPairs
    <3>2. Used = {}
      BY <1>1, <2>1 DEF Used
    <3> QED
      BY <2>1, <3>1, <3>2 DEF Chained
  <2>2. CASE n # 0
    BY <1>1, <2>2, LegacyScans
  <2> QED
    BY <2>1, <2>2
<1>4. graph \in [epoch: Nat, written: 0 .. Documents + 1, intact: BOOLEAN]
  BY <1>1
<1>5. SecretsOK
  BY <1>2 DEF SecretsOK, Fresh
<1>6. Untouched
  BY <1>1, <1>2, <1>3 DEF Untouched
<1>7. RecordTells
  <2>1. CASE n = 0
    BY <1>3, <2>1 DEF RecordTells
  <2>2. CASE n # 0
    <3>1. /\ Now.handoff = "None"
          /\ Now.state = "Initialized" =>
               n # 1 /\ Now.epoch = IF n = 4 THEN 2 ELSE 1
      BY <1>3, <2>2, LegacySound
    <3>2. Now.state = "Initialized" => GraphComplete
      BY <1>1, <2>2, <3>1 DEF GraphComplete
    <3> QED
      BY <3>1, <3>2 DEF RecordTells, HandoffOpen
  <2> QED
    BY <2>1, <2>2
<1>8. WorldsMatch /\ NoneAhead /\ RootTells
  BY <1>2 DEF WorldsMatch, NoneAhead, RootTells, Known
<1>9. Guesses
  BY <1>2 DEF Guesses, Known, Fresh
<1>10. JobOK /\ Ready
  BY <1>2 DEF JobOK, Jobs, Places, Off, Ready, AuthPlaces
<1> QED
  BY <1>3, <1>4, <1>5, <1>6, <1>7, <1>8, <1>9, <1>10
  DEF BootstrapInv, Sound, StorageOK, SlotPairs

-----------------------------------------------------------------------------
(* Steps that only move the operation under way.                           *)

\* GoTo() keeps what the operation knows, unless it ends.
LEMMA JobMoves ==
  ASSUME JobOK, NEW place \in Places, GoTo(place)
  PROVE  /\ JobOK' /\ job'.at = place
         /\ place # "idle" => /\ job'.reset = job.reset
                              /\ job'.phase = job.phase
                              /\ job'.kind = job.kind
<1>1. CASE place # "idle"
  <2>1. job' = [job EXCEPT !.at = place]
    BY <1>1 DEF GoTo, To
  <2> QED
    BY <1>1, <2>1 DEF JobOK, Jobs
<1>2. CASE place = "idle"
  <2>1. job' = [at |-> "idle", reset |-> FALSE, phase |-> None,
                epoch |-> job.epoch, admitted |-> job.admitted,
                replace |-> FALSE, kind |-> None]
    BY <1>2 DEF GoTo, To, Off
  <2>2. job.epoch \in Nat \cup {None} /\ job.admitted \in BOOLEAN
    BY DEF JobOK, Jobs
  <2> QED
    BY <1>2, <2>1, <2>2 DEF JobOK, Jobs
<1> QED
  BY <1>1, <1>2

\* The surfaces at rest rely on nothing.
LEMMA IdleReady ==
  ASSUME job'.at = "idle"
  PROVE  Ready'
BY DEF Ready, AuthPlaces

\* At rest nothing is under way that a step would have to continue.
LEMMA StopReady ==
  ASSUME JobOK, Stop
  PROVE  JobOK' /\ Ready'
BY JobMoves, IdleReady DEF Stop, Places

\* Storage that is not written stays as it is.
LEMMA StorageSame ==
  ASSUME Sound, UNCHANGED <<slots, graph>>
  PROVE  /\ StorageOK' /\ Chained' /\ RecordTells'
         /\ Used' = Used /\ Now' = Now
         /\ GraphComplete' <=> GraphComplete
         /\ HandoffOpen' <=> HandoffOpen
<1>1. Used' = Used /\ Now' = Now
  BY SlotsUsed
<1>2. GraphComplete' <=> GraphComplete
  BY <1>1 DEF GraphComplete
<1>3. HandoffOpen' <=> HandoffOpen
  BY <1>1 DEF HandoffOpen
<1>4. StorageOK' /\ Chained'
  BY <1>1 DEF Sound, StorageOK, Chained
<1>5. RecordTells'
  BY <1>1, <1>2, <1>3 DEF Sound, RecordTells
<1> QED
  BY <1>1, <1>2, <1>3, <1>4, <1>5

data == <<slots, graph, root, creds, ctx, clock, seen>>

\* Storage, secrets and observer that stay as they are stay sound.
LEMMA SoundSame ==
  ASSUME Sound, UNCHANGED data
  PROVE  Sound' /\ Used' = Used /\ Now' = Now
<1>1. UNCHANGED <<slots, graph>> /\ UNCHANGED <<root, creds, ctx, clock, seen>>
  BY DEF data
<1>2. /\ StorageOK' /\ Chained' /\ RecordTells'
      /\ Used' = Used /\ Now' = Now
  BY <1>1, StorageSame
<1>3. SecretsOK' /\ WorldsMatch'
  BY <1>1 DEF Sound, SecretsOK, WorldsMatch
<1>4. Untouched' /\ NoneAhead'
  BY <1>1, <1>2 DEF Sound, Untouched, NoneAhead
<1>5. RootTells'
  BY <1>1 DEF Sound, RootTells, SameEpoch
<1>6. Guesses'
  BY <1>1 DEF Sound, Guesses, LockKnows, ClockFits
<1> QED
  BY <1>2, <1>3, <1>4, <1>5, <1>6 DEF Sound

\* A start finds what was written before.
LEMMA PowerOnInv ==
  ASSUME BootstrapInv, PowerOn
  PROVE  BootstrapInv'
<1>1. UNCHANGED data /\ GoTo("boot") /\ job.at = "off"
  BY DEF PowerOn, data, At
<1>2. Sound'
  BY <1>1, SoundSame DEF BootstrapInv
<1>3. JobOK' /\ job'.at = "boot"
  BY <1>1, JobMoves DEF BootstrapInv, Places
<1>4. ctx' = None
  BY <1>1 DEF BootstrapInv, Ready, data
<1> QED
  BY <1>2, <1>3, <1>4 DEF BootstrapInv, Ready, AuthPlaces

\* An operation that only stops leaves everything it needs in order.
LEMMA EndingInv ==
  ASSUME BootstrapInv, UNCHANGED data, Stop
  PROVE  BootstrapInv'
BY SoundSame, StopReady DEF BootstrapInv

\* A start resumes the initialisation or the reset that was interrupted.
LEMMA BootResumeInv ==
  ASSUME BootstrapInv, BootResume
  PROVE  BootstrapInv'
<1>1. /\ UNCHANGED data /\ GoTo("build") /\ job.at = "boot"
      /\ ScanStatus = "Available" /\ Now.state # "Initialized"
  BY DEF BootResume, data, At
<1>2. Used # {}
  BY <1>1, Scans DEF BootstrapInv, Sound
<1>3. Sound' /\ Used' = Used /\ Now' = Now
  BY <1>1, SoundSame DEF BootstrapInv
<1>4. JobOK' /\ job'.at = "build"
  BY <1>1, JobMoves DEF BootstrapInv, Places
<1>5. ctx' = None
  BY <1>1 DEF BootstrapInv, Ready, data
<1>6. BuildReady'
  BY <1>1, <1>2, <1>3, <1>4, <1>5 DEF BuildReady
<1> QED
  BY <1>3, <1>4, <1>6 DEF BootstrapInv, Ready, AuthPlaces

\* Without a usable graph the device waits for a reset.
LEMMA BootWithoutGraphInv ==
  ASSUME BootstrapInv, BootWithoutGraph
  PROVE  BootstrapInv'
<1>1. /\ UNCHANGED data
      /\ job' = [job EXCEPT !.at = "idle", !.admitted = ~HandoffOpen]
  BY DEF BootWithoutGraph, data
<1>2. (~HandoffOpen) \in BOOLEAN
  BY DEF HandoffOpen
<1>3. JobOK' /\ job'.at = "idle"
  BY <1>1, <1>2 DEF BootstrapInv, JobOK, Jobs, Places
<1> QED
  BY <1>1, <1>3, SoundSame, IdleReady DEF BootstrapInv

\* A move between two steps of the handoffs.
LEMMA HandoffMoves ==
  ASSUME BootstrapInv, UNCHANGED data, JobOK',
         job.at \in AuthPlaces \cup {"handoff"},
         job'.at \in AuthPlaces \cup {"handoff"}, job'.phase = job.phase,
         job'.at \in {"authStart", "authSpoil"} => Now.auth = "Unconsumed",
         job'.at \in {"authRoot", "authConsume", "authGiveUp"} =>
            Now.auth = "InProgress",
         job'.at \in {"authStart", "authRoot"} =>
            ~(Known(creds) /\ creds.epoch = Now.epoch)
  PROVE  BootstrapInv'
<1>1. Sound' /\ Used' = Used /\ Now' = Now
  BY SoundSame DEF BootstrapInv
<1>2. HandoffReady
  BY DEF BootstrapInv, Ready
<1>3. creds' = creds /\ seen' = seen
  BY DEF data
<1>4. HandoffReady'
  BY <1>1, <1>2, <1>3 DEF HandoffReady
<1> QED
  BY <1>1, <1>4 DEF BootstrapInv, Ready, AuthPlaces

\* The end of the access domain's part.
LEMMA AuthEndsInv ==
  ASSUME BootstrapInv, UNCHANGED data, job.at \in AuthPlaces, AuthEnds
  PROVE  BootstrapInv'
<1>1. CASE AfterAuth = "handoff"
  <2>1. GoTo("handoff")
    BY <1>1 DEF AuthEnds
  <2>2. JobOK' /\ job'.at = "handoff" /\ job'.phase = job.phase
    BY <2>1, JobMoves DEF BootstrapInv, Places
  <2> QED
    BY <2>2, HandoffMoves
<1>2. CASE AfterAuth = "idle"
  BY <1>2, EndingInv DEF AuthEnds, Stop
<1> QED
  BY <1>1, <1>2 DEF AfterAuth

\* An access handoff that is not eligible changes nothing.
LEMMA AuthRefusedInv ==
  ASSUME BootstrapInv, AuthRefused
  PROVE  BootstrapInv'
BY AuthEndsInv DEF AuthRefused, At, AuthPlaces, data

\* An inventory that makes room has no credentials of this epoch.
LEMMA InventoryOther ==
  ASSUME NEW epoch, NEW prior, Inventory(epoch, prior)
  PROVE  ~(Known(creds) /\ creds.epoch = epoch)
BY DEF Inventory, ReadStatus, Known

\* Whether there may be records of an earlier domain is a plain question.
LEMMA PriorBoolean ==
  ASSUME NEW r \in BootRecords
  PROVE  Prior(r) \in BOOLEAN
<1>1. (r.epoch > 1) \in BOOLEAN /\ ResetEpoch(r) \in BOOLEAN
  BY DEF ResetEpoch
<1> QED
  BY <1>1 DEF Prior

\* An unconsumed handoff starts, or is spoiled by what it finds.
LEMMA AuthFoundInv ==
  ASSUME BootstrapInv, AuthFound
  PROVE  BootstrapInv'
<1>1. /\ UNCHANGED data /\ job.at = "auth" /\ Now.auth = "Unconsumed"
      /\ \/ /\ Inventory(Now.epoch, Prior(Now))
            /\ job' = [job EXCEPT !.at = "authStart", !.replace = Prior(Now)]
         \/ GoTo("authSpoil")
  BY DEF AuthFound, data, At
<1>2. Prior(Now) \in BOOLEAN
  BY <1>1, NowSound, PriorBoolean
  DEF BootstrapInv, Sound, Ready, HandoffReady, AuthPlaces
<1>3. CASE /\ Inventory(Now.epoch, Prior(Now))
           /\ job' = [job EXCEPT !.at = "authStart", !.replace = Prior(Now)]
  <2>1. JobOK' /\ job'.at = "authStart" /\ job'.phase = job.phase
    BY <1>2, <1>3 DEF BootstrapInv, JobOK, Jobs, Places, AuthPlaces
  <2>2. ~(Known(creds) /\ creds.epoch = Now.epoch)
    BY <1>3, InventoryOther
  <2> QED
    BY <1>1, <2>1, <2>2, HandoffMoves DEF AuthPlaces
<1>4. CASE GoTo("authSpoil")
  <2>1. JobOK' /\ job'.at = "authSpoil" /\ job'.phase = job.phase
    BY <1>4, JobMoves DEF BootstrapInv, Places, AuthPlaces
  <2> QED
    BY <1>1, <2>1, HandoffMoves DEF AuthPlaces
<1> QED
  BY <1>1, <1>3, <1>4

\* A handoff in progress at the start is confirmed or given up.
LEMMA AuthConfirmInv ==
  ASSUME BootstrapInv, AuthConfirm
  PROVE  BootstrapInv'
<1>1. /\ UNCHANGED data /\ job.at = "auth" /\ Now.auth = "InProgress"
      /\ GoTo("authConsume") \/ GoTo("authGiveUp")
  BY DEF AuthConfirm, data, At
<1>2. /\ JobOK' /\ job'.at \in {"authConsume", "authGiveUp"}
      /\ job'.phase = job.phase
  BY <1>1, JobMoves DEF BootstrapInv, Places, AuthPlaces
<1> QED
  BY <1>1, <1>2, HandoffMoves DEF AuthPlaces

\* A provisioning without a key is revoked.
LEMMA ProvisionWithoutKeyInv ==
  ASSUME BootstrapInv, ProvisionWithoutKey
  PROVE  BootstrapInv'
<1>1. UNCHANGED data /\ job.at = "provision" /\ GoTo("provisionRevoke")
  BY DEF ProvisionWithoutKey, data, At
<1>2. Sound' /\ Used' = Used
  BY <1>1, SoundSame DEF BootstrapInv
<1>3. JobOK' /\ job'.at = "provisionRevoke"
  BY <1>1, JobMoves DEF BootstrapInv, Places
<1>4. ProvisionReady'
  BY <1>1, <1>2 DEF BootstrapInv, Ready, ProvisionReady, data
<1> QED
  BY <1>2, <1>3, <1>4 DEF BootstrapInv, Ready, AuthPlaces

-----------------------------------------------------------------------------
(* Power, corruption, and the configuration of an epoch.                   *)

\* An observer who counts no more, a record that is gone and a clock that is
\* gone endanger no limit.
LEMMA GuessesKept ==
  ASSUME Sound, creds' = creds \/ ~Known(creds'),
         \A k \in Kinds : clock'[k] = clock[k] \/ clock'[k] = None,
         \A k \in Kinds : \/ /\ seen'.tries[k] = seen.tries[k]
                             /\ seen'.owed[k] = seen.owed[k]
                          \/ seen'.tries[k] = 0 /\ seen'.owed[k] = 0
  PROVE  Guesses'
<1>1. \A k \in Kinds : Attempts[k] \in Nat
  BY BootstrapAssumption
<1>2. \A k \in Kinds : seen'.tries[k] <= Attempts[k]
  BY <1>1 DEF Sound, Guesses
<1>3. ASSUME Known(creds'), NEW k \in Kinds
      PROVE  LockKnows(k)'
  <2>1. creds' = creds /\ Known(creds) /\ LockKnows(k)
    BY <1>3 DEF Sound, Guesses
  <2>2. creds.lock[k].failed \in Nat
    BY <2>1 DEF Sound, SecretsOK, Known, Credentials, Locks
  <2>3. ClockFits(k)' => ClockFits(k) /\ clock'[k] = clock[k]
    BY <2>1 DEF ClockFits
  <2>4. seen.owed[k] > 0 => seen.owed[k] # 0
    BY DEF Sound, SecretsOK
  <2> QED
    BY <2>1, <2>2, <2>3, <2>4 DEF LockKnows
<1> QED
  BY <1>2, <1>3 DEF Guesses

\* A power loss forgets the operation and keeps what was written.
LEMMA PowerLossInv ==
  ASSUME BootstrapInv, PowerLoss
  PROVE  BootstrapInv'
<1>1. /\ UNCHANGED <<slots, graph>> /\ UNCHANGED <<root, creds, seen>>
      /\ job' = Off /\ ctx' = None /\ clock' = [k \in Kinds |-> None]
  BY DEF PowerLoss
<1>2. /\ StorageOK' /\ Chained' /\ RecordTells'
      /\ Used' = Used /\ Now' = Now
  BY <1>1, StorageSame DEF BootstrapInv
<1>3. SecretsOK' /\ WorldsMatch' /\ Untouched' /\ NoneAhead'
  BY <1>1, <1>2
  DEF BootstrapInv, Sound, SecretsOK, WorldsMatch, Untouched, NoneAhead
<1>4. RootTells'
  BY <1>1 DEF BootstrapInv, Sound, RootTells, SameEpoch
<1>5. Guesses'
  BY <1>1, GuessesKept DEF BootstrapInv
<1>6. JobOK' /\ Ready'
  BY <1>1 DEF JobOK, Jobs, Places, Off, Ready, AuthPlaces
<1> QED
  BY <1>2, <1>3, <1>4, <1>5, <1>6 DEF BootstrapInv, Sound

\* A record that no longer decodes is not taken for one that does.
LEMMA CorruptedInv ==
  ASSUME BootstrapInv, Corrupted
  PROVE  BootstrapInv'
<1> USE DEF BootstrapInv, Sound
<1>1. /\ UNCHANGED <<slots, job, ctx, clock, seen>> /\ job.at = "off"
      /\ root' \in {root, Corrupt} /\ creds' \in {creds, Corrupt}
      /\ root' # root => Known(root)
      /\ creds' # creds => Known(creds)
      /\ root' # root => creds' = creds
      /\ graph' = graph \/ graph' = [graph EXCEPT !.intact = FALSE]
  BY DEF Corrupted, At, Known
<1>2. Used' = Used /\ Now' = Now
  BY <1>1, SlotsUsed
<1>3. /\ graph' \in [epoch: Nat, written: 0 .. Documents + 1, intact: BOOLEAN]
      /\ graph'.epoch = graph.epoch /\ graph'.written = graph.written
  BY <1>1 DEF StorageOK
<1>4. StorageOK' /\ Chained'
  BY <1>1, <1>2, <1>3 DEF StorageOK, Chained
<1>5. RecordTells'
  BY <1>2, <1>3 DEF RecordTells, GraphComplete, HandoffOpen
<1>6. SecretsOK' /\ WorldsMatch'
  BY <1>1 DEF SecretsOK, WorldsMatch
<1>7. Untouched' /\ NoneAhead'
  BY <1>1, <1>2, <1>3 DEF Untouched, NoneAhead, Known
<1>8. RootTells'
  BY <1>1 DEF RootTells, SameEpoch, Known
<1>9. Guesses'
  BY <1>1, GuessesKept DEF Known
<1>10. JobOK' /\ Ready'
  BY <1>1 DEF JobOK, Ready, AuthPlaces
<1> QED
  BY <1>4, <1>5, <1>6, <1>7, <1>8, <1>9, <1>10

\* What the observer knows of an epoch it enters.
LEMMA EnteredKnown ==
  ASSUME SecretsOK, NEW epoch \in Nat
  PROVE  /\ Entered(epoch) \in [world: Nat, tries: [Kinds -> Nat],
                                owed: [Kinds -> Nat]]
         /\ Entered(epoch).world = epoch
         /\ \A k \in Kinds : \/ /\ Entered(epoch).tries[k] = seen.tries[k]
                                /\ Entered(epoch).owed[k] = seen.owed[k]
                             \/ /\ Entered(epoch).tries[k] = 0
                                /\ Entered(epoch).owed[k] = 0
BY DEF SecretsOK, Entered, Fresh

\* Entering the runtime tells the observer which epoch it is in.
LEMMA BootRuntimeInv ==
  ASSUME BootstrapInv, BootRuntime
  PROVE  BootstrapInv'
<1>1. /\ UNCHANGED <<slots, graph>> /\ UNCHANGED <<root, creds, ctx, clock>>
      /\ job.at = "boot" /\ Initialized /\ seen' = Entered(Now.epoch)
      /\ job' = [job EXCEPT !.at = "auth", !.phase = Armed(Now),
                            !.epoch = Now.epoch]
  BY DEF BootRuntime, At
<1>2. Used # {} /\ Now.state = "Initialized"
  BY <1>1, Scans DEF Initialized, BootstrapInv, Sound
<1>3. Now \in BootRecords /\ Decodable(Now) /\ Now.epoch \in Nat
  BY <1>2, NowSound DEF BootRecords, BootstrapInv, Sound
<1>4. /\ StorageOK' /\ Chained' /\ RecordTells'
      /\ Used' = Used /\ Now' = Now
  BY <1>1, StorageSame DEF BootstrapInv, Sound
<1>5. /\ seen' \in [world: Nat, tries: [Kinds -> Nat], owed: [Kinds -> Nat]]
      /\ seen'.world = Now.epoch
      /\ \A k \in Kinds : \/ /\ seen'.tries[k] = seen.tries[k]
                             /\ seen'.owed[k] = seen.owed[k]
                          \/ seen'.tries[k] = 0 /\ seen'.owed[k] = 0
  <2>1. SecretsOK /\ Now.epoch \in Nat
    BY <1>3 DEF BootstrapInv, Sound
  <2>2. seen' = Entered(Now.epoch)
    BY <1>1
  <2> QED
    BY <2>1, <2>2, EnteredKnown
<1> USE DEF BootstrapInv, Sound
<1>6. ctx' = None
  BY <1>1 DEF Ready
<1>7. SecretsOK' /\ WorldsMatch' /\ Untouched' /\ NoneAhead'
  BY <1>1, <1>4, <1>5, <1>6
  DEF SecretsOK, WorldsMatch, Untouched, NoneAhead
<1>8. RootTells'
  BY <1>1 DEF RootTells, SameEpoch
<1>9. Guesses'
  BY <1>1, <1>5, GuessesKept
<1>10. Armed(Now) \in {"Pending", "Committed", None}
  BY <1>2, <1>3, ArmedOpen
<1>11. JobOK' /\ job'.at = "auth" /\ job'.phase = Armed(Now)
  BY <1>1, <1>3, <1>10 DEF JobOK, Jobs, Places, AuthPlaces
<1>12. HandoffReady'
  BY <1>2, <1>4, <1>5, <1>11 DEF HandoffReady
<1> QED
  BY <1>4, <1>7, <1>8, <1>9, <1>11, <1>12 DEF Ready, AuthPlaces

\* The records found are those of this epoch up to the last one written.
LEMMA PositionIs ==
  ASSUME StorageOK
  PROVE  Position = IF graph.epoch = Now.epoch THEN graph.written ELSE 0
<1> DEFINE found == {i \in 1 .. Documents + 1 : RecordKept(i)}
<1>1. Documents \in Nat /\ graph.written \in 0 .. Documents + 1
  BY BootstrapAssumption DEF StorageOK
<1>2. CASE graph.epoch = Now.epoch
  <2>1. found = 1 .. graph.written
    BY <1>1, <1>2 DEF RecordKept
  <2>2. Cardinality(1 .. graph.written) = graph.written
    <3>1. 1 \in Int /\ graph.written \in Int
      BY <1>1
    <3>2. Cardinality(1 .. graph.written) =
            IF 1 > graph.written THEN 0 ELSE graph.written - 1 + 1
      BY <3>1, FS_Interval
    <3> QED
      BY <1>1, <3>2
  <2> QED
    BY <1>2, <2>1, <2>2 DEF Position
<1>3. CASE graph.epoch # Now.epoch
  <2>1. found = {}
    BY <1>3 DEF RecordKept
  <2> QED
    BY <1>3, <2>1, FS_EmptySet DEF Position
<1> QED
  BY <1>2, <1>3

\* The next record of the graph extends the graph of this epoch.
LEMMA WriteRecordInv ==
  ASSUME BootstrapInv, job.at = "build", Position <= Documents,
         NEW o \in Outcomes, WriteRecord(o)
  PROVE  BootstrapInv'
<1> USE DEF BootstrapInv, Sound
<1>1. /\ UNCHANGED <<slots, root, creds, ctx, clock, seen>>
      /\ graph' = IF Effective(o)
                  THEN [epoch |-> Now.epoch, written |-> Position + 1,
                        intact |-> TRUE]
                  ELSE graph
      /\ GoTo(IF o = "confirmed" THEN "build" ELSE "idle")
  BY DEF WriteRecord
<1>2. BuildReady
  BY DEF Ready
<1>3. Used' = Used /\ Now' = Now /\ Used # {} /\ Now.state # "Initialized"
  BY <1>1, <1>2, SlotsUsed DEF BuildReady
<1>4. graph' \in [epoch: Nat, written: 0 .. Documents + 1, intact: BOOLEAN]
  <2>1. Position \in Nat /\ Documents \in Nat
    BY PositionIs, BootstrapAssumption DEF StorageOK
  <2>2. Now.epoch \in Nat
    BY <1>3, NowSound DEF BootRecords
  <2>3. Position + 1 \in 0 .. Documents + 1
    BY <2>1
  <2> HIDE DEF BootstrapInv, Sound
  <2>4. graph \in [epoch: Nat, written: 0 .. Documents + 1, intact: BOOLEAN]
    BY DEF BootstrapInv, Sound, StorageOK
  <2> QED
    BY <1>1, <2>2, <2>3, <2>4
<1>5. StorageOK' /\ Chained'
  BY <1>1, <1>3, <1>4 DEF StorageOK, Chained
<1>6. RecordTells'
  BY <1>3 DEF RecordTells, HandoffOpen
<1>7. SecretsOK' /\ WorldsMatch' /\ Untouched' /\ NoneAhead'
  BY <1>1, <1>3 DEF SecretsOK, WorldsMatch, Untouched, NoneAhead
<1>8. RootTells'
  BY <1>1 DEF RootTells, SameEpoch
<1>9. Guesses'
  BY <1>1, GuessesKept
<1>10. CASE o = "confirmed"
  <2>1. JobOK' /\ job'.at = "build" /\ job'.reset = job.reset
    BY <1>1, <1>10, JobMoves DEF Places
  <2>2. BuildReady'
    BY <1>1, <1>2, <1>3, <2>1 DEF BuildReady
  <2> QED
    BY <1>5, <1>6, <1>7, <1>8, <1>9, <2>1, <2>2 DEF Ready, AuthPlaces
<1>11. CASE o # "confirmed"
  <2>1. JobOK' /\ Ready'
    BY <1>1, <1>11, StopReady DEF Stop
  <2> QED
    BY <1>5, <1>6, <1>7, <1>8, <1>9, <2>1
<1> QED
  BY <1>10, <1>11

\* Building writes one record after the other.
LEMMA BuildInv ==
  ASSUME BootstrapInv, NEW o \in Outcomes, Build(o) \/ BuildRoot(o)
  PROVE  BootstrapInv'
<1>1. /\ job.at = "build" /\ WriteRecord(o)
      /\ Position < Documents \/ Position = Documents
  BY DEF Build, BuildRoot, At
<1>2. Position \in Nat /\ Documents \in Nat
  BY PositionIs, BootstrapAssumption DEF BootstrapInv, Sound, StorageOK
<1>3. Position <= Documents
  BY <1>1, <1>2
<1> QED
  BY <1>1, <1>3, WriteRecordInv

\* A graph that is written to its root is published.
LEMMA PublishInv ==
  ASSUME BootstrapInv, Publish
  PROVE  BootstrapInv'
<1>1. /\ UNCHANGED data /\ job.at = "build" /\ Position = Documents + 1
      /\ GoTo("finalize")
  BY DEF Publish, Activated, data, At
<1>2. Sound' /\ Used' = Used /\ Now' = Now
  BY <1>1, SoundSame DEF BootstrapInv
<1>3. GraphComplete
  BY <1>1, PositionIs, BootstrapAssumption
  DEF BootstrapInv, Sound, GraphComplete
<1>4. JobOK' /\ job'.at = "finalize" /\ job'.reset = job.reset
  BY <1>1, JobMoves DEF BootstrapInv, Places
<1>5. GraphComplete'
  BY <1>1, <1>2, <1>3 DEF GraphComplete, data
<1>6. BuildReady'
  BY <1>1, <1>2, <1>4, <1>5 DEF BootstrapInv, Ready, BuildReady, data
<1> QED
  BY <1>2, <1>4, <1>6 DEF BootstrapInv, Ready, AuthPlaces

-----------------------------------------------------------------------------
(* Writes of the bootstrap record.                                         *)

\* A record that may be written keeps the storage sound, whatever becomes of
\* the write.
LEMMA SlotWriteSound ==
  ASSUME Sound, NEW r \in BootRecords, NEW o, Allowed(r), WriteBound(r, o),
         UNCHANGED <<graph, root, creds>>,
         SecretsOK', WorldsMatch', Guesses',
         ctx' = ctx \/ ctx' = None,
         Used # {} => Now.epoch <= r.epoch,
         r.state = "Initialized" =>
            graph.epoch = r.epoch /\ graph.written = Documents + 1,
         r.handoff \in {"Pending", "Committed"} => r.auth = "None"
  PROVE  Sound'
<1> USE DEF Sound
<1>1. Written(r, o)
  BY WriteEffect
<1>2. StorageOK' /\ Chained'
  BY <1>1 DEF Written, StorageOK, SlotPairs
<1>3. Untouched'
  BY <1>1 DEF Written, Untouched
<1>4. RecordTells'
  <2>1. CASE Effective(o)
    BY <1>1, <2>1 DEF Written, RecordTells, GraphComplete, HandoffOpen
  <2>2. CASE ~Effective(o)
    BY <1>1, <2>2 DEF Written, RecordTells, GraphComplete, HandoffOpen
  <2> QED
    BY <2>1, <2>2
<1>5. NoneAhead'
  <2>1. CASE Effective(o) /\ Used # {}
    <3>1. Now.epoch \in Nat /\ r.epoch \in Nat
      BY <2>1, NowSound DEF BootRecords
    <3>2. /\ ctx # None => ctx.epoch \in Nat
          /\ Known(root) => root.epoch \in Nat
          /\ Known(creds) => creds.epoch \in Nat
      BY DEF SecretsOK, AuthContexts, Known, Roots, Credentials
    <3>3. /\ ctx # None => ctx.epoch <= r.epoch
          /\ Known(root) => root.epoch <= r.epoch
          /\ Known(creds) => creds.epoch <= r.epoch
      BY <2>1, <3>1, <3>2 DEF NoneAhead
    <3> QED
      BY <1>1, <2>1, <3>3 DEF Written, NoneAhead, Known
  <2>2. CASE Effective(o) /\ Used = {}
    BY <2>2 DEF Untouched, NoneAhead, Known
  <2>3. CASE ~Effective(o)
    BY <1>1, <2>3 DEF Written, NoneAhead, Known
  <2> QED
    BY <2>1, <2>2, <2>3
<1>6. RootTells'
  BY DEF RootTells, SameEpoch
<1> QED
  BY <1>2, <1>3, <1>4, <1>5, <1>6

\* The usual case: nothing else changes.
LEMMA RecordWriteSound ==
  ASSUME Sound, NEW r \in BootRecords, NEW o, Allowed(r), WriteBound(r, o),
         UNCHANGED <<graph, root, creds, ctx, clock, seen>>,
         Used # {} => Now.epoch <= r.epoch,
         r.state = "Initialized" =>
            graph.epoch = r.epoch /\ graph.written = Documents + 1,
         r.handoff \in {"Pending", "Committed"} => r.auth = "None"
  PROVE  Sound' /\ Written(r, o)
<1>1. SecretsOK' /\ WorldsMatch'
  BY DEF Sound, SecretsOK, WorldsMatch
<1>2. Guesses'
  BY GuessesKept
<1>3. Written(r, o)
  BY WriteEffect DEF Sound
<1> QED
  BY <1>1, <1>2, <1>3, SlotWriteSound

\* The first record of an empty device opens epoch 1.
LEMMA BootEmptyInv ==
  ASSUME BootstrapInv, NEW o \in Outcomes, BootEmpty(o)
  PROVE  BootstrapInv'
<1> DEFINE r == Record(1, 1, "Initializing", 2)
<1>1. /\ job.at = "boot" /\ ScanStatus = "Empty" /\ WriteBound(r, o)
      /\ UNCHANGED <<graph, root, creds, ctx, clock, seen>>
      /\ GoTo(IF o = "confirmed" THEN "build" ELSE "idle")
  BY DEF BootEmpty, At
<1>2. Used = {} /\ ctx = None
  BY <1>1, Scans DEF BootstrapInv, Sound, Ready
<1>3. /\ r \in BootRecords /\ r.seq = 1 /\ r.state = "Initializing"
      /\ r.handoff = "None"
  BY DEF Record, BootRecords
<1> HIDE DEF r
<1>4. Allowed(r)
  BY <1>2, <1>3 DEF Allowed
<1>5. Sound' /\ Written(r, o)
  BY <1>1, <1>2, <1>3, <1>4, RecordWriteSound DEF BootstrapInv
<1>6. CASE o = "confirmed"
  <2>1. JobOK' /\ job'.at = "build"
    BY <1>1, <1>6, JobMoves DEF BootstrapInv, Places
  <2>2. BuildReady'
    BY <1>1, <1>2, <1>3, <1>5, <1>6, <2>1 DEF BuildReady, Written, Effective
  <2> QED
    BY <1>5, <2>1, <2>2 DEF BootstrapInv, Ready, AuthPlaces
<1>7. CASE o # "confirmed"
  BY <1>1, <1>5, <1>7, StopReady DEF BootstrapInv, Stop
<1> QED
  BY <1>6, <1>7

\* A factory reset opens the next epoch.
LEMMA ResetBeginInv ==
  ASSUME BootstrapInv, NEW o \in Outcomes, ResetBegin(o)
  PROVE  BootstrapInv'
<1> DEFINE r == NextState(Now, "Resetting")
<1>1. /\ job.at = "idle" /\ Initialized
      /\ IF Allowed(r) THEN WriteBound(r, o)
         ELSE o = "failed" /\ UNCHANGED <<slots, trouble>>
      /\ UNCHANGED <<graph, root, creds, ctx, clock, seen>>
      /\ job' = IF o = "confirmed"
                THEN [job EXCEPT !.at = "build", !.reset = TRUE,
                                 !.admitted = FALSE]
                ELSE [job EXCEPT !.admitted = FALSE]
  BY DEF ResetBegin, ResetEligible, At
<1>2. Used # {}
  BY <1>1, Scans DEF BootstrapInv, Sound, Initialized
<1>3. Now \in BootRecords /\ Now.epoch \in Nat
  BY <1>2, NowSound DEF BootstrapInv, Sound, BootRecords
<1>4. /\ r \in BootRecords /\ r.epoch = Now.epoch + 1
      /\ r.state = "Resetting" /\ r.handoff = "None"
  BY <1>3, NextResetFields
<1> HIDE DEF r
<1>5. /\ JobOK'
      /\ o = "confirmed" => job'.at = "build" /\ job'.reset
      /\ o # "confirmed" => job'.at = "idle"
  BY <1>1 DEF BootstrapInv, JobOK, Jobs, Places
<1>6. CASE Allowed(r)
  <2>1. Now.epoch <= r.epoch
    BY <1>3, <1>4
  <2>2. Sound' /\ Written(r, o)
    BY <1>1, <1>4, <1>6, <2>1, RecordWriteSound DEF BootstrapInv
  <2>3. CASE o = "confirmed"
    <3>1. BuildReady'
      BY <1>4, <1>5, <2>2, <2>3 DEF BuildReady, Written, Effective
    <3> QED
      BY <1>5, <2>2, <2>3, <3>1 DEF BootstrapInv, Ready, AuthPlaces
  <2>4. CASE o # "confirmed"
    BY <1>5, <2>2, <2>4, IdleReady DEF BootstrapInv
  <2> QED
    BY <2>3, <2>4
<1>7. CASE ~Allowed(r)
  <2>1. UNCHANGED data /\ o # "confirmed"
    BY <1>1, <1>7 DEF data
  <2> QED
    BY <1>5, <2>1, SoundSame, IdleReady DEF BootstrapInv
<1> QED
  BY <1>6, <1>7

\* The record Initialized comes after the published graph.
LEMMA FinalizeInv ==
  ASSUME BootstrapInv, NEW o \in Outcomes, Finalize(o)
  PROVE  BootstrapInv'
<1> DEFINE r == NextState(Now, "Initialized")
<1>1. /\ job.at = "finalize" /\ Allowed(r) /\ WriteBound(r, o)
      /\ UNCHANGED <<graph, root, creds>>
      /\ o = "confirmed" =>
           /\ job' = [job EXCEPT !.at = IF job.reset THEN "handoff" ELSE "auth",
                                 !.phase = Armed(r),
                                 !.epoch = IF job.reset THEN job.epoch
                                           ELSE r.epoch]
           /\ seen' = Entered(r.epoch)
           /\ ctx' = DomainAfter.ctx /\ clock' = DomainAfter.clock
      /\ o # "confirmed" => Stop /\ UNCHANGED <<ctx, clock, seen>>
  BY DEF Finalize, At
<1>2. BuildReady /\ GraphComplete
  BY <1>1 DEF BootstrapInv, Ready, BuildReady
<1>3. /\ Used # {} /\ Now.state # "Initialized"
      /\ Now \in BootRecords /\ Decodable(Now) /\ Now.epoch \in Nat
  BY <1>2, NowSound DEF BootstrapInv, Sound, BuildReady, BootRecords
<1>4. /\ r \in BootRecords /\ Encodable(r) /\ r.state = "Initialized"
      /\ r.epoch = Now.epoch /\ r.auth = "None"
  BY <1>3, EndFollows DEF Follows
<1> HIDE DEF r
<1>5. /\ graph.epoch = r.epoch /\ graph.written = Documents + 1
      /\ Now.epoch <= r.epoch
  BY <1>2, <1>3, <1>4 DEF GraphComplete
<1>6. CASE o # "confirmed"
  <2>1. Sound'
    BY <1>1, <1>4, <1>5, <1>6, RecordWriteSound DEF BootstrapInv
  <2> QED
    BY <1>1, <1>6, <2>1, StopReady DEF BootstrapInv
<1>7. CASE o = "confirmed"
  <2>1. ctx' = None
    BY <1>1, <1>2, <1>7 DEF DomainAfter, DomainAfterReset, BuildReady
  <2>2. \/ clock' = clock
        \/ clock' = [k \in Kinds |-> None]
    BY <1>1, <1>7 DEF DomainAfter, DomainAfterReset
  <2>3. clock' \in [Kinds -> LockClocks \cup {None}]
        /\ \A k \in Kinds : clock'[k] = clock[k] \/ clock'[k] = None
    BY <2>2 DEF BootstrapInv, Sound, SecretsOK
  <2>4. /\ seen' \in [world: Nat, tries: [Kinds -> Nat], owed: [Kinds -> Nat]]
        /\ seen'.world = r.epoch
        /\ \A k \in Kinds : \/ /\ seen'.tries[k] = seen.tries[k]
                               /\ seen'.owed[k] = seen.owed[k]
                            \/ seen'.tries[k] = 0 /\ seen'.owed[k] = 0
    <3>1. SecretsOK /\ r.epoch \in Nat
      BY <1>3, <1>4 DEF BootstrapInv, Sound
    <3>2. seen' = Entered(r.epoch)
      BY <1>1, <1>7
    <3> QED
      BY <3>1, <3>2, EnteredKnown, ZenonT(30)
  <2>5. SecretsOK' /\ WorldsMatch'
    BY <1>1, <2>1, <2>3, <2>4 DEF BootstrapInv, Sound, SecretsOK, WorldsMatch
  <2>6. Guesses'
    BY <1>1, <2>3, <2>4, GuessesKept DEF BootstrapInv
  <2>7. Sound'
    BY <1>1, <1>4, <1>5, <2>1, <2>5, <2>6, SlotWriteSound DEF BootstrapInv
  <2>8. Used' # {} /\ Now' = r
    BY <1>1, <1>4, <1>7, WriteEffect
    DEF BootstrapInv, Sound, Written, Effective
  <2>9. Armed(r) \in {"Pending", "Committed", None}
    BY <1>4, ArmedOpen, PlausibleCases
  <2>10. /\ JobOK' /\ job'.at \in {"handoff", "auth"}
         /\ job'.phase = Armed(r)
    <3>1. r.epoch \in Nat
      BY <1>3, <1>4
    <3> QED
      BY <1>1, <1>7, <2>9, <3>1
      DEF BootstrapInv, JobOK, Jobs, Places, AuthPlaces
  <2>11. HandoffReady'
    BY <1>4, <2>4, <2>8, <2>10 DEF HandoffReady
  <2> QED
    BY <2>7, <2>10, <2>11 DEF BootstrapInv, Ready, AuthPlaces
<1> QED
  BY <1>6, <1>7

-----------------------------------------------------------------------------
(* The handoffs.                                                           *)

\* What a handoff finds.
LEMMA HandoffFinds ==
  ASSUME BootstrapInv, job.at \in AuthPlaces \cup {"handoff"}
  PROVE  /\ HandoffReady /\ Used # {} /\ Now.state = "Initialized"
         /\ Now \in BootRecords /\ Decodable(Now) /\ Now.epoch \in Nat
         /\ job.phase = Armed(Now) /\ seen.world = Now.epoch
<1>1. HandoffReady
  BY DEF BootstrapInv, Ready
<1>2. Used # {}
  BY <1>1 DEF HandoffReady
<1>3. Now \in BootRecords /\ Decodable(Now)
  BY <1>2, NowSound DEF BootstrapInv, Sound
<1> QED
  BY <1>1, <1>2, <1>3 DEF HandoffReady, BootRecords

\* A record written in a handoff.
LEMMA HandoffWriteSound ==
  ASSUME BootstrapInv, job.at \in AuthPlaces \cup {"handoff"},
         NEW r \in BootRecords, NEW o, Allowed(r), WriteBound(r, o),
         UNCHANGED <<graph, root, creds, ctx, clock, seen>>,
         r.epoch = Now.epoch,
         r.handoff \in {"Pending", "Committed"} => r.auth = "None"
  PROVE  Sound' /\ Written(r, o)
<1>1. Used # {} /\ Now.state = "Initialized" /\ Now.epoch \in Nat
  BY HandoffFinds
<1>2. graph.epoch = r.epoch /\ graph.written = Documents + 1
  BY <1>1 DEF BootstrapInv, Sound, RecordTells, GraphComplete
<1>3. Now.epoch <= r.epoch
  BY <1>1
<1> QED
  BY <1>2, <1>3, RecordWriteSound DEF BootstrapInv

\* An open handoff of the run store comes before the one of the domain.
LEMMA HandoffFirst ==
  ASSUME BootstrapInv, job.at \in AuthPlaces \cup {"handoff"},
         job.phase # None
  PROVE  Now.auth = "None"
<1>1. /\ Used # {} /\ Now.state = "Initialized" /\ Now \in BootRecords
      /\ Decodable(Now) /\ Armed(Now) # None
  BY HandoffFinds
<1>2. Now.handoff \in {"Pending", "Committed"}
  BY <1>1, ArmedOpen
<1> QED
  BY <1>1, <1>2 DEF BootstrapInv, Sound, RecordTells, HandoffOpen

\* A pending run handoff is committed.
LEMMA HandoffCommitInv ==
  ASSUME BootstrapInv, NEW o \in Outcomes, HandoffCommit(o)
  PROVE  BootstrapInv'
<1> DEFINE r == Successor(Now, "Initialized", "Committed")
<1>1. /\ job.at = "handoff" /\ job.phase = "Pending" /\ Allowed(r)
      /\ WriteBound(r, o)
      /\ UNCHANGED <<graph, root, creds, ctx, clock, seen>>
      /\ o = "confirmed" => job' = [job EXCEPT !.phase = "Committed"]
      /\ o # "confirmed" => Stop
  BY DEF HandoffCommit, At
<1>2. /\ Now.state = "Initialized" /\ Now \in BootRecords /\ Decodable(Now)
      /\ Armed(Now) = "Pending" /\ seen.world = Now.epoch
  BY <1>1, HandoffFinds
<1>3. Now.auth = "None"
  BY <1>1, HandoffFirst, AbsentAssumption
<1>4. /\ r \in BootRecords /\ r.state = "Initialized" /\ r.epoch = Now.epoch
      /\ r.auth = "None" /\ Armed(r) = "Committed"
  BY <1>2, <1>3, HandoffFollows DEF Follows
<1> HIDE DEF r
<1>5. Sound' /\ Written(r, o)
  BY <1>1, <1>4, HandoffWriteSound
<1>6. CASE o = "confirmed"
  <2>1. JobOK' /\ job'.at = "handoff" /\ job'.phase = "Committed"
    BY <1>1, <1>6 DEF BootstrapInv, JobOK, Jobs
  <2>2. HandoffReady'
    BY <1>1, <1>2, <1>4, <1>5, <1>6, <2>1
    DEF HandoffReady, Written, Effective
  <2> QED
    BY <1>5, <2>1, <2>2 DEF BootstrapInv, Ready, AuthPlaces
<1>7. CASE o # "confirmed"
  BY <1>1, <1>5, <1>7, StopReady DEF BootstrapInv
<1> QED
  BY <1>6, <1>7

\* A committed run handoff is consumed.
LEMMA HandoffConsumeInv ==
  ASSUME BootstrapInv, NEW o \in Outcomes, HandoffConsume(o)
  PROVE  BootstrapInv'
<1> DEFINE r == Successor(Now, "Initialized", "Consumed")
<1>1. /\ job.at = "handoff" /\ job.phase = "Committed" /\ Allowed(r)
      /\ WriteBound(r, o)
      /\ UNCHANGED <<graph, root, creds, ctx, clock, seen>>
      /\ job.reset /\ o = "confirmed" =>
           job' = [job EXCEPT !.at = "auth", !.phase = None,
                              !.epoch = Now.epoch]
      /\ ~(job.reset /\ o = "confirmed") => Stop
  BY DEF HandoffConsume, At
<1>2. /\ Now.state = "Initialized" /\ Now \in BootRecords /\ Decodable(Now)
      /\ Armed(Now) = "Committed" /\ seen.world = Now.epoch
      /\ Now.epoch \in Nat
  BY <1>1, HandoffFinds
<1>3. Now.auth = "None"
  BY <1>1, HandoffFirst, AbsentAssumption
<1>4. /\ r \in BootRecords /\ r.state = "Initialized" /\ r.epoch = Now.epoch
      /\ r.auth = "None" /\ Armed(r) = None
  BY <1>2, <1>3, HandoffFollows DEF Follows
<1> HIDE DEF r
<1>5. Sound' /\ Written(r, o)
  BY <1>1, <1>4, HandoffWriteSound
<1>6. CASE job.reset /\ o = "confirmed"
  <2>1. JobOK' /\ job'.at = "auth" /\ job'.phase = None
    BY <1>1, <1>2, <1>6 DEF BootstrapInv, JobOK, Jobs, Places, AuthPlaces
  <2>2. HandoffReady'
    BY <1>1, <1>2, <1>4, <1>5, <1>6, <2>1
    DEF HandoffReady, Written, Effective
  <2> QED
    BY <1>5, <2>1, <2>2 DEF BootstrapInv, Ready, AuthPlaces
<1>7. CASE ~(job.reset /\ o = "confirmed")
  BY <1>1, <1>5, <1>7, StopReady DEF BootstrapInv
<1> QED
  BY <1>6, <1>7

\* A run store that cannot be prepared ends the boot.
LEMMA HandoffFailsInv ==
  ASSUME BootstrapInv, HandoffFails
  PROVE  BootstrapInv'
BY EndingInv DEF HandoffFails, data

\* After a write in the access domain's handoff, confirmed or not, the boot
\* goes on where it can.
LEMMA AuthWrittenReady ==
  ASSUME BootstrapInv, job.at \in AuthPlaces,
         NEW r, NEW o, NEW place \in Places,
         Written(r, o), UNCHANGED <<creds, seen>>, GoTo(place),
         r.state = "Initialized", r.epoch = Now.epoch, Armed(r) = Armed(Now),
         \/ place \in {AfterAuth, "authCheck"}
         \/ /\ o = "confirmed" /\ r.auth = "InProgress"
            /\ place \in {"authRoot", "authGiveUp"}
            /\ place = "authRoot" => ~(Known(creds) /\ creds.epoch = Now.epoch)
  PROVE  JobOK' /\ Ready'
<1>1. /\ HandoffReady /\ Used # {} /\ Now.state = "Initialized"
      /\ job.phase = Armed(Now) /\ seen.world = Now.epoch
  BY HandoffFinds
<1>2. /\ Used' # {} /\ Now'.state = "Initialized" /\ Now'.epoch = Now.epoch
      /\ Armed(Now') = Armed(Now)
      /\ Effective(o) => Now' = r
  BY <1>1 DEF Written
<1>3. /\ JobOK' /\ job'.at = place
      /\ place # "idle" => job'.phase = job.phase
  BY JobMoves DEF BootstrapInv
<1>4. CASE place = "idle"
  BY <1>3, <1>4, IdleReady
<1>5. CASE place \in {"handoff", "authCheck"}
  <2>1. HandoffReady'
    BY <1>1, <1>2, <1>3, <1>5 DEF HandoffReady
  <2> QED
    BY <1>3, <1>5, <2>1 DEF Ready, AuthPlaces
<1>6. CASE /\ o = "confirmed" /\ r.auth = "InProgress"
           /\ place \in {"authRoot", "authGiveUp"}
           /\ place = "authRoot" => ~(Known(creds) /\ creds.epoch = Now.epoch)
  <2>1. HandoffReady'
    BY <1>1, <1>2, <1>3, <1>6 DEF HandoffReady, Effective
  <2> QED
    BY <1>3, <1>6, <2>1 DEF Ready, AuthPlaces
<1> QED
  BY <1>4, <1>5, <1>6 DEF AfterAuth

\* One write of the access handoff moves it along its order.
LEMMA AuthWriteInv ==
  ASSUME BootstrapInv, NEW o \in Outcomes, NEW a, NEW place,
         job.at \in AuthPlaces, <<Now.auth, a>> \in AuthSteps,
         AuthWrite(a, o, place),
         \/ place \in {AfterAuth, "authCheck"}
         \/ /\ a = "InProgress" /\ place \in {"authRoot", "authGiveUp"}
            /\ place = "authRoot" => ~(Known(creds) /\ creds.epoch = Now.epoch)
  PROVE  BootstrapInv'
<1> DEFINE r == NextAuth(Now, a)
           next == IF o = "confirmed" THEN place ELSE AfterAuth
<1>1. /\ Allowed(r) /\ WriteBound(r, o) /\ GoTo(next)
      /\ UNCHANGED <<graph, root, creds, ctx, clock, seen>>
  BY DEF AuthWrite
<1>2. /\ Used # {} /\ Now.state = "Initialized" /\ Now \in BootRecords
      /\ Decodable(Now)
  BY HandoffFinds
<1>3. Follows(Now, r) /\ Now.schema = 3
  BY <1>2, AuthFollows
<1>4. /\ r \in BootRecords /\ r.epoch = Now.epoch /\ r.state = "Initialized"
      /\ r.handoff = Now.handoff /\ r.auth = a /\ Armed(r) = Armed(Now)
  BY <1>2, <1>3, NextAuthFields, NextAuthArmed DEF Follows
<1>5. r.handoff \notin {"Pending", "Committed"}
  <2>1. Now.auth # "None"
    BY DEF AuthSteps
  <2> QED
    BY <1>2, <1>4, <2>1 DEF BootstrapInv, Sound, RecordTells, HandoffOpen
<1> HIDE DEF r
<1>6. Sound' /\ Written(r, o)
  BY <1>1, <1>4, <1>5, HandoffWriteSound
<1>7. next \in Places
  BY DEF Places, AuthPlaces, AfterAuth
<1> HIDE DEF next
<1>8. \/ next \in {AfterAuth, "authCheck"}
      \/ /\ o = "confirmed" /\ r.auth = "InProgress"
         /\ next \in {"authRoot", "authGiveUp"}
         /\ next = "authRoot" => ~(Known(creds) /\ creds.epoch = Now.epoch)
  BY <1>4 DEF next
<1>9. JobOK' /\ Ready'
  BY <1>1, <1>4, <1>6, <1>7, <1>8, AuthWrittenReady
<1> QED
  BY <1>6, <1>9 DEF BootstrapInv

\* The four writes of the access handoff are such moves.
LEMMA AuthStepInv ==
  ASSUME BootstrapInv, NEW o \in Outcomes,
         AuthSpoil(o) \/ AuthStart(o) \/ AuthConsume(o) \/ AuthGiveUp(o)
  PROVE  BootstrapInv'
<1>1. CASE AuthSpoil(o)
  <2>1. job.at = "authSpoil" /\ AuthWrite("InProgress", o, "authGiveUp")
    BY <1>1 DEF AuthSpoil, At
  <2>2. <<Now.auth, "InProgress">> \in AuthSteps
    BY <2>1, HandoffFinds DEF AuthPlaces, HandoffReady, AuthSteps
  <2> QED
    BY <2>1, <2>2, AuthWriteInv DEF AuthPlaces
<1>2. CASE AuthStart(o)
  <2>1. job.at = "authStart" /\ AuthWrite("InProgress", o, "authRoot")
    BY <1>2 DEF AuthStart, At
  <2>2. /\ <<Now.auth, "InProgress">> \in AuthSteps
        /\ ~(Known(creds) /\ creds.epoch = Now.epoch)
    BY <2>1, HandoffFinds DEF AuthPlaces, HandoffReady, AuthSteps
  <2> QED
    BY <2>1, <2>2, AuthWriteInv DEF AuthPlaces
<1>3. CASE AuthConsume(o)
  <2>1. job.at = "authConsume" /\ AuthWrite("Consumed", o, "authCheck")
    BY <1>3 DEF AuthConsume, At
  <2>2. <<Now.auth, "Consumed">> \in AuthSteps
    BY <2>1, HandoffFinds DEF AuthPlaces, HandoffReady, AuthSteps
  <2> QED
    BY <2>1, <2>2, AuthWriteInv DEF AuthPlaces
<1>4. CASE AuthGiveUp(o)
  <2>1. job.at = "authGiveUp" /\ AuthWrite("Indeterminate", o, AfterAuth)
    BY <1>4 DEF AuthGiveUp, At
  <2>2. <<Now.auth, "Indeterminate">> \in AuthSteps
    BY <2>1, HandoffFinds DEF AuthPlaces, HandoffReady, AuthSteps
  <2> QED
    BY <2>1, <2>2, AuthWriteInv DEF AuthPlaces
<1> QED
  BY <1>1, <1>2, <1>3, <1>4

\* A boot that finds no handoff of the access domain opens one.
LEMMA AuthOpenInv ==
  ASSUME BootstrapInv, NEW o \in Outcomes, AuthOpen(o)
  PROVE  BootstrapInv'
<1> DEFINE r == NextAuth(Now, "Unconsumed")
<1>1. /\ job.at = "auth" /\ AuthEligible(Now)
      /\ Inventory(Now.epoch, Prior(Now))
      /\ Allowed(r) /\ WriteBound(r, o)
      /\ UNCHANGED <<graph, root, creds, ctx, clock, seen>>
      /\ o = "confirmed" =>
           job' = [job EXCEPT !.at = "authStart", !.replace = Prior(Now)]
      /\ o # "confirmed" => GoTo(AfterAuth)
  BY DEF AuthOpen, AuthEnds, At
<1>2. /\ HandoffReady /\ Used # {} /\ Now.state = "Initialized"
      /\ Now \in BootRecords /\ Decodable(Now)
      /\ job.phase = Armed(Now) /\ seen.world = Now.epoch
  BY <1>1, HandoffFinds DEF AuthPlaces
<1>3. /\ r \in BootRecords /\ r.seq = Now.seq + 1 /\ r.epoch = Now.epoch
      /\ r.state = "Initialized" /\ r.schema = 3
      /\ r.handoff = Now.handoff /\ r.auth = "Unconsumed"
  BY <1>2, NextAuthFields
<1>4. Now.schema # 1
  <2>1. IsAllowedSuccessor(Now, r) /\ Encodable(r)
    BY <1>1, <1>2 DEF Allowed, WriteBound
  <2> HIDE DEF r
  <2> QED
    BY <1>2, <1>3, <2>1, SuccessorCases
<1>5. Armed(r) = Armed(Now)
  BY <1>2, <1>4, NextAuthArmed
<1> HIDE DEF r
<1>6. r.handoff \notin {"Pending", "Committed"}
  BY <1>1, <1>3 DEF AuthEligible
<1>7. Sound' /\ Written(r, o)
  BY <1>1, <1>3, <1>6, HandoffWriteSound DEF AuthPlaces
<1>8. CASE o = "confirmed"
  <2>1. Prior(Now) \in BOOLEAN
    BY <1>2, PriorBoolean
  <2>2. JobOK' /\ job'.at = "authStart" /\ job'.phase = job.phase
    BY <1>1, <1>8, <2>1 DEF BootstrapInv, JobOK, Jobs, Places, AuthPlaces
  <2>3. ~(Known(creds) /\ creds.epoch = Now.epoch)
    BY <1>1, InventoryOther
  <2>4. Used' # {} /\ Now' = r
    BY <1>7, <1>8 DEF Written, Effective
  <2>5. HandoffReady'
    BY <1>1, <1>2, <1>3, <1>5, <2>2, <2>3, <2>4 DEF HandoffReady
  <2> QED
    BY <1>7, <2>2, <2>5 DEF BootstrapInv, Ready, AuthPlaces
<1>9. CASE o # "confirmed"
  <2>1. AfterAuth \in Places
    BY DEF AfterAuth, Places
  <2>2. JobOK' /\ Ready'
    BY <1>1, <1>3, <1>5, <1>7, <1>9, <2>1, AuthWrittenReady DEF AuthPlaces
  <2> QED
    BY <1>7, <2>2 DEF BootstrapInv
<1> QED
  BY <1>8, <1>9

\* A new domain starts unprovisioned and bound to its handoff.
LEMMA AuthRootInv ==
  ASSUME BootstrapInv, NEW o \in Outcomes, AuthRoot(o)
  PROVE  BootstrapInv'
<1> DEFINE new == [epoch |-> Now.epoch, state |-> "Unprovisioned",
                   binding |-> Now.authSeq]
           place == IF o = "confirmed" THEN "authConsume" ELSE "authGiveUp"
<1>1. /\ job.at = "authRoot" /\ UNCHANGED <<slots, graph>>
      /\ UNCHANGED <<creds, ctx, clock, seen>> /\ GoTo(place)
      /\ root' = IF Effective(o) THEN new ELSE root
  BY DEF AuthRoot, At
<1>2. /\ HandoffReady /\ Used # {} /\ Now.state = "Initialized"
      /\ Now \in BootRecords /\ Now.epoch \in Nat
      /\ job.phase = Armed(Now) /\ seen.world = Now.epoch
  BY <1>1, HandoffFinds DEF AuthPlaces
<1>3. /\ new \in Roots /\ new.epoch = Now.epoch /\ new.state = "Unprovisioned"
      /\ new \notin {Absent, Corrupt}
  <2>1. new \in Roots /\ new.epoch = Now.epoch /\ new.state = "Unprovisioned"
    BY <1>2 DEF Roots, BootRecords
  <2> QED
    BY <2>1, AbsentAssumption
<1> HIDE DEF new
<1>4. /\ Now.auth = "InProgress"
      /\ ~(Known(creds) /\ creds.epoch = Now.epoch)
  BY <1>1, <1>2 DEF HandoffReady
<1>5. /\ StorageOK' /\ Chained' /\ RecordTells'
      /\ Used' = Used /\ Now' = Now
  BY <1>1, StorageSame DEF BootstrapInv
<1>6. SecretsOK' /\ WorldsMatch' /\ Untouched'
  BY <1>1, <1>2, <1>3, <1>5
  DEF BootstrapInv, Sound, SecretsOK, WorldsMatch, Untouched
<1>7. NoneAhead'
  BY <1>1, <1>2, <1>3, <1>5 DEF BootstrapInv, Sound, NoneAhead, Known
<1>8. RootTells'
  BY <1>1, <1>3, <1>4 DEF BootstrapInv, Sound, RootTells, SameEpoch, Known
<1>9. Guesses'
  BY <1>1, GuessesKept DEF BootstrapInv
<1>10. /\ JobOK' /\ job'.at \in {"authConsume", "authGiveUp"}
       /\ job'.phase = job.phase
  BY <1>1, JobMoves DEF BootstrapInv, Places, AuthPlaces
<1>11. HandoffReady'
  BY <1>1, <1>2, <1>4, <1>5, <1>10 DEF HandoffReady
<1> QED
  BY <1>5, <1>6, <1>7, <1>8, <1>9, <1>10, <1>11
  DEF BootstrapInv, Sound, Ready, AuthPlaces

\* The check at the end of the boot opens the access domain or does not.
LEMMA AuthCheckInv ==
  ASSUME BootstrapInv, AuthCheck
  PROVE  BootstrapInv'
<1> DEFINE new == [epoch |-> Now.epoch, binding |-> Now.authSeq,
                   replace |-> job.replace]
<1>1. /\ job.at \in AuthPlaces /\ UNCHANGED <<slots, graph>>
      /\ UNCHANGED <<root, creds, clock, seen>> /\ GoTo(AfterAuth)
      /\ ctx' = new \/ ctx' = None
  BY DEF AuthCheck, AuthEnds, At, AuthPlaces
<1>2. /\ HandoffReady /\ Used # {} /\ Now.state = "Initialized"
      /\ Now \in BootRecords /\ Now.epoch \in Nat
      /\ job.phase = Armed(Now) /\ seen.world = Now.epoch
  BY <1>1, HandoffFinds
<1>3. new \in AuthContexts /\ new.epoch = Now.epoch
  BY <1>2 DEF AuthContexts, BootRecords, BootstrapInv, JobOK, Jobs
<1> HIDE DEF new
<1>4. /\ StorageOK' /\ Chained' /\ RecordTells'
      /\ Used' = Used /\ Now' = Now
  BY <1>1, StorageSame DEF BootstrapInv
<1>5. SecretsOK' /\ WorldsMatch' /\ Untouched'
  BY <1>1, <1>2, <1>3, <1>4
  DEF BootstrapInv, Sound, SecretsOK, WorldsMatch, Untouched
<1>6. NoneAhead'
  BY <1>1, <1>2, <1>3, <1>4 DEF BootstrapInv, Sound, NoneAhead, Known
<1>7. RootTells'
  BY <1>1 DEF BootstrapInv, Sound, RootTells, SameEpoch
<1>8. Guesses'
  BY <1>1, GuessesKept DEF BootstrapInv
<1>9. JobOK' /\ Ready'
  <2>1. CASE AfterAuth = "idle"
    BY <1>1, <2>1, StopReady DEF Stop, BootstrapInv
  <2>2. CASE AfterAuth = "handoff"
    <3>1. JobOK' /\ job'.at = "handoff" /\ job'.phase = job.phase
      BY <1>1, <2>2, JobMoves DEF BootstrapInv, Places
    <3>2. HandoffReady'
      BY <1>1, <1>2, <1>4, <3>1 DEF HandoffReady
    <3> QED
      BY <3>1, <3>2 DEF Ready, AuthPlaces
  <2> QED
    BY <2>1, <2>2 DEF AfterAuth
<1> QED
  BY <1>4, <1>5, <1>6, <1>7, <1>8, <1>9 DEF BootstrapInv, Sound

-----------------------------------------------------------------------------
(* The secrets.                                                            *)

RootStates == {"Unprovisioned", "Provisioning", "Provisioned", "Indeterminate",
               "RecoveryRequired"}

\* A domain that is open has a bootstrap record, and an active root is one of
\* its epoch.
LEMMA ActiveRoot ==
  ASSUME BootstrapInv, RootActive
  PROVE  Used # {} /\ ctx # None /\ Known(root) /\ root.epoch = ctx.epoch
<1>1. ctx # None /\ ReadStatus(root, ctx.epoch) = "Success"
  BY DEF RootActive
<1>2. Known(root) /\ root.epoch = ctx.epoch
  BY <1>1 DEF ReadStatus, Known
<1> QED
  BY <1>1, <1>2 DEF BootstrapInv, Sound, Untouched

\* Active credentials are readable and of the epoch that was entered.
LEMMA ActiveCredentials ==
  ASSUME BootstrapInv, CredentialsActive
  PROVE  /\ Used # {} /\ SameEpoch /\ root.state = "Provisioned"
         /\ creds \in Credentials /\ Known(creds)
<1>1. /\ RootActive /\ root.state = "Provisioned"
      /\ ReadStatus(creds, ctx.epoch) = "Success"
  BY DEF CredentialsActive
<1>2. Used # {} /\ Known(root) /\ root.epoch = ctx.epoch
  BY <1>1, ActiveRoot
<1>3. Known(creds) /\ creds.epoch = ctx.epoch
  BY <1>1 DEF ReadStatus, Known
<1> QED
  BY <1>1, <1>2, <1>3 DEF SameEpoch, BootstrapInv, Sound, SecretsOK, Known

\* A write of the root keeps its epoch; Provisioned is only written beside
\* credentials of that epoch.
LEMMA RootWriteSound ==
  ASSUME BootstrapInv, Used # {}, Known(root), NEW state \in RootStates,
         NEW o, WriteRoot(state, o),
         UNCHANGED <<slots, graph, creds, ctx, clock, seen>>,
         state = "Provisioned" => SameEpoch, state # "Unprovisioned"
  PROVE  /\ Sound' /\ Used' # {} /\ Known(root') /\ root'.epoch = root.epoch
         /\ Effective(o) => root'.state = state
         /\ SameEpoch' <=> SameEpoch
<1>1. /\ root' = (IF Effective(o) THEN [root EXCEPT !.state = state] ELSE root)
      /\ UNCHANGED <<slots, graph>> /\ UNCHANGED <<creds, ctx, clock, seen>>
  BY DEF WriteRoot
<1>2. root \in Roots
  BY DEF BootstrapInv, Sound, SecretsOK, Known
<1>3. /\ root' \in Roots /\ root'.epoch = root.epoch
      /\ root'.state = IF Effective(o) THEN state ELSE root.state
  BY <1>1, <1>2 DEF Roots, RootStates
<1>4. Known(root')
  BY <1>3, AbsentAssumption DEF Known
<1>5. SameEpoch' <=> SameEpoch
  BY <1>1, <1>3, <1>4 DEF SameEpoch
<1>6. /\ StorageOK' /\ Chained' /\ RecordTells'
      /\ Used' = Used /\ Now' = Now
  BY <1>1, StorageSame DEF BootstrapInv
<1>7. SecretsOK' /\ WorldsMatch' /\ Untouched'
  BY <1>1, <1>3, <1>6
  DEF BootstrapInv, Sound, SecretsOK, WorldsMatch, Untouched
<1>8. NoneAhead'
  BY <1>1, <1>3, <1>4, <1>6 DEF BootstrapInv, Sound, NoneAhead, Known
<1>9. RootTells'
  BY <1>1, <1>3, <1>4, <1>5 DEF BootstrapInv, Sound, RootTells
<1>10. Guesses'
  BY <1>1, GuessesKept DEF BootstrapInv
<1> QED
  BY <1>3, <1>4, <1>5, <1>6, <1>7, <1>8, <1>9, <1>10 DEF Sound

\* Provisioning first marks the root.
LEMMA ProvisionBeginInv ==
  ASSUME BootstrapInv, NEW o \in Outcomes, ProvisionBegin(o)
  PROVE  BootstrapInv'
<1>1. /\ RootActive /\ WriteRoot("Provisioning", o)
      /\ UNCHANGED <<slots, graph, creds, ctx, clock, seen>>
      /\ GoTo(IF o = "confirmed" THEN "provision" ELSE "idle")
  BY DEF ProvisionBegin
<1>2. Used # {} /\ ctx # None /\ Known(root) /\ root.epoch = ctx.epoch
  BY <1>1, ActiveRoot
<1>3. /\ Sound' /\ Used' # {} /\ Known(root') /\ root'.epoch = root.epoch
      /\ Effective(o) => root'.state = "Provisioning"
  BY <1>1, <1>2, RootWriteSound DEF RootStates
<1>4. CASE o = "confirmed"
  <2>1. JobOK' /\ job'.at = "provision"
    BY <1>1, <1>4, JobMoves DEF BootstrapInv, Places
  <2>2. ProvisionReady'
    BY <1>1, <1>2, <1>3, <1>4 DEF ProvisionReady, Effective
  <2> QED
    BY <1>3, <2>1, <2>2 DEF BootstrapInv, Ready, AuthPlaces
<1>5. CASE o # "confirmed"
  BY <1>1, <1>3, <1>5, StopReady DEF BootstrapInv, Stop
<1> QED
  BY <1>4, <1>5

\* A provisioning that failed is taken back.
LEMMA ProvisionRevokeInv ==
  ASSUME BootstrapInv, NEW o \in Outcomes, ProvisionRevoke(o)
  PROVE  BootstrapInv'
<1>1. /\ job.at = "provisionRevoke" /\ WriteRoot("RecoveryRequired", o) /\ Stop
      /\ UNCHANGED <<slots, graph, creds, ctx, clock, seen>>
  BY DEF ProvisionRevoke, At
<1>2. Used # {} /\ Known(root)
  BY <1>1 DEF BootstrapInv, Ready, ProvisionReady
<1>3. Sound'
  BY <1>1, <1>2, RootWriteSound DEF RootStates
<1> QED
  BY <1>1, <1>3, StopReady DEF BootstrapInv

\* A root is declared provisioned once its credentials are stored.
LEMMA ProvisionEndInv ==
  ASSUME BootstrapInv, NEW o \in Outcomes, ProvisionEnd(o)
  PROVE  BootstrapInv'
<1>1. /\ job.at = "provisionEnd" /\ WriteRoot("Provisioned", o) /\ Stop
      /\ UNCHANGED <<slots, graph, creds, ctx, clock, seen>>
  BY DEF ProvisionEnd, At
<1>2. Used # {} /\ SameEpoch
  BY <1>1 DEF BootstrapInv, Ready, ChangeReady
<1>3. Sound'
  BY <1>1, <1>2, RootWriteSound DEF RootStates, SameEpoch
<1> QED
  BY <1>1, <1>3, StopReady DEF BootstrapInv

\* A change of a secret first marks the root.
LEMMA ChangeRootInv ==
  ASSUME BootstrapInv, NEW o \in Outcomes, ChangeRoot(o)
  PROVE  BootstrapInv'
<1>1. /\ job.at = "changeRoot" /\ WriteRoot("Provisioning", o)
      /\ GoTo(IF o = "confirmed" THEN "change" ELSE "idle")
      /\ UNCHANGED <<slots, graph, creds, ctx, clock, seen>>
  BY DEF ChangeRoot, At
<1>2. ChangeReady /\ Used # {} /\ SameEpoch
  BY <1>1 DEF BootstrapInv, Ready, ChangeReady
<1>3. /\ Sound' /\ Used' # {} /\ SameEpoch'
      /\ Effective(o) => root'.state = "Provisioning"
  BY <1>1, <1>2, RootWriteSound DEF RootStates, SameEpoch
<1>4. CASE o = "confirmed"
  <2>1. JobOK' /\ job'.at = "change" /\ job'.kind = job.kind
    BY <1>1, <1>4, JobMoves DEF BootstrapInv, Places
  <2>2. ChangeReady'
    BY <1>1, <1>2, <1>3, <1>4, <2>1 DEF ChangeReady, Effective
  <2> QED
    BY <1>3, <2>1, <2>2 DEF BootstrapInv, Ready, AuthPlaces
<1>5. CASE o # "confirmed"
  BY <1>1, <1>3, <1>5, StopReady DEF BootstrapInv, Stop
<1> QED
  BY <1>4, <1>5

Watch == [world: Nat, tries: [Kinds -> Nat], owed: [Kinds -> Nat]]

\* A write of the credentials or of their lockout.
LEMMA CredentialsSound ==
  ASSUME BootstrapInv, Used # {}, UNCHANGED <<slots, graph, root, ctx>>,
         creds' \in Credentials \cup {Absent, Corrupt},
         clock' \in [Kinds -> LockClocks \cup {None}],
         seen' \in Watch, seen'.world = seen.world,
         Known(creds') => creds'.epoch <= Now.epoch,
         RootTells', Guesses'
  PROVE  Sound' /\ Used' = Used /\ Now' = Now
<1>1. /\ StorageOK' /\ Chained' /\ RecordTells'
      /\ Used' = Used /\ Now' = Now
  BY StorageSame DEF BootstrapInv
<1>2. SecretsOK' /\ WorldsMatch' /\ Untouched'
  BY <1>1 DEF BootstrapInv, Sound, SecretsOK, WorldsMatch, Untouched, Watch
<1>3. NoneAhead'
  BY <1>1 DEF BootstrapInv, Sound, NoneAhead, Known
<1> QED
  BY <1>1, <1>2, <1>3 DEF Sound

\* Nothing failed, nothing is locked.
LEMMA UnlockedLock ==
  Unlocked \in Locks /\ Unlocked.failed = 0 /\ Unlocked.remaining = 0
BY BootstrapAssumption DEF Unlocked, Locks

\* One lockout of a record is replaced.
LEMMA LockReplaced ==
  ASSUME NEW c \in Credentials, NEW k \in Kinds, NEW lock \in Locks
  PROVE  LET n == [c EXCEPT !.lock[k] = lock]
         IN  /\ n \in Credentials /\ n.epoch = c.epoch
             /\ \A j \in Kinds : n.lock[j] = IF j = k THEN lock ELSE c.lock[j]
<1> DEFINE n == [c EXCEPT !.lock[k] = lock]
<1>1. c.lock \in [Kinds -> Locks]
  BY DEF Credentials
<1>2. n = [c EXCEPT !.lock = [c.lock EXCEPT ![k] = lock]]
  OBVIOUS
<1>3. [c.lock EXCEPT ![k] = lock] \in [Kinds -> Locks]
  BY <1>1
<1> HIDE DEF n
<1>4. n \in Credentials /\ n.epoch = c.epoch
      /\ n.lock = [c.lock EXCEPT ![k] = lock]
  <2> DEFINE l == [c.lock EXCEPT ![k] = lock]
  <2>1. n = [c EXCEPT !.lock = l] /\ l \in [Kinds -> Locks]
    BY <1>2, <1>3
  <2> HIDE DEF l
  <2>2. n \in Credentials /\ n.epoch = c.epoch /\ n.lock = l
    BY <2>1 DEF Credentials
  <2> QED
    BY <2>2 DEF l
<1>5. \A j \in Kinds : n.lock[j] = IF j = k THEN lock ELSE c.lock[j]
  BY <1>1, <1>4
<1> QED
  BY <1>4, <1>5 DEF n

\* An answer about secret k leaves the limits of the other one alone.
LEMMA GuessesOfOne ==
  ASSUME BootstrapInv, NEW k \in Kinds, Known(creds), Known(creds'),
         \A j \in Kinds \ {k} :
            /\ creds'.lock[j] = creds.lock[j] /\ clock'[j] = clock[j]
            /\ seen'.tries[j] = seen.tries[j] /\ seen'.owed[j] = seen.owed[j],
         seen'.tries[k] <= Attempts[k], LockKnows(k)'
  PROVE  Guesses'
<1>1. \A j \in Kinds : seen'.tries[j] <= Attempts[j]
  BY DEF BootstrapInv, Sound, Guesses
<1>2. ASSUME NEW j \in Kinds \ {k}
      PROVE  LockKnows(j)'
  <2>1. LockKnows(j)
    BY DEF BootstrapInv, Sound, Guesses
  <2>2. ClockFits(j)' <=> ClockFits(j)
    BY <1>2 DEF ClockFits
  <2> QED
    BY <1>2, <2>1, <2>2 DEF LockKnows
<1>3. \A j \in Kinds : LockKnows(j)'
  BY <1>2
<1> QED
  BY <1>1, <1>3 DEF Guesses

\* New credentials start with nobody locked out.
LEMMA ProvisionCredentialsInv ==
  ASSUME BootstrapInv, NEW o \in Outcomes, ProvisionCredentials(o)
  PROVE  BootstrapInv'
<1>1. PICK web \in BOOLEAN :
         creds' = IF Effective(o)
                  THEN [epoch |-> ctx.epoch, web |-> web,
                        lock |-> [k \in Kinds |-> Unlocked]]
                  ELSE creds
  BY DEF ProvisionCredentials
<1>2. /\ job.at = "provision" /\ UNCHANGED <<slots, graph, root, ctx, clock>>
      /\ seen' = IF Effective(o) THEN Fresh(seen.world) ELSE seen
      /\ \/ GoTo("provisionEnd") /\ o = "confirmed"
         \/ GoTo("provisionRevoke")
         \/ Stop
  BY DEF ProvisionCredentials, At
<1>3. /\ ProvisionReady /\ Used # {} /\ Known(root)
      /\ root.state = "Provisioning" /\ ctx # None /\ ctx.epoch = root.epoch
  BY <1>2 DEF BootstrapInv, Ready, ProvisionReady
<1>4. /\ ctx.epoch \in Nat /\ ctx.epoch <= Now.epoch
      /\ seen \in Watch /\ clock \in [Kinds -> LockClocks \cup {None}]
  BY <1>3 DEF BootstrapInv, Sound, SecretsOK, AuthContexts, NoneAhead, Watch
<1>5. CASE ~Effective(o)
  <2>1. UNCHANGED data
    BY <1>1, <1>2, <1>5 DEF data
  <2>2. Sound' /\ Used' = Used
    BY <2>1, SoundSame DEF BootstrapInv
  <2>3. CASE GoTo("provisionRevoke")
    <3>1. JobOK' /\ job'.at = "provisionRevoke"
      BY <2>3, JobMoves DEF BootstrapInv, Places
    <3>2. ProvisionReady'
      BY <1>2, <1>3, <2>2 DEF ProvisionReady
    <3> QED
      BY <2>2, <3>1, <3>2 DEF BootstrapInv, Ready, AuthPlaces
  <2>4. CASE Stop
    BY <2>1, <2>4, EndingInv
  <2> QED
    BY <1>2, <1>5, <2>3, <2>4 DEF Effective
<1>6. CASE Effective(o)
  <2>1. /\ creds' \in Credentials /\ creds'.epoch = ctx.epoch
        /\ \A k \in Kinds : creds'.lock[k] = Unlocked
    BY <1>1, <1>4, <1>6, UnlockedLock DEF Credentials
  <2>2. Known(creds')
    BY <2>1, AbsentAssumption DEF Known
  <2>3. /\ seen' \in Watch /\ seen'.world = seen.world
        /\ \A k \in Kinds : seen'.tries[k] = 0 /\ seen'.owed[k] = 0
    BY <1>2, <1>4, <1>6 DEF Fresh, Watch
  <2>4. Guesses'
    <3>1. \A k \in Kinds : Attempts[k] \in Nat \ {0}
      BY BootstrapAssumption
    <3> QED
      BY <2>1, <2>3, <3>1, UnlockedLock DEF Guesses, LockKnows
  <2>5. RootTells'
    BY <1>2, <1>3 DEF RootTells
  <2>6. Sound' /\ Used' = Used
    BY <1>2, <1>3, <1>4, <2>1, <2>3, <2>4, <2>5, CredentialsSound
  <2>7. SameEpoch'
    BY <1>2, <1>3, <2>1, <2>2 DEF SameEpoch
  <2>8. CASE GoTo("provisionEnd")
    <3>1. JobOK' /\ job'.at = "provisionEnd"
      BY <2>8, JobMoves DEF BootstrapInv, Places
    <3>2. ChangeReady'
      BY <1>2, <1>3, <2>6, <2>7, <3>1 DEF ChangeReady
    <3> QED
      BY <2>6, <3>1, <3>2 DEF BootstrapInv, Ready, AuthPlaces
  <2>9. CASE GoTo("provisionRevoke")
    <3>1. JobOK' /\ job'.at = "provisionRevoke"
      BY <2>9, JobMoves DEF BootstrapInv, Places
    <3>2. ProvisionReady'
      BY <1>2, <1>3, <2>6 DEF ProvisionReady
    <3> QED
      BY <2>6, <3>1, <3>2 DEF BootstrapInv, Ready, AuthPlaces
  <2>10. CASE Stop
    BY <2>6, <2>10, StopReady DEF BootstrapInv
  <2> QED
    BY <1>2, <2>8, <2>9, <2>10
<1> QED
  BY <1>5, <1>6

\* A changed secret clears its own lockout.
LEMMA ChangeCredentialsInv ==
  ASSUME BootstrapInv, NEW o \in Outcomes, ChangeCredentials(o)
  PROVE  BootstrapInv'
<1>0. job.at = "change" /\ job.kind \in Kinds
  BY DEF ChangeCredentials, At, BootstrapInv, Ready, ChangeReady
<1> PICK k \in Kinds : k = job.kind
  BY <1>0
<1>1. /\ job.at = "change" /\ UNCHANGED <<slots, graph, root, ctx, clock, seen>>
      /\ creds' = (IF Effective(o)
                   THEN [creds EXCEPT !.lock[k] = Unlocked] ELSE creds)
      /\ GoTo(IF o = "confirmed" THEN "provisionEnd" ELSE "idle")
  BY DEF ChangeCredentials, At
<1>2. /\ Used # {} /\ SameEpoch /\ root.state = "Provisioning"
      /\ seen.tries[k] = 0 /\ seen.owed[k] = 0
  BY <1>1 DEF BootstrapInv, Ready, ChangeReady
<1>3. /\ Known(creds) /\ Known(root) /\ creds \in Credentials
      /\ creds.epoch <= Now.epoch
      /\ seen \in Watch /\ clock \in [Kinds -> LockClocks \cup {None}]
  BY <1>2 DEF BootstrapInv, Sound, SecretsOK, Known, SameEpoch, NoneAhead, Watch
<1>4. CASE ~Effective(o)
  <2>1. UNCHANGED data /\ Stop
    BY <1>1, <1>4 DEF data, Effective, Stop
  <2> QED
    BY <2>1, EndingInv
<1>5. CASE Effective(o)
  <2>1. /\ creds' \in Credentials /\ creds'.epoch = creds.epoch
        /\ \A j \in Kinds : creds'.lock[j] =
                              IF j = k THEN Unlocked ELSE creds.lock[j]
    BY <1>1, <1>2, <1>3, <1>5, UnlockedLock, LockReplaced
  <2>2. Known(creds')
    BY <2>1, AbsentAssumption DEF Known
  <2>3. Guesses'
    <3>1. Attempts[k] \in Nat \ {0}
      BY <1>2, BootstrapAssumption
    <3>2. LockKnows(k)'
      <4>1. creds'.lock[k].failed = 0 /\ seen' = seen
        BY <1>1, <1>2, <2>1, UnlockedLock
      <4> QED
        BY <1>2, <3>1, <4>1 DEF LockKnows
    <3>3. seen'.tries[k] <= Attempts[k]
      BY <1>1, <1>2, <3>1
    <3>4. \A j \in Kinds \ {k} :
             /\ creds'.lock[j] = creds.lock[j] /\ clock'[j] = clock[j]
             /\ seen'.tries[j] = seen.tries[j] /\ seen'.owed[j] = seen.owed[j]
      BY <1>1, <2>1
    <3> QED
      BY <1>2, <1>3, <2>2, <3>2, <3>3, <3>4, GuessesOfOne
  <2>4. SameEpoch' /\ RootTells'
    BY <1>1, <1>2, <2>1, <2>2 DEF SameEpoch, RootTells
  <2>5. Sound' /\ Used' = Used
    BY <1>1, <1>2, <1>3, <2>1, <2>3, <2>4, CredentialsSound
  <2>6. CASE o = "confirmed"
    <3>1. JobOK' /\ job'.at = "provisionEnd"
      BY <1>1, <2>6, JobMoves DEF BootstrapInv, Places
    <3>2. ChangeReady'
      BY <1>1, <1>2, <2>4, <2>5, <3>1 DEF ChangeReady
    <3> QED
      BY <2>5, <3>1, <3>2 DEF BootstrapInv, Ready, AuthPlaces
  <2>7. CASE o # "confirmed"
    BY <1>1, <2>5, <2>7, StopReady DEF BootstrapInv, Stop
  <2> QED
    BY <2>6, <2>7
<1> QED
  BY <1>4, <1>5

\* A lockout lasts.
LEMMA LockTimeLasts ==
  ASSUME NEW k \in Kinds, NEW stage \in 1 .. StageMax
  PROVE  LockTime(k, stage) \in Nat \ {0}
<1>1. stage - 1 \in 0 .. StageMax
  BY BootstrapAssumption
<1>2. 2 ^ (stage - 1) \in Nat \ {0}
  BY <1>1, DoublingAssumption
<1>3. LockCap[k] \in Nat \ {0}
  BY BootstrapAssumption
<1> QED
  BY <1>2, <1>3 DEF LockTime

\* The lockout record after an answer: a right one clears it, a wrong one
\* counts or locks.
LEMMA AfterAttemptLock ==
  ASSUME NEW k \in Kinds, NEW right \in BOOLEAN, creds \in Credentials,
         creds.lock[k].failed < Attempts[k]
  PROVE  LET lock == AfterAttempt(k, right)
             old == creds.lock[k]
         IN  /\ lock \in Locks /\ old.failed \in Nat
             /\ right => lock.failed = 0 /\ lock.remaining = 0
             /\ ~right => \/ /\ lock.failed = old.failed + 1
                             /\ lock.failed < Attempts[k] /\ lock.remaining = 0
                          \/ /\ lock.failed = 0 /\ lock.remaining # 0
                             /\ old.failed + 1 = Attempts[k]
<1> DEFINE old == creds.lock[k]
           lock == AfterAttempt(k, right)
           stage == IF old.stage < StageMax THEN old.stage + 1 ELSE old.stage
<1>1. /\ old \in Locks /\ old.failed \in Nat /\ old.stage \in 0 .. StageMax
      /\ StageMax \in Nat \ {0} /\ Attempts[k] \in Nat \ {0}
  BY BootstrapAssumption DEF Credentials, Locks
<1> HIDE DEF old
<1>2. stage \in 1 .. StageMax
  BY <1>1
<1>3. lock = CASE right -> Unlocked
               [] ~right /\ old.failed + 1 < Attempts[k] ->
                    [old EXCEPT !.failed = old.failed + 1, !.remaining = 0]
               [] OTHER -> [failed |-> 0, stage |-> stage,
                            remaining |-> LockTime(k, stage)]
  BY DEF AfterAttempt, old
<1> HIDE DEF lock, stage
<1>4. CASE right
  <2>1. lock = Unlocked
    BY <1>3, <1>4
  <2> QED
    BY <1>1, <1>4, <2>1, UnlockedLock DEF lock, old
<1>5. CASE ~right /\ old.failed + 1 < Attempts[k]
  <2>1. lock = [old EXCEPT !.failed = old.failed + 1, !.remaining = 0]
    BY <1>3, <1>5
  <2>2. lock \in Locks /\ lock.failed = old.failed + 1 /\ lock.remaining = 0
    <3>1. old.failed + 1 \in Nat /\ 0 \in Nat
      BY <1>1
    <3>2. lock \in Locks
      BY <1>1, <2>1, <3>1, ZenonT(30) DEF Locks
    <3> QED
      BY <1>1, <2>1, <3>2 DEF Locks
  <2> QED
    BY <1>1, <1>5, <2>2 DEF lock, old
<1>6. CASE ~right /\ ~(old.failed + 1 < Attempts[k])
  <2>1. lock = [failed |-> 0, stage |-> stage, remaining |-> LockTime(k, stage)]
    BY <1>3, <1>6
  <2>2. LockTime(k, stage) \in Nat \ {0} /\ stage \in 0 .. StageMax
    BY <1>1, <1>2, LockTimeLasts
  <2>3. lock \in Locks /\ lock.failed = 0 /\ lock.remaining # 0
    BY <2>1, <2>2 DEF Locks
  <2>4. old.failed + 1 = Attempts[k]
    BY <1>1, <1>6 DEF old
  <2> QED
    BY <1>1, <1>6, <2>3, <2>4 DEF lock, old
<1> QED
  BY <1>4, <1>5, <1>6

Recounted(w, n, k, t, d) == n = [w EXCEPT !.tries[k] = t, !.owed[k] = d]

\* What the observer counts of one secret does not touch the other.
LEMMA WatchReplaced ==
  ASSUME NEW w \in Watch, NEW k \in Kinds, NEW t \in Nat, NEW d \in Nat,
         NEW n, Recounted(w, n, k, t, d)
  PROVE  /\ n \in Watch /\ n.world = w.world
         /\ n.tries[k] = t /\ n.owed[k] = d
         /\ \A j \in Kinds \ {k} :
               n.tries[j] = w.tries[j] /\ n.owed[j] = w.owed[j]
<1> DEFINE a == [w.tries EXCEPT ![k] = t]
           b == [w.owed EXCEPT ![k] = d]
<1>1. w.tries \in [Kinds -> Nat] /\ w.owed \in [Kinds -> Nat]
  BY DEF Watch
<1>2. n = [w EXCEPT !.tries = a, !.owed = b]
  BY DEF Watch, Recounted
<1>3. /\ a \in [Kinds -> Nat] /\ b \in [Kinds -> Nat]
      /\ a[k] = t /\ b[k] = d
      /\ \A j \in Kinds \ {k} : a[j] = w.tries[j] /\ b[j] = w.owed[j]
  BY <1>1
<1> HIDE DEF a, b
<1>4. n \in Watch /\ n.world = w.world /\ n.tries = a /\ n.owed = b
  BY <1>2, <1>3 DEF Watch
<1> QED
  BY <1>3, <1>4

\* While a lockout is owed no answer is given.
LEMMA OwedLocks ==
  ASSUME BootstrapInv, NEW k \in Kinds, Known(creds), seen.owed[k] > 0
  PROVE  LockedOut(k)
<1>1. LockKnows(k)
  BY DEF BootstrapInv, Sound, Guesses
<1>2. seen.owed[k] \in Nat /\ creds.lock[k].remaining \in Nat
  BY DEF BootstrapInv, Sound, SecretsOK, Known, Credentials, Locks
<1>3. creds.lock[k].remaining # 0
  BY <1>1, <1>2 DEF LockKnows
<1>4. ClockFits(k) => clock[k].left # 0
  <2>1. ClockFits(k) => clock[k].left \in Nat
    BY DEF ClockFits, BootstrapInv, Sound, SecretsOK, LockClocks
  <2> QED
    BY <1>1, <1>2, <2>1 DEF LockKnows
<1> QED
  BY <1>3, <1>4 DEF LockedOut

\* What an answered attempt leaves behind.
Answered(k, right, o) ==
  LET lock == AfterAttempt(k, right)
  IN  /\ creds' = IF Effective(o) THEN [creds EXCEPT !.lock[k] = lock]
                  ELSE creds
      /\ clock' = [clock EXCEPT ![k] =
                     IF o = "confirmed" /\ lock.remaining # 0
                     THEN [for |-> lock, left |-> lock.remaining] ELSE None]
      /\ seen' = Observed(k, right, lock, o)

\* One answer and what the persisted lockout, its clock and the observer make
\* of it.
LEMMA AttemptKnown ==
  ASSUME BootstrapInv, NEW k \in Kinds, NEW right \in BOOLEAN, NEW o,
         creds \in Credentials, ~LockedOut(k), Answered(k, right, o)
  PROVE  /\ creds' \in Credentials /\ creds'.epoch = creds.epoch
         /\ clock' \in [Kinds -> LockClocks \cup {None}]
         /\ seen' \in Watch /\ seen'.world = seen.world
         /\ Guesses'
         /\ right /\ o = "confirmed" =>
              seen'.tries[k] = 0 /\ seen'.owed[k] = 0
<1> DEFINE lock == AfterAttempt(k, right)
           old == creds.lock[k]
           t == IF Effective(o) /\ right THEN 0
                ELSE IF o = "confirmed" THEN seen.tries[k] + 1
                ELSE seen.tries[k]
           d == IF Effective(o) /\ lock.remaining # 0 THEN lock.remaining ELSE 0
           c == IF o = "confirmed" /\ lock.remaining # 0
                THEN [for |-> lock, left |-> lock.remaining] ELSE None
<1>1. /\ seen \in Watch /\ clock \in [Kinds -> LockClocks \cup {None}]
      /\ seen.tries[k] \in Nat /\ seen.owed[k] \in Nat
      /\ Attempts[k] \in Nat \ {0}
  BY BootstrapAssumption DEF BootstrapInv, Sound, SecretsOK, Watch
<1>2. Known(creds)
  BY AbsentAssumption DEF Known
<1>3. LockKnows(k)
  BY <1>2 DEF BootstrapInv, Sound, Guesses
<1>4. seen.owed[k] = 0
  BY <1>1, <1>2, OwedLocks
<1>5. old.failed < Attempts[k] /\ seen.tries[k] <= old.failed
  BY <1>3, <1>4 DEF LockKnows
<1>6. /\ lock \in Locks /\ old.failed \in Nat
      /\ right => lock.failed = 0 /\ lock.remaining = 0
      /\ ~right => \/ /\ lock.failed = old.failed + 1
                      /\ lock.failed < Attempts[k] /\ lock.remaining = 0
                   \/ /\ lock.failed = 0 /\ lock.remaining # 0
                      /\ old.failed + 1 = Attempts[k]
  BY <1>5, AfterAttemptLock
<1>7. Recounted(seen, seen', k, t, d)
  <2>1. ~(o = "confirmed" /\ seen.owed[k] > 0)
    BY <1>4
  <2> QED
    BY <1>4, <2>1 DEF Answered, Observed, Watch, Recounted
<1> HIDE DEF lock
<1>8. lock.remaining \in Nat /\ lock.failed \in Nat
  BY <1>6 DEF Locks
<1>9. t \in Nat /\ d \in Nat
  BY <1>1, <1>8
<1>10. c \in LockClocks \cup {None} /\ (c # None => c.left = lock.remaining)
  BY <1>6, <1>8 DEF LockClocks
<1>11. /\ clock' = [clock EXCEPT ![k] = c]
       /\ creds' = IF Effective(o) THEN [creds EXCEPT !.lock[k] = lock]
                   ELSE creds
  BY DEF Answered, lock, c
<1> HIDE DEF t, d, c
<1>12. /\ seen' \in Watch /\ seen'.world = seen.world
       /\ seen'.tries[k] = t /\ seen'.owed[k] = d
       /\ \A j \in Kinds \ {k} :
             seen'.tries[j] = seen.tries[j] /\ seen'.owed[j] = seen.owed[j]
  BY <1>1, <1>7, <1>9, WatchReplaced
<1>13. /\ clock' \in [Kinds -> LockClocks \cup {None}] /\ clock'[k] = c
       /\ \A j \in Kinds \ {k} : clock'[j] = clock[j]
  BY <1>1, <1>10, <1>11
<1>14. /\ creds' \in Credentials /\ creds'.epoch = creds.epoch
       /\ creds'.lock[k] = IF Effective(o) THEN lock ELSE old
       /\ \A j \in Kinds \ {k} : creds'.lock[j] = creds.lock[j]
  <2>1. CASE Effective(o)
    <3> DEFINE n == [creds EXCEPT !.lock[k] = lock]
    <3>1. /\ n \in Credentials /\ n.epoch = creds.epoch
          /\ \A j \in Kinds : n.lock[j] = IF j = k THEN lock ELSE creds.lock[j]
      BY <1>6, LockReplaced
    <3>2. creds' = n
      BY <1>11, <2>1
    <3> HIDE DEF n
    <3> QED
      BY <2>1, <3>1, <3>2
  <2>2. CASE ~Effective(o)
    BY <1>11, <2>2
  <2> QED
    BY <2>1, <2>2
<1> HIDE DEF old
<1>15. LockKnows(k)' /\ seen'.tries[k] <= Attempts[k]
  <2>1. ClockFits(k)' => clock'[k] = c /\ c # None
    BY <1>13 DEF ClockFits
  <2>2. CASE ~Effective(o)
    <3>1. t = seen.tries[k] /\ d = 0
      BY <2>2 DEF t, d, Effective
    <3>2. creds'.lock[k] = old
      BY <1>14, <2>2
    <3> QED
      BY <1>1, <1>5, <1>6, <1>12, <3>1, <3>2 DEF LockKnows
  <2>3. CASE Effective(o) /\ right
    <3>1. t = 0 /\ d = 0
      BY <1>6, <2>3 DEF t, d
    <3>2. creds'.lock[k].failed = 0
      BY <1>6, <1>14, <2>3
    <3> QED
      BY <1>1, <1>12, <3>1, <3>2 DEF LockKnows
  <2>4. CASE Effective(o) /\ ~right
    <3>1. t \in Nat /\ t <= old.failed + 1
      BY <1>1, <1>5, <1>6, <2>4 DEF t
    <3>2. creds'.lock[k] = lock
      BY <1>14, <2>4
    <3>3. CASE lock.failed = old.failed + 1 /\ lock.failed < Attempts[k]
               /\ lock.remaining = 0
      <4>1. d = 0 /\ t <= lock.failed /\ t <= Attempts[k]
        BY <1>1, <1>6, <1>8, <3>1, <3>3 DEF d
      <4> QED
        BY <1>12, <3>2, <3>3, <4>1 DEF LockKnows
    <3>4. CASE /\ lock.failed = 0 /\ lock.remaining # 0
               /\ old.failed + 1 = Attempts[k]
      <4>1. d = lock.remaining /\ d # 0 /\ t <= Attempts[k]
        BY <2>4, <3>1, <3>4 DEF d
      <4> QED
        BY <1>1, <1>8, <1>10, <1>12, <1>13, <2>1, <3>2, <3>4, <4>1
        DEF LockKnows
    <3> QED
      BY <1>6, <2>4, <3>3, <3>4
  <2> QED
    BY <2>2, <2>3, <2>4
<1>16. Known(creds')
  BY <1>14, AbsentAssumption DEF Known
<1>17. Guesses'
  BY <1>2, <1>12, <1>13, <1>14, <1>15, <1>16, GuessesOfOne
<1>18. right /\ o = "confirmed" => seen'.tries[k] = 0 /\ seen'.owed[k] = 0
  BY <1>6, <1>12 DEF t, d, Effective
<1> QED
  BY <1>12, <1>13, <1>14, <1>17, <1>18

\* What an attempt costs is stored before its answer is told.
LEMMA AttemptInv ==
  ASSUME BootstrapInv, NEW k \in Kinds, NEW right \in BOOLEAN,
         NEW change \in BOOLEAN, NEW o \in Outcomes,
         Attempt(k, right, change, o)
  PROVE  BootstrapInv'
<1>1. /\ CredentialsActive /\ job.at = "idle" /\ ~LockedOut(k)
      /\ change => right
      /\ UNCHANGED <<slots, graph, root, ctx>>
  BY DEF Attempt, Checkable, At
<1>2. job' = IF change /\ o = "confirmed"
             THEN [job EXCEPT !.at = "changeRoot", !.kind = k] ELSE job
  BY DEF Attempt
<1>3. /\ Used # {} /\ SameEpoch /\ root.state = "Provisioned"
      /\ creds \in Credentials /\ Known(creds)
  BY <1>1, ActiveCredentials
<1>4. /\ creds' \in Credentials /\ creds'.epoch = creds.epoch
      /\ clock' \in [Kinds -> LockClocks \cup {None}]
      /\ seen' \in Watch /\ seen'.world = seen.world
      /\ Guesses'
      /\ right /\ o = "confirmed" => seen'.tries[k] = 0 /\ seen'.owed[k] = 0
  <2>1. Answered(k, right, o)
    BY DEF Attempt, Answered
  <2> QED
    BY <1>1, <1>3, <2>1, AttemptKnown
<1>5. Known(creds') /\ creds'.epoch <= Now.epoch
  BY <1>3, <1>4, AbsentAssumption DEF Known, BootstrapInv, Sound, NoneAhead
<1>6. SameEpoch' /\ RootTells'
  BY <1>1, <1>3, <1>4, <1>5 DEF SameEpoch, RootTells
<1>7. Sound' /\ Used' = Used
  BY <1>1, <1>3, <1>4, <1>5, <1>6, CredentialsSound
<1>8. CASE change /\ o = "confirmed"
  <2>1. JobOK' /\ job'.at = "changeRoot" /\ job'.kind = k
    BY <1>2, <1>8 DEF BootstrapInv, JobOK, Jobs, Places
  <2>2. ChangeReady'
    BY <1>1, <1>3, <1>4, <1>6, <1>7, <1>8, <2>1 DEF ChangeReady
  <2> QED
    BY <1>7, <2>1, <2>2 DEF BootstrapInv, Ready, AuthPlaces
<1>9. CASE ~(change /\ o = "confirmed")
  BY <1>1, <1>2, <1>7, <1>9, IdleReady DEF BootstrapInv, JobOK
<1> QED
  BY <1>8, <1>9

\* Steps of the clocks alone.
LEMMA ClockSound ==
  ASSUME BootstrapInv, job.at = "idle",
         UNCHANGED <<slots, graph, root, creds, ctx, job>>,
         clock' \in [Kinds -> LockClocks \cup {None}],
         seen' \in Watch, seen'.world = seen.world, Guesses'
  PROVE  BootstrapInv'
<1>1. /\ StorageOK' /\ Chained' /\ RecordTells'
      /\ Used' = Used /\ Now' = Now
  BY StorageSame DEF BootstrapInv
<1>2. SecretsOK' /\ WorldsMatch' /\ Untouched'
  BY <1>1 DEF BootstrapInv, Sound, SecretsOK, WorldsMatch, Untouched, Watch
<1>3. NoneAhead'
  BY <1>1 DEF BootstrapInv, Sound, NoneAhead
<1>4. RootTells'
  BY DEF BootstrapInv, Sound, RootTells, SameEpoch
<1>5. JobOK' /\ Ready'
  BY IdleReady DEF BootstrapInv, JobOK
<1> QED
  BY <1>1, <1>2, <1>3, <1>4, <1>5 DEF BootstrapInv, Sound

\* An attempt during a lockout gets no answer and starts its clock.
LEMMA AttemptLockedInv ==
  ASSUME BootstrapInv, NEW k \in Kinds, AttemptLocked(k)
  PROVE  BootstrapInv'
<1> DEFINE c == [for |-> creds.lock[k], left |-> creds.lock[k].remaining]
<1>1. /\ CredentialsActive /\ job.at = "idle"
      /\ clock' = [clock EXCEPT ![k] = c]
      /\ UNCHANGED <<slots, graph, root, creds, ctx, job>> /\ seen' = seen
  BY DEF AttemptLocked, Checkable, At
<1>2. creds \in Credentials /\ Known(creds)
  BY <1>1, ActiveCredentials
<1>3. c \in LockClocks /\ c.left = creds.lock[k].remaining
  BY <1>2 DEF LockClocks, Locks, Credentials
<1> HIDE DEF c
<1>4. /\ clock' \in [Kinds -> LockClocks \cup {None}] /\ clock'[k] = c
      /\ \A j \in Kinds \ {k} : clock'[j] = clock[j]
  BY <1>1, <1>3 DEF BootstrapInv, Sound, SecretsOK
<1>5. LockKnows(k)'
  <2>1. LockKnows(k)
    BY <1>2 DEF BootstrapInv, Sound, Guesses
  <2> QED
    BY <1>1, <1>3, <1>4, <2>1 DEF LockKnows
<1>6. Guesses'
  <2>1. Known(creds') /\ seen'.tries[k] <= Attempts[k]
    BY <1>1, <1>2 DEF Known, BootstrapInv, Sound, Guesses
  <2> QED
    BY <1>1, <1>2, <1>4, <1>5, <2>1, GuessesOfOne
<1>7. seen' \in Watch /\ seen'.world = seen.world
  BY <1>1 DEF BootstrapInv, Sound, SecretsOK, Watch
<1> QED
  BY <1>1, <1>4, <1>6, <1>7, ClockSound

\* An attempt without a key forgets the clock and counts nothing.
LEMMA AttemptWithoutKeyInv ==
  ASSUME BootstrapInv, NEW k \in Kinds, AttemptWithoutKey(k)
  PROVE  BootstrapInv'
<1>1. /\ job.at = "idle" /\ clock' = [clock EXCEPT ![k] = None]
      /\ UNCHANGED <<slots, graph, root, creds, ctx, job>> /\ seen' = seen
  BY DEF AttemptWithoutKey, Checkable, At
<1>2. /\ clock' \in [Kinds -> LockClocks \cup {None}]
      /\ \A j \in Kinds : clock'[j] = clock[j] \/ clock'[j] = None
  BY <1>1 DEF BootstrapInv, Sound, SecretsOK
<1>3. Guesses'
  BY <1>1, <1>2, GuessesKept DEF BootstrapInv
<1>4. seen' \in Watch /\ seen'.world = seen.world
  BY <1>1 DEF BootstrapInv, Sound, SecretsOK, Watch
<1> QED
  BY <1>1, <1>2, <1>3, <1>4, ClockSound

\* Time passes for a lockout and for its observer alike.
LEMMA TickInv ==
  ASSUME BootstrapInv, Tick
  PROVE  BootstrapInv'
<1>1. /\ job.at = "idle"
      /\ UNCHANGED <<slots, graph, root, creds, ctx, job>>
      /\ clock' = [k \in Kinds |->
                     IF clock[k] = None \/ clock[k].left = 0 THEN clock[k]
                     ELSE [clock[k] EXCEPT !.left = @ - 1]]
  BY DEF Tick, At
<1>2. seen \in Watch /\ clock \in [Kinds -> LockClocks \cup {None}]
  BY DEF BootstrapInv, Sound, SecretsOK, Watch
<1>3. /\ seen' \in Watch /\ seen'.world = seen.world
      /\ \A k \in Kinds :
           /\ seen'.owed[k] = IF seen.owed[k] > 0 THEN seen.owed[k] - 1 ELSE 0
           /\ seen'.tries[k] = IF seen.owed[k] = 1 THEN 0 ELSE seen.tries[k]
  <2> DEFINE a == [k \in Kinds |-> IF seen.owed[k] > 0 THEN seen.owed[k] - 1
                                   ELSE 0]
             b == [k \in Kinds |-> IF seen.owed[k] = 1 THEN 0
                                   ELSE seen.tries[k]]
  <2>1. seen' = [seen EXCEPT !.owed = a, !.tries = b]
    BY DEF Tick
  <2>2. /\ a \in [Kinds -> Nat] /\ b \in [Kinds -> Nat]
        /\ \A k \in Kinds :
             /\ a[k] = IF seen.owed[k] > 0 THEN seen.owed[k] - 1 ELSE 0
             /\ b[k] = IF seen.owed[k] = 1 THEN 0 ELSE seen.tries[k]
    <3>1. \A k \in Kinds : seen.owed[k] \in Nat /\ seen.tries[k] \in Nat
      BY <1>2 DEF Watch
    <3> QED
      BY <3>1
  <2> HIDE DEF a, b
  <2>3. /\ seen' \in Watch /\ seen'.world = seen.world
        /\ seen'.owed = a /\ seen'.tries = b
    BY <1>2, <2>1, <2>2 DEF Watch
  <2> QED
    BY <2>2, <2>3
<1>4. ASSUME NEW k \in Kinds
      PROVE  /\ clock'[k] \in LockClocks \cup {None}
             /\ clock'[k] # None =>
                  /\ clock[k] # None /\ clock'[k].for = clock[k].for
                  /\ clock[k].left \in Nat
                  /\ clock'[k].left = IF clock[k].left = 0 THEN 0
                                      ELSE clock[k].left - 1
  <2>1. clock[k] # None => clock[k] \in LockClocks /\ clock[k].left \in Nat
    BY <1>2 DEF LockClocks
  <2>2. CASE clock[k] = None \/ clock[k].left = 0
    BY <1>1, <1>2, <2>1, <2>2
  <2>3. CASE clock[k] # None /\ clock[k].left # 0
    <3>1. clock'[k] = [clock[k] EXCEPT !.left = clock[k].left - 1]
      BY <1>1, <2>3
    <3>2. clock[k].left - 1 \in Nat
      BY <2>1, <2>3
    <3> QED
      BY <2>1, <2>3, <3>1, <3>2 DEF LockClocks
  <2> QED
    BY <2>2, <2>3
<1>5. clock' \in [Kinds -> LockClocks \cup {None}]
  BY <1>1, <1>4
<1>6. Guesses'
  <2>1. \A k \in Kinds : /\ seen.owed[k] \in Nat /\ seen.tries[k] \in Nat
                         /\ seen.tries[k] <= Attempts[k]
                         /\ Attempts[k] \in Nat
    BY <1>2, BootstrapAssumption DEF Watch, BootstrapInv, Sound, Guesses
  <2>2. \A k \in Kinds : seen'.tries[k] <= Attempts[k]
    BY <1>3, <2>1
  <2>3. ASSUME Known(creds), NEW k \in Kinds
        PROVE  LockKnows(k)'
    <3>1. LockKnows(k) /\ creds' = creds
      BY <1>1, <2>3 DEF BootstrapInv, Sound, Guesses
    <3>2. creds.lock[k].failed \in Nat /\ creds.lock[k].remaining \in Nat
      BY <2>3 DEF BootstrapInv, Sound, SecretsOK, Known, Credentials, Locks
    <3>3. ClockFits(k)' => ClockFits(k)
      BY <1>4, <3>1 DEF ClockFits
    <3>4. ClockFits(k)' =>
             /\ clock[k].left \in Nat
             /\ clock'[k].left = IF clock[k].left = 0 THEN 0
                                 ELSE clock[k].left - 1
      BY <1>4 DEF ClockFits
    <3>5. CASE seen.owed[k] = 0
      BY <1>3, <3>1, <3>5 DEF LockKnows
    <3>6. CASE seen.owed[k] = 1
      BY <1>3, <3>1, <3>2, <3>6 DEF LockKnows
    <3>7. CASE seen.owed[k] > 1
      <4>1. /\ seen'.owed[k] = seen.owed[k] - 1
            /\ seen'.owed[k] <= creds.lock[k].remaining
            /\ seen'.owed[k] # 0
        BY <1>3, <2>1, <3>1, <3>2, <3>7 DEF LockKnows
      <4>2. ClockFits(k)' => seen'.owed[k] <= clock'[k].left
        BY <2>1, <3>1, <3>3, <3>4, <3>7, <4>1 DEF LockKnows
      <4> QED
        BY <3>1, <4>1, <4>2 DEF LockKnows
    <3> QED
      BY <2>1, <3>5, <3>6, <3>7
  <2> QED
    BY <1>1, <2>2, <2>3 DEF Guesses, Known
<1> QED
  BY <1>1, <1>3, <1>5, <1>6, ClockSound

-----------------------------------------------------------------------------
(* Every step.                                                             *)

\* Every step keeps the invariant.
LEMMA StepInv ==
  ASSUME BootstrapInv, [Next]_vars
  PROVE  BootstrapInv'
<1>1. CASE PowerLoss
  BY <1>1, PowerLossInv
<1>2. CASE PowerOn
  BY <1>2, PowerOnInv
<1>3. CASE Corrupted
  BY <1>3, CorruptedInv
<1>4. CASE BootUnreadable
  BY <1>4, EndingInv DEF BootUnreadable, data
<1>5. CASE BootResume
  BY <1>5, BootResumeInv
<1>6. CASE BootRuntime
  BY <1>6, BootRuntimeInv
<1>7. CASE BootWithoutGraph
  BY <1>7, BootWithoutGraphInv
<1>8. CASE Publish
  BY <1>8, PublishInv
<1>9. CASE HandoffFails
  BY <1>9, HandoffFailsInv
<1>10. CASE AuthRefused
  BY <1>10, AuthRefusedInv
<1>11. CASE AuthFound
  BY <1>11, AuthFoundInv
<1>12. CASE AuthConfirm
  BY <1>12, AuthConfirmInv
<1>13. CASE AuthCheck
  BY <1>13, AuthCheckInv
<1>14. CASE ProvisionWithoutKey
  BY <1>14, ProvisionWithoutKeyInv
<1>15. CASE Tick
  BY <1>15, TickInv
<1>16. CASE \E k \in Kinds : AttemptLocked(k) \/ AttemptWithoutKey(k)
  BY <1>16, AttemptLockedInv, AttemptWithoutKeyInv
<1>17. ASSUME NEW o \in Outcomes, BootNext(o)
       PROVE  BootstrapInv'
  BY <1>17, BootEmptyInv, BuildInv, FinalizeInv, HandoffCommitInv,
     HandoffConsumeInv DEF BootNext
<1>18. ASSUME NEW o \in Outcomes, AuthNext(o)
       PROVE  BootstrapInv'
  BY <1>18, AuthOpenInv, AuthStepInv, AuthRootInv DEF AuthNext
<1>19. ASSUME NEW o \in Outcomes, SecretNext(o)
       PROVE  BootstrapInv'
  BY <1>19, ProvisionBeginInv, ProvisionCredentialsInv, ProvisionRevokeInv,
     ProvisionEndInv, ChangeRootInv, ChangeCredentialsInv, AttemptInv
  DEF SecretNext
<1>20. ASSUME NEW o \in Outcomes, ResetBegin(o)
       PROVE  BootstrapInv'
  BY <1>20, ResetBeginInv
<1>21. CASE UNCHANGED vars
  <2>1. UNCHANGED data /\ job' = job
    BY <1>21 DEF vars, data
  <2>2. Sound' /\ Used' = Used /\ Now' = Now
    BY <2>1, SoundSame DEF BootstrapInv
  <2>3. JobOK' /\ (GraphComplete' <=> GraphComplete)
    BY <2>1, <2>2 DEF BootstrapInv, JobOK, GraphComplete, data
  <2>4. Ready'
    BY <2>1, <2>2, <2>3
    DEF BootstrapInv, Ready, BuildReady, HandoffReady, ProvisionReady,
        ChangeReady, SameEpoch, data
  <2> QED
    BY <2>2, <2>3, <2>4 DEF BootstrapInv
<1> QED
  BY <1>1, <1>2, <1>3, <1>4, <1>5, <1>6, <1>7, <1>8, <1>9, <1>10, <1>11, <1>12,
     <1>13, <1>14, <1>15, <1>16, <1>17, <1>18, <1>19, <1>20, <1>21 DEF Next

-----------------------------------------------------------------------------
(* The results.                                                            *)

\* The inductive invariant: the two bootstrap slots form a chain, the graph,
\* the access records and the open domain agree with the canonical record, and
\* the operation under way finds the record its next write continues.
THEOREM BootstrapInvariant == Spec => []BootstrapInv
<1>1. Init => BootstrapInv
  BY InitInv
<1>2. BootstrapInv /\ [Next]_vars => BootstrapInv'
  BY StepInv
<1> QED
  BY <1>1, <1>2, PTL DEF Spec

\* The device never locks itself out of its storage, wherever the power fails
\* and whatever becomes of a write (ConfigurationBootstrapStore::scan,
\* isAllowedBootstrapSuccessor, continueEpochBuild).
THEOREM BootstrapNeverStranded == Spec => []NeverStranded
<1>1. BootstrapInv => NeverStranded
  BY InvNeverStranded
<1> QED
  BY <1>1, BootstrapInvariant, PTL

\* No secret of an earlier epoch is accepted once a later one was entered
\* (beginAuthorizedFactoryReset, resetAuthenticationState).
THEOREM BootstrapOldSecretsDead == Spec => []OldSecretsDead
<1>1. BootstrapInv => OldSecretsDead
  BY InvOldSecretsDead
<1> QED
  BY <1>1, BootstrapInvariant, PTL

\* A factory reset always makes room for a new access domain, but for the one
\* inventory the code refuses for good (inspectAuthenticationInventory).
THEOREM BootstrapResetCures == Spec => []ResetCures
<1>1. BootstrapInv => ResetCures
  BY InvResetCures
<1> QED
  BY <1>1, BootstrapInvariant, PTL

\* No more wrong secrets are answered between two lockouts than the limit
\* allows, whatever restarts and lost outcomes happen (verifyWebPassword,
\* verifyServicePin, effectiveLockoutRemaining).
THEOREM BootstrapGuessesBounded == Spec => []GuessesBounded
<1>1. BootstrapInv => GuessesBounded
  BY DEF BootstrapInv, Sound, Guesses, GuessesBounded
<1> QED
  BY <1>1, BootstrapInvariant, PTL

-----------------------------------------------------------------------------
(* The touch surface: the values of its state *)

AllPages == {"Home", "ProgramList", "ProgramSummary", "ValueEdit",
             "ProgramActions", "ProgramEdit", "ProgramDeleteConfirmation",
             "ProgramDeleteFinalConfirmation", "ManualModeSelection",
             "ManualHolding", "ManualTimed", "Process", "StopDialog",
             "Technical", "Messages", "MessageDetail", "Completion", "Status",
             "Diagnostics", "Service", "Pin", "Recovery", "FactoryReset",
             "Settings", "TextEdit", "HeaderLanguage", "HeaderNetwork",
             "HeaderWebAccess", "HeaderClock"}

Lives == {"Ready", "ServiceRequired"}
Procs == {"Standby", "Running", "WaitingForProduct", "Completed", "Fault",
          "Fallback", "RecoveryEvaluation", "SafeBoot", "NoRuntime"}
HomeModes == {"Restricted", "Unavailable", "Recovery", "Completed", "Waiting",
              "ActiveRun", "Standby"}
FlowStages == {"Idle", "PinRequired", "Warning", "Confirm", "Hold",
               "Executing", "Finished"}
FlowKinds == {"PinIndependent", "PinProtected"}

Edits == Bodies \cup {"none", "bad"}
EditOps == {"New", "Copy", "Reset", "Uninstall", "Delete", "Edit"}
Chosen == Programs \cup {NoProgram}

Entries == [there : BOOLEAN, installed : BOOLEAN, body : Edits]
Catalogs == [Programs -> Entries]

Workspaces ==
    [stack : Seq(AllPages) \ {<<>>}, intent : {"Start", "Manage"},
     sel : Chosen, cand : {"none", "stored", "changed", "bad"}, op : EditOps,
     edit : Edits, dirty : BOOLEAN, text : {"none", "Program", "DeviceName"},
     valued : {"none", "program", "start", "manual"}, input : {"ok", "bad"},
     pin : Int, msg : BOOLEAN]

Applications ==
    [life : Lives, proc : Procs, run : Chosen, cat : Catalogs,
     lease : BOOLEAN, admitted : BOOLEAN, message : BOOLEAN, edits : Nat,
     world : Nat]

Flows == [stage : FlowStages, kind : FlowKinds, held : Nat]

Snapshots ==
    [mode : HomeModes, proc : Procs, run : Chosen, stage : FlowStages,
     kind : FlowKinds, available : BOOLEAN, pinAvailable : BOOLEAN,
     recoveryEntry : BOOLEAN, service : BOOLEAN, message : BOOLEAN]

RequestKinds == ResetKinds \cup RunActions \cup
                {"none", "setDeviceName", "SetDisplayLanguage",
                 "NetworkRequest", "programEdit", "verifyServicePin",
                 "endServiceSession"}

PanelRequests == [kind : RequestKinds, op : EditOps \cup {"none"}, of : Chosen,
                  body : Edits]

-----------------------------------------------------------------------------
(* The touch surface: what a page offers *)

Back == {"NavigateBack", "ValueEditCancel", "TextEditCancel",
         "DiscardProgramEdit"}
Opened == {"BeginProgramEdit", "CopyProgram", "NewProgram"}
Removed == {"ResetProgram", "UninstallProgram", "DeleteProgram"}
EditorRows == {"EditText", "EditNumber", "CycleProgramField"}
StartRows == {"EditStartValue", "CycleStartField", "EditManualValue"}
Keys == {"Key", "ValueEditBackspace", "ValueEditClear", "TextEditBackspace"}
PinKeys == {"PinDigit", "PinBackspace", "PinClear"}
Single == {"SelectMessage", "SaveProgram", "ResetStartValues",
           "ValueEditCommit", "TextEditCommit", "EditDeviceName",
           "ServicePinCommit", "ServiceSignOut", "TextEditMode"}
Rows == EditorRows \cup {"SelectProgram"}
Sent == {"SetDisplayLanguage", "NetworkRequest"}

Actions == DOMAIN Destination \cup Back \cup Opened \cup Removed
           \cup Rows \cup StartRows \cup Keys \cup PinKeys \cup Single
           \cup Sent \cup RunActions \cup ResetKinds

\* A slot asks for something the workspace knows, and for a step of the
\* factory reset only where the snapshot allows it.
Offered(s, action) ==
    /\ action \in Actions \cup {"None", "FactoryResetHold"}
    /\ action \notin Rows
    /\ action = "FactoryResetBegin" => s.available
    /\ action = "FactoryResetBeginPinProtected" => s.pinAvailable
    /\ action = "FactoryResetDismiss" => s.stage = "Finished"

FourOffered(s, offers) == \A j \in 1..4 : Offered(s, offers[j])

\* The pages reached by navigation.
LEMMA Destinations ==
  /\ DOMAIN Destination =
       {"NavigateProgramList", "NavigateProgramManagement",
        "NavigateProgramActions", "NavigateProgramDeleteFinalConfirmation",
        "NavigateManualModeSelection", "NavigateManualHolding",
        "NavigateManualTimed", "NavigateProcess", "NavigateStopDialog",
        "NavigateTechnical", "NavigateMessages", "NavigateMessageDetail",
        "NavigateCompletion", "NavigateStatus", "NavigateDiagnostics",
        "NavigateService", "NavigatePin", "NavigateRecovery",
        "NavigateLanguage", "NavigateNetwork", "NavigateClock",
        "NavigateWebAccess", "NavigateSettings"}
  /\ \A d \in DOMAIN Destination : Destination[d] \in AllPages
BY SMT DEF Destination, AllPages

\* Two kinds of offers, told apart once for all pages.
LEMMA PlainOffered ==
  ASSUME NEW s, NEW action,
         action \in {"None", "FactoryResetHold", "FactoryResetAcknowledge",
                     "FactoryResetCancel"}
                    \cup DOMAIN Destination \cup Back \cup Opened
                    \cup Removed \cup Keys \cup Single \cup Sent
                    \cup RunActions
  PROVE  Offered(s, action)
BY Destinations
   DEF Offered, Actions, Back, Opened, Removed, Keys, Single, Sent,
       RunActions, ResetKinds, Rows, EditorRows

\* The home page, by its mode.
LEMMA HomeOffers ==
  ASSUME NEW s \in Snapshots
  PROVE  FourOffered(s, HomeSlots(s))
<1> DEFINE first == IF s.proc = "SafeBoot" \/ s.recoveryEntry
             THEN Offer(s.available, "FactoryResetBegin")
             ELSE Offer(s.proc = "RecoveryEvaluation", "NavigateRecovery")
<1>1. Offered(s, first)
  BY Destinations DEF Offered, Actions, ResetKinds, Offer, Rows, EditorRows
<1> HIDE DEF first
<1>2. CASE s.mode = "Restricted"
  <2>1. HomeSlots(s) = <<first,
             Offer(s.proc # "SafeBoot", "NavigateProgramList"),
             "NavigateStatus", "None">>
    BY <1>2 DEF HomeSlots, first
  <2> QED
    BY <2>1, <1>1, PlainOffered, Destinations DEF FourOffered, Offer
<1>3. CASE s.mode # "Restricted"
  BY <1>3, PlainOffered, Destinations
     DEF FourOffered, HomeSlots, Snapshots, HomeModes, RunActions
<1> QED
  BY <1>2, <1>3

\* The pages of the programs and of a manual run.
LEMMA ProgramOffers ==
  ASSUME NEW s \in Snapshots, NEW w \in Workspaces, NEW cat \in Catalogs
  PROVE  /\ FourOffered(s, ProgramListSlots(w, cat))
         /\ FourOffered(s, ProgramSummarySlots(w, cat))
         /\ FourOffered(s, ValueEditSlots(w))
         /\ FourOffered(s, ProgramActionsSlots(w))
         /\ FourOffered(s, ProgramEditSlots(w, cat))
         /\ FourOffered(s, ProgramDeleteSlots(w))
         /\ FourOffered(s, ManualSlots(w))
<1>1. FourOffered(s, ProgramListSlots(w, cat))
  BY PlainOffered, Destinations
     DEF FourOffered, ProgramListSlots, Offer, Back, Opened, Removed, Keys,
         Single, Sent, RunActions
<1>2. FourOffered(s, ProgramSummarySlots(w, cat))
  BY PlainOffered, Destinations
     DEF FourOffered, ProgramSummarySlots, Offer, Back, Opened, Removed, Keys,
         Single, Sent, RunActions
<1>3. FourOffered(s, ValueEditSlots(w))
  BY PlainOffered, Destinations
     DEF FourOffered, ValueEditSlots, Offer, Back, Opened, Removed, Keys,
         Single, Sent, RunActions
<1>4. FourOffered(s, ProgramActionsSlots(w))
  BY PlainOffered, Destinations
     DEF FourOffered, ProgramActionsSlots, Offer, Back, Opened, Removed, Keys,
         Single, Sent, RunActions
<1>5. FourOffered(s, ProgramEditSlots(w, cat))
  BY PlainOffered, Destinations
     DEF FourOffered, ProgramEditSlots, Offer, Back, Opened, Removed, Keys,
         Single, Sent, RunActions
<1>6. FourOffered(s, ProgramDeleteSlots(w))
  BY PlainOffered, Destinations
     DEF FourOffered, ProgramDeleteSlots, Offer, Back, Opened, Removed, Keys,
         Single, Sent, RunActions
<1>7. FourOffered(s, ManualSlots(w))
  BY PlainOffered, Destinations
     DEF FourOffered, ManualSlots, Offer, Back, Opened, Removed, Keys,
         Single, Sent, RunActions
<1> QED
  BY <1>1, <1>2, <1>3, <1>4, <1>5, <1>6, <1>7

\* The pages of a run, of the status and of the settings.
LEMMA RunOffers ==
  ASSUME NEW s \in Snapshots, NEW w \in Workspaces
  PROVE  /\ FourOffered(s, RunSlots(w))
         /\ Top(w) \in {"Technical", "Messages", "MessageDetail"}
              => FourOffered(s, MessageSlots(w, s))
         /\ FourOffered(s, CompletionSlots)
         /\ FourOffered(s, StatusSlots(w))
         /\ FourOffered(s, RecoverySlots(s))
         /\ FourOffered(s, SettingsSlots)
         /\ FourOffered(s, TextEditSlots(w))
         /\ Top(w) \in {"HeaderLanguage", "HeaderNetwork", "HeaderWebAccess",
                        "HeaderClock"}
              => FourOffered(s, HeaderSlots(w))
<1>1. FourOffered(s, RunSlots(w))
  BY PlainOffered, Destinations DEF FourOffered, RunSlots, Back, RunActions
<1>2. Top(w) \in {"Technical", "Messages", "MessageDetail"}
              => FourOffered(s, MessageSlots(w, s))
  BY PlainOffered, Destinations
     DEF FourOffered, MessageSlots, Offer, Back, RunActions
<1>3. FourOffered(s, CompletionSlots)
  BY PlainOffered, Destinations
     DEF FourOffered, CompletionSlots, Back, RunActions
<1>4. FourOffered(s, StatusSlots(w))
  BY PlainOffered, Destinations DEF FourOffered, StatusSlots, Back
<1>5. FourOffered(s, RecoverySlots(s))
  BY PlainOffered, Destinations
     DEF FourOffered, RecoverySlots, Offer, Back, RunActions
<1>6. FourOffered(s, SettingsSlots)
  BY PlainOffered, Destinations DEF FourOffered, SettingsSlots, Back
<1>7. FourOffered(s, TextEditSlots(w))
  BY PlainOffered, Destinations
     DEF FourOffered, TextEditSlots, Offer, Back, Single, Keys
<1>8. Top(w) \in {"HeaderLanguage", "HeaderNetwork", "HeaderWebAccess",
                  "HeaderClock"}
        => FourOffered(s, HeaderSlots(w))
  BY PlainOffered, Destinations DEF FourOffered, HeaderSlots, Back, Sent
<1> QED
  BY <1>1, <1>2, <1>3, <1>4, <1>5, <1>6, <1>7, <1>8

\* The pages on which a factory reset begins and goes on.
LEMMA ResetOffers ==
  ASSUME NEW s \in Snapshots, NEW w \in Workspaces
  PROVE  /\ FourOffered(s, ServiceSlots(s))
         /\ FourOffered(s, PinSlots(w, s))
         /\ FourOffered(s, FactoryResetSlots(s))
<1>1. FourOffered(s, ServiceSlots(s))
  <2>1. Offered(s, Offer(s.pinAvailable, "FactoryResetBeginPinProtected"))
    BY DEF Offered, Actions, ResetKinds, Offer, Rows, EditorRows
  <2> QED
    BY <2>1, PlainOffered, Destinations
       DEF FourOffered, ServiceSlots, Offer, Back, Single
<1>2. FourOffered(s, PinSlots(w, s))
  <2>1. Offered(s, Offer(s.available, "FactoryResetBegin"))
    BY DEF Offered, Actions, ResetKinds, Offer, Rows, EditorRows
  <2> QED
    BY <2>1, PlainOffered, Destinations
       DEF FourOffered, PinSlots, Offer, Back, Single
<1>3. FourOffered(s, FactoryResetSlots(s))
  <2>1. s.stage = "Finished" => Offered(s, "FactoryResetDismiss")
    BY DEF Offered, Actions, ResetKinds, Rows, EditorRows
  <2> QED
    BY <2>1, PlainOffered, Destinations
       DEF FourOffered, FactoryResetSlots, Offer, Back, Snapshots, FlowStages
<1> QED
  BY <1>1, <1>2, <1>3

\* Whatever page is on top, its offers ask for what the snapshot allows.
LEMMA SlotsOffer ==
  ASSUME NEW s \in Snapshots, NEW w \in Workspaces, NEW cat \in Catalogs
  PROVE  FourOffered(s, Slots(w, s, cat))
<1>1. Top(w) \in AllPages
  BY DEF Top, Last, Workspaces
<1> QED
  BY <1>1, HomeOffers, ProgramOffers, RunOffers, ResetOffers
     DEF Slots, AllPages

-----------------------------------------------------------------------------
(* The touch surface: what a touch asks for *)

Understood(w, s, cat, a) ==
    /\ a.action \in Actions
    /\ a.of \in Chosen
    /\ a.action = "FactoryResetBegin" => s.available
    /\ a.action = "FactoryResetBeginPinProtected" => s.pinAvailable
    /\ a.action = "FactoryResetDismiss" => s.stage = "Finished"
    /\ a.action = "SelectProgram" => a.of \in Programs
    /\ a.action \in EditorRows /\ w.op = "Edit" => Stored(w, cat)

\* The rows and keys of the content area are understood.
LEMMA CellsKnown ==
  ASSUME NEW s, NEW w, NEW cat, NEW a \in ContentCells(w, s, cat)
  PROVE  Understood(w, s, cat, a)
<1> DEFINE Plain == {"EditStartValue", "CycleStartField", "EditManualValue",
              "Key", "PinDigit", "PinBackspace", "PinClear",
              "NavigateLanguage", "NavigateClock", "NavigateNetwork",
              "NavigateWebAccess", "EditDeviceName", "NavigateService",
              "NavigatePin", "SetDisplayLanguage", "SelectMessage"}
<1>1. ASSUME NEW x \in Plain
      PROVE  Understood(w, s, cat, Act(x))
  <2>1. x \in Actions
    BY Destinations
       DEF Actions, StartRows, Keys, PinKeys, Single, Sent
  <2> QED
    BY <2>1 DEF Understood, Act, Chosen, EditorRows
<1> HIDE DEF Plain
<1>2. CASE Top(w) = "ProgramList"
  BY <1>2
     DEF ContentCells, Understood, Actions, Rows, Chosen, Listed, EditorRows
<1>3. CASE Top(w) = "ProgramEdit"
  <2>1. ASSUME NEW x \in EditorRows, w.op = "Edit" => Stored(w, cat)
        PROVE  Understood(w, s, cat, Act(x))
    BY <2>1 DEF Understood, Act, Actions, Rows, Chosen, EditorRows
  <2>2. CASE w.op # "Edit"
    <3>1. a = Act("EditText")
      BY <1>3, <2>2 DEF ContentCells
    <3> QED
      BY <3>1, <2>1, <2>2 DEF EditorRows
  <2>3. CASE w.op = "Edit"
    <3>1. Stored(w, cat) /\ \E x \in EditorRows : a = Act(x)
      BY <1>3, <2>3 DEF ContentCells, EditorRows
    <3> QED
      BY <3>1, <2>1
  <2> QED
    BY <2>2, <2>3
<1>4. CASE Top(w) \notin {"ProgramList", "ProgramEdit"}
  <2>1. \E x \in Plain : a = Act(x)
    BY <1>4 DEF ContentCells, Plain
  <2> QED
    BY <2>1, <1>1
<1> QED
  BY <1>2, <1>3, <1>4

\* So is everything that can be touched, slots and header included.
LEMMA TouchesKnown ==
  ASSUME NEW s \in Snapshots, NEW w \in Workspaces, NEW cat \in Catalogs,
         NEW a \in Touchable(w, s, cat), a.action # "FactoryResetHold"
  PROVE  Understood(w, s, cat, a)
<1> DEFINE offers == Slots(w, s, cat)
<1>1. CASE a \in ContentCells(w, s, cat)
  BY <1>1, CellsKnown
<1>2. ASSUME NEW h \in Headers, a = Act(h)
      PROVE  Understood(w, s, cat, a)
  BY <1>2, Destinations
     DEF Understood, Act, Actions, Headers, Chosen, EditorRows
<1>3. ASSUME NEW j \in 1..4, offers[j] # "None", a = Act(offers[j])
      PROVE  Understood(w, s, cat, a)
  <2>1. Offered(s, offers[j])
    BY SlotsOffer DEF FourOffered
  <2>2. a.action = offers[j] /\ a.of = NoProgram
    BY <1>3 DEF Act
  <2> QED
    BY <2>1, <2>2, <1>3 DEF Understood, Offered, Chosen, Rows
<1> QED
  BY <1>1, <1>2, <1>3 DEF Touchable

-----------------------------------------------------------------------------
(* The touch surface: what a press makes of the workspace *)

\* The page stack is never empty, and stays so when a page is added.
LEMMA StackFacts ==
  ASSUME NEW w \in Workspaces
  PROVE  /\ Top(w) \in AllPages
         /\ \A page \in AllPages :
               Append(w.stack, page) \in Seq(AllPages) \ {<<>>}
         /\ Len(w.stack) > 1 => Front(w.stack) \in Seq(AllPages) \ {<<>>}
<1>1. w.stack \in Seq(AllPages) /\ w.stack # <<>>
  BY DEF Workspaces
<1>2. Len(w.stack) \in Nat /\ Len(w.stack) >= 1
  BY <1>1
<1>3. Top(w) \in AllPages
  BY <1>1, <1>2 DEF Top, Last
<1>4. ASSUME NEW page \in AllPages
      PROVE  Append(w.stack, page) \in Seq(AllPages) \ {<<>>}
  <2>1. Append(w.stack, page) \in Seq(AllPages)
    BY <1>1
  <2>2. Len(Append(w.stack, page)) = Len(w.stack) + 1
    BY <1>1
  <2> QED
    BY <2>1, <2>2, <1>2
<1>5. ASSUME Len(w.stack) > 1
      PROVE  Front(w.stack) \in Seq(AllPages) \ {<<>>}
  <2>1. Front(w.stack) = SubSeq(w.stack, 1, Len(w.stack) - 1)
    BY DEF Front
  <2>2. Front(w.stack) \in Seq(AllPages)
    BY <1>1, <1>2, <1>5, <2>1
  <2>3. Len(Front(w.stack)) = Len(w.stack) - 1
    BY <1>1, <1>2, <1>5, <2>1
  <2> QED
    BY <2>2, <2>3, <1>2, <1>5
<1> QED
  BY <1>3, <1>4, <1>5

\* A workspace with one field changed.
LEMMA FieldTyped ==
  ASSUME NEW w \in Workspaces
  PROVE  /\ \A stack \in Seq(AllPages) \ {<<>>} :
              [w EXCEPT !.stack = stack] \in Workspaces
         /\ \A intent \in {"Start", "Manage"} :
              [w EXCEPT !.intent = intent] \in Workspaces
         /\ \A sel \in Chosen : [w EXCEPT !.sel = sel] \in Workspaces
         /\ \A cand \in {"none", "stored", "changed", "bad"} :
              [w EXCEPT !.cand = cand] \in Workspaces
         /\ \A op \in EditOps : [w EXCEPT !.op = op] \in Workspaces
         /\ \A edit \in Edits : [w EXCEPT !.edit = edit] \in Workspaces
         /\ [w EXCEPT !.dirty = FALSE] \in Workspaces
         /\ \A text \in {"none", "Program", "DeviceName"} :
              [w EXCEPT !.text = text] \in Workspaces
         /\ \A valued \in {"none", "program", "start", "manual"} :
              [w EXCEPT !.valued = valued] \in Workspaces
         /\ \A input \in {"ok", "bad"} :
              [w EXCEPT !.input = input] \in Workspaces
         /\ \A pin \in Int : [w EXCEPT !.pin = pin] \in Workspaces
<1>1. ASSUME NEW stack \in Seq(AllPages) \ {<<>>}
      PROVE  [w EXCEPT !.stack = stack] \in Workspaces
  BY DEF Workspaces
<1>2. ASSUME NEW intent \in {"Start", "Manage"}
      PROVE  [w EXCEPT !.intent = intent] \in Workspaces
  BY DEF Workspaces
<1>3. ASSUME NEW sel \in Chosen PROVE [w EXCEPT !.sel = sel] \in Workspaces
  BY DEF Workspaces
<1>4. ASSUME NEW cand \in {"none", "stored", "changed", "bad"}
      PROVE  [w EXCEPT !.cand = cand] \in Workspaces
  BY DEF Workspaces
<1>5. ASSUME NEW op \in EditOps PROVE [w EXCEPT !.op = op] \in Workspaces
  BY DEF Workspaces
<1>6. ASSUME NEW edit \in Edits PROVE [w EXCEPT !.edit = edit] \in Workspaces
  BY DEF Workspaces
<1>7. [w EXCEPT !.dirty = FALSE] \in Workspaces
  BY DEF Workspaces
<1>8. ASSUME NEW text \in {"none", "Program", "DeviceName"}
      PROVE  [w EXCEPT !.text = text] \in Workspaces
  BY DEF Workspaces
<1>9. ASSUME NEW valued \in {"none", "program", "start", "manual"}
      PROVE  [w EXCEPT !.valued = valued] \in Workspaces
  BY DEF Workspaces
<1>10. ASSUME NEW input \in {"ok", "bad"}
       PROVE  [w EXCEPT !.input = input] \in Workspaces
  BY DEF Workspaces
<1>11. ASSUME NEW pin \in Int PROVE [w EXCEPT !.pin = pin] \in Workspaces
  BY DEF Workspaces
<1> QED
  BY <1>1, <1>2, <1>3, <1>4, <1>5, <1>6, <1>7, <1>8, <1>9, <1>10, <1>11

\* A page is opened.
LEMMA PushTyped ==
  ASSUME NEW w \in Workspaces, NEW page \in AllPages
  PROVE  Push(w, page) \in Workspaces
<1>1. Append(w.stack, page) \in Seq(AllPages) \ {<<>>}
  BY StackFacts
<1>2. CASE page = Top(w)
  BY <1>2 DEF Push
<1>3. CASE page # Top(w)
  <2>1. ASSUME NEW stack \in Seq(AllPages) \ {<<>>}, NEW pin \in Int
        PROVE  [w EXCEPT !.stack = stack, !.pin = pin] \in Workspaces
    BY <2>1 DEF Workspaces
  <2>2. (IF "Pin" \in {page, Top(w)} THEN 0 ELSE w.pin) \in Int
    BY DEF Workspaces
  <2>3. Push(w, page) =
          [w EXCEPT !.stack = Append(w.stack, page),
                    !.pin = IF "Pin" \in {page, Top(w)} THEN 0 ELSE w.pin]
    BY <1>3 DEF Push
  <2> QED
    BY <1>1, <2>1, <2>2, <2>3
<1> QED
  BY <1>2, <1>3

\* A page is left.
LEMMA GoBackTyped ==
  ASSUME NEW w \in Workspaces
  PROVE  GoBack(w) \in Workspaces
<1>1. CASE Len(w.stack) <= 1
  BY <1>1 DEF GoBack
<1>2. CASE ~(Len(w.stack) <= 1)
  <2> DEFINE left == Top(w)
             back == [w EXCEPT !.stack = Front(@),
                               !.pin = IF left = "Pin" THEN 0 ELSE @]
  <2>1. Len(w.stack) \in Nat
    BY DEF Workspaces
  <2>2. Front(w.stack) \in Seq(AllPages) \ {<<>>}
    BY <1>2, <2>1, StackFacts
  <2>3. ASSUME NEW stack \in Seq(AllPages) \ {<<>>}, NEW pin \in Int
        PROVE  [w EXCEPT !.stack = stack, !.pin = pin] \in Workspaces
    BY <2>3 DEF Workspaces
  <2>4. (IF left = "Pin" THEN 0 ELSE w.pin) \in Int
    BY DEF Workspaces
  <2>5. back \in Workspaces
    BY <2>2, <2>3, <2>4
  <2> HIDE DEF back
  <2>6. [back EXCEPT !.input = "bad", !.text = "none", !.valued = "none"]
          \in Workspaces
    BY <2>5 DEF Workspaces
  <2> DEFINE edit == IF left = "ProgramEdit" THEN "none" ELSE back.edit
             clean == [back EXCEPT !.dirty = FALSE]
  <2>a. edit \in Edits
    BY <2>5 DEF Workspaces, Edits
  <2>b. clean \in Workspaces
    BY <2>5, FieldTyped
  <2>c. [clean EXCEPT !.edit = edit] \in Workspaces
    <3> HIDE DEF clean, edit
    <3> QED
      BY <2>a, <2>b, FieldTyped
  <2>7. [back EXCEPT !.dirty = FALSE,
                     !.edit = IF left = "ProgramEdit" THEN "none" ELSE @]
          \in Workspaces
    BY <2>5, <2>c DEF Workspaces
  <2> QED
    BY <1>2, <2>6, <2>7 DEF GoBack, back
<1> QED
  BY <1>1, <1>2

\* All pages are left.
LEMMA HomeTyped ==
  ASSUME NEW w \in Workspaces
  PROVE  NavigateHome(w) \in Workspaces
<1>1. <<"Home">> \in Seq(AllPages) \ {<<>>}
  BY DEF AllPages
<1>2. ASSUME NEW stack \in Seq(AllPages) \ {<<>>}
      PROVE  [w EXCEPT !.stack = stack, !.input = "bad", !.text = "none",
                       !.valued = "none"] \in Workspaces
  BY <1>2 DEF Workspaces
<1> QED
  BY <1>1, <1>2 DEF NavigateHome

\* A press that only navigates.
LEMMA NavigateTyped ==
  ASSUME NEW w \in Workspaces, NEW s \in Snapshots,
         NEW action \in DOMAIN Destination
  PROVE  Navigate(w, s, action) \in Workspaces
<1>1. ASSUME NEW intent \in {"Start", "Manage"}, NEW msg \in BOOLEAN
      PROVE  [w EXCEPT !.intent = intent, !.msg = msg] \in Workspaces
  BY <1>1 DEF Workspaces
<1>2. (w.msg \/ (/\ action = "NavigateMessageDetail"
                 /\ Top(w) # "Messages"
                 /\ s.message)) \in BOOLEAN
  BY DEF Workspaces
<1>3. (CASE action = "NavigateProgramList" -> "Start"
         [] action = "NavigateProgramManagement" -> "Manage"
         [] OTHER -> w.intent) \in {"Start", "Manage"}
  BY DEF Workspaces
<1> DEFINE moved == [w EXCEPT
            !.intent = CASE action = "NavigateProgramList" -> "Start"
                         [] action = "NavigateProgramManagement" -> "Manage"
                         [] OTHER -> @,
            !.msg = \/ @
                    \/ /\ action = "NavigateMessageDetail"
                       /\ Top(w) # "Messages"
                       /\ s.message]
<1>4. moved \in Workspaces
  BY <1>1, <1>2, <1>3
<1>5. Navigate(w, s, action) = Push(moved, Destination[action])
  BY DEF Navigate
<1> HIDE DEF moved
<1> QED
  BY <1>4, <1>5, PushTyped, Destinations

\* A program is selected.
LEMMA SelectTyped ==
  ASSUME NEW w \in Workspaces, NEW cat, NEW p \in Programs
  PROVE  SelectProgram(w, cat, p) \in Workspaces
<1> DEFINE page == IF w.intent = "Manage" THEN "ProgramActions"
                   ELSE "ProgramSummary"
           cand == IF Startable(cat, p) THEN "stored" ELSE "none"
<1>1. CanonicalPageStack(page) \in Seq(AllPages) \ {<<>>}
  BY DEF CanonicalPageStack, AllPages
<1>2. cand \in {"stored", "none"}
  OBVIOUS
<1> DEFINE w1 == [w EXCEPT !.sel = p]
           w2 == [w1 EXCEPT !.cand = cand]
           w3 == [w2 EXCEPT !.op = "Edit"]
           w4 == [w3 EXCEPT !.edit = "none"]
           w5 == [w4 EXCEPT !.stack = CanonicalPageStack(page)]
<1>3. SelectProgram(w, cat, p) = w5
  BY DEF SelectProgram
<1>4. p \in Chosen /\ "Edit" \in EditOps /\ "none" \in Edits
  BY DEF Chosen, EditOps, Edits
<1> HIDE DEF page, cand
<1>5. w1 \in Workspaces
  BY <1>4, FieldTyped
<1> HIDE DEF w1
<1>6. w2 \in Workspaces
  BY <1>2, <1>5, FieldTyped
<1> HIDE DEF w2
<1>7. w3 \in Workspaces
  BY <1>4, <1>6, FieldTyped
<1> HIDE DEF w3
<1>8. w4 \in Workspaces
  BY <1>4, <1>7, FieldTyped
<1> HIDE DEF w4
<1>9. w5 \in Workspaces
  BY <1>1, <1>8, FieldTyped
<1> QED
  BY <1>3, <1>9

\* The program editor is opened.
LEMMA BeginEditTyped ==
  ASSUME NEW w \in Workspaces, NEW action \in Opened
  PROVE  BeginProgramEdit(w, action) \in Workspaces
<1> DEFINE edit == Push(w, "ProgramEdit")
<1>1. edit \in Workspaces
  BY PushTyped DEF AllPages
<1> HIDE DEF edit
<1>2. [edit EXCEPT !.op = "Edit"] \in Workspaces
  BY <1>1 DEF Workspaces, EditOps
<1>3. [edit EXCEPT !.op = "Copy", !.edit = "none"] \in Workspaces
  <2> DEFINE copied == [edit EXCEPT !.op = "Copy"]
  <2>1. "Copy" \in EditOps /\ "none" \in Edits
    BY DEF EditOps, Edits
  <2>2. copied \in Workspaces
    BY <1>1, <2>1, FieldTyped
  <2> HIDE DEF copied
  <2>3. [copied EXCEPT !.edit = "none"] \in Workspaces
    BY <2>1, <2>2, FieldTyped
  <2> QED
    BY <2>3 DEF copied
<1>4. ASSUME NEW op \in EditOps, NEW edited \in Edits, NEW sel \in Chosen,
             NEW cand \in {"none", "stored", "changed", "bad"}
      PROVE  [edit EXCEPT !.op = op, !.edit = edited, !.sel = sel,
                          !.cand = cand] \in Workspaces
  BY <1>1, <1>4 DEF Workspaces
<1>5. "New" \in EditOps /\ "none" \in Edits /\ NoProgram \in Chosen
  BY DEF EditOps, Edits, Chosen
<1> QED
  BY <1>2, <1>3, <1>4, <1>5 DEF BeginProgramEdit, Opened, edit

\* What a press may lead to: a workspace, and a request that takes a step of
\* the factory reset only if the press asked for that step.
Effects == [ws : Workspaces, request : PanelRequests]
Asked(a, e) == e \in Effects
               /\ (e.request.kind \in ResetKinds => e.request.kind = a.action)

\* A press that sends a request.
LEMMA PressedAsked ==
  ASSUME NEW w \in Workspaces, NEW r \in PanelRequests, NEW a,
         r.kind \in ResetKinds => r.kind = a.action
  PROVE  \A e \in Pressed(w, r) : Asked(a, e)
BY DEF Pressed, Asked, Effects

\* The requests without an operand.
LEMMA RequestTyped ==
  ASSUME NEW kind \in RequestKinds
  PROVE  Request(kind) \in PanelRequests /\ Request(kind).kind = kind
BY DEF Request, PanelRequests, Chosen, Edits

\* A press that sends nothing.
LEMMA MovedAsked ==
  ASSUME NEW w \in Workspaces, NEW a
  PROVE  \A e \in Moved(w) : Asked(a, e)
<1>1. Request("none") \in PanelRequests /\ Request("none").kind = "none"
  BY RequestTyped DEF RequestKinds
<1>2. "none" \notin ResetKinds
  BY DEF ResetKinds
<1> QED
  BY <1>1, <1>2, PressedAsked DEF Moved

\* A press that sends a request without an operand.
LEMMA AskedKind ==
  ASSUME NEW w \in Workspaces, NEW kind \in RequestKinds, NEW a,
         kind \in ResetKinds => kind = a.action
  PROVE  \A e \in Pressed(w, Request(kind)) : Asked(a, e)
BY RequestTyped, PressedAsked

\* A request for a program edit.
LEMMA EditAsked ==
  ASSUME NEW w \in Workspaces, NEW v \in Workspaces, NEW a,
         NEW op \in EditOps, NEW body \in Edits
  PROVE  \A e \in Pressed(v, [kind |-> "programEdit", op |-> op,
                              of |-> w.sel, body |-> body]) : Asked(a, e)
<1> DEFINE r == [kind |-> "programEdit", op |-> op, of |-> w.sel, body |-> body]
<1>1. r \in PanelRequests
  BY DEF PanelRequests, Workspaces, RequestKinds
<1>2. r.kind \notin ResetKinds
  BY DEF ResetKinds
<1> HIDE DEF r
<1> QED
  BY <1>1, <1>2, PressedAsked DEF r

\* A program is removed or reset, or its removal is confirmed first.
LEMMA RemoveAsked ==
  ASSUME NEW w \in Workspaces, NEW a, NEW action \in Removed
  PROVE  \A e \in RemoveOrReset(w, action) : Asked(a, e)
<1> DEFINE op == CASE action = "ResetProgram" -> "Reset"
                   [] action = "UninstallProgram" -> "Uninstall"
                   [] action = "DeleteProgram" -> "Delete"
           pushed == Push(w, "ProgramDeleteConfirmation")
<1>1. op \in EditOps
  BY DEF Removed, EditOps
<1>2. pushed \in Workspaces
  BY PushTyped DEF AllPages
<1> HIDE DEF op, pushed
<1>3. [pushed EXCEPT !.op = op] \in Workspaces
  BY <1>1, <1>2 DEF Workspaces
<1>4. \A e \in Pressed(w, [kind |-> "programEdit", op |-> op, of |-> w.sel,
                           body |-> "none"]) : Asked(a, e)
  BY <1>1, EditAsked DEF Edits
<1>5. \A e \in Moved([pushed EXCEPT !.op = op]) : Asked(a, e)
  BY <1>3, MovedAsked
<1>6. RemoveOrReset(w, action) \in
        {Pressed(w, [kind |-> "programEdit", op |-> op, of |-> w.sel,
                     body |-> "none"]),
         Moved([pushed EXCEPT !.op = op])}
  BY DEF RemoveOrReset, op, pushed
<1> QED
  BY <1>4, <1>5, <1>6

\* The edit of the editor is saved.
LEMMA SaveAsked ==
  ASSUME NEW w \in Workspaces, NEW a
  PROVE  \A e \in SaveProgram(w) : Asked(a, e)
<1>1. w.op \in EditOps /\ w.edit \in Edits
  BY DEF Workspaces
<1> QED
  BY <1>1, EditAsked DEF SaveProgram

\* A page of input opened on top of the one that needs it.
LEMMA InputTyped ==
  ASSUME NEW w \in Workspaces, NEW page \in {"TextEdit", "ValueEdit"},
         NEW input \in {"ok", "bad"},
         NEW text \in {"none", "Program", "DeviceName"},
         NEW valued \in {"none", "program", "start", "manual"}
  PROVE  /\ [w EXCEPT !.stack = Append(@, page), !.text = text,
                      !.input = input] \in Workspaces
         /\ [w EXCEPT !.stack = Append(@, page), !.valued = valued,
                      !.input = input] \in Workspaces
         /\ [w EXCEPT !.stack = Append(@, page), !.input = input,
                      !.valued = valued] \in Workspaces
<1>1. page \in AllPages
  BY DEF AllPages
<1>2. Append(w.stack, page) \in Seq(AllPages) \ {<<>>}
  BY <1>1, StackFacts
<1> DEFINE w1 == [w EXCEPT !.stack = Append(@, page)]
<1>3. w1 \in Workspaces
  BY <1>2, FieldTyped
<1> HIDE DEF w1
<1>4. /\ [w1 EXCEPT !.text = text] \in Workspaces
      /\ [w1 EXCEPT !.valued = valued] \in Workspaces
      /\ [w1 EXCEPT !.input = input] \in Workspaces
  BY <1>3, FieldTyped
<1>5. /\ [w1 EXCEPT !.text = text, !.input = input] \in Workspaces
      /\ [w1 EXCEPT !.valued = valued, !.input = input] \in Workspaces
      /\ [w1 EXCEPT !.input = input, !.valued = valued] \in Workspaces
  BY <1>4, FieldTyped
<1> QED
  BY <1>5 DEF w1

\* A row of the program editor.
LEMMA EditorCellAsked ==
  ASSUME NEW w \in Workspaces, NEW cat \in Catalogs, NEW a,
         NEW action \in EditorRows, w.op = "Edit" => Stored(w, cat)
  PROVE  \A e \in ProgramEditCell(w, cat, action) : Asked(a, e)
<1> DEFINE body == IF w.edit = "none" THEN cat[w.sel].body ELSE w.edit
           began == IF w.op = "Edit" THEN [w EXCEPT !.edit = body] ELSE w
<1>1. began \in Workspaces
  <2>1. CASE w.op = "Edit"
    <3>1. w.sel \in Programs
      BY <2>1 DEF Stored, Workspaces, Chosen
    <3>2. cat[w.sel] \in Entries
      BY <3>1 DEF Catalogs
    <3>3. body \in Edits
      BY <3>2 DEF Entries, Workspaces
    <3> HIDE DEF body
    <3>4. [w EXCEPT !.edit = body] \in Workspaces
      BY <3>3 DEF Workspaces
    <3> QED
      BY <2>1, <3>4
  <2>2. CASE w.op # "Edit"
    BY <2>2
  <2> QED
    BY <2>1, <2>2
<1> DEFINE input == IF w.op = "Edit" THEN "ok" ELSE "bad"
<1>2. input \in {"ok", "bad"}
  OBVIOUS
<1>3. ProgramEditCell(w, cat, action) =
        CASE action = "EditText" ->
              Moved([began EXCEPT !.stack = Append(@, "TextEdit"),
                                  !.text = "Program", !.input = input])
          [] action = "EditNumber" ->
              Moved([began EXCEPT !.stack = Append(@, "ValueEdit"),
                                  !.valued = "program", !.input = "ok"])
          [] action = "CycleProgramField" ->
              UNION {Moved([began EXCEPT !.edit = b, !.dirty = TRUE]) :
                     b \in {"edited", "bad"}}
  BY DEF ProgramEditCell
<1> HIDE DEF began, input
<1>4. CASE action = "EditText"
  <2>1. [began EXCEPT !.stack = Append(@, "TextEdit"), !.text = "Program",
                      !.input = input] \in Workspaces
    BY <1>1, <1>2, InputTyped
  <2> QED
    BY <1>3, <1>4, <2>1, MovedAsked
<1>5. CASE action = "EditNumber"
  <2>1. [began EXCEPT !.stack = Append(@, "ValueEdit"), !.valued = "program",
                      !.input = "ok"] \in Workspaces
    BY <1>1, InputTyped
  <2> QED
    BY <1>3, <1>5, <2>1, MovedAsked
<1>6. CASE action = "CycleProgramField"
  <2>1. ASSUME NEW b \in {"edited", "bad"}
        PROVE  [began EXCEPT !.edit = b, !.dirty = TRUE] \in Workspaces
    BY <1>1 DEF Workspaces, Edits, Bodies
  <2> QED
    BY <1>3, <1>6, <2>1, MovedAsked
<1> QED
  BY <1>4, <1>5, <1>6 DEF EditorRows

\* A row of the start summary or of a manual page.
LEMMA StartCellAsked ==
  ASSUME NEW w \in Workspaces, NEW a, NEW action \in StartRows
  PROVE  \A e \in StartValueCell(w, action) : Asked(a, e)
<1> DEFINE valued == IF action = "EditStartValue" THEN "start" ELSE "manual"
<1>1. valued \in {"start", "manual"}
  OBVIOUS
<1>2. CASE action = "CycleStartField"
  <2>1. ASSUME NEW c \in {"stored", "changed", "bad"}
        PROVE  [w EXCEPT !.cand = c] \in Workspaces
    BY DEF Workspaces
  <2> QED
    BY <1>2, <2>1, MovedAsked DEF StartValueCell
<1>3. CASE action # "CycleStartField"
  <2>1. StartValueCell(w, action) =
          Moved([w EXCEPT !.stack = Append(@, "ValueEdit"), !.input = "ok",
                          !.valued = valued])
    BY <1>3 DEF StartValueCell
  <2> HIDE DEF valued
  <2>2. [w EXCEPT !.stack = Append(@, "ValueEdit"), !.input = "ok",
                  !.valued = valued] \in Workspaces
    BY <1>1, InputTyped
  <2> QED
    BY <2>1, <2>2, MovedAsked
<1> QED
  BY <1>2, <1>3

\* A number is taken over.
LEMMA CommitValueAsked ==
  ASSUME NEW w \in Workspaces, NEW a
  PROVE  \A e \in CommitValueEdit(w) : Asked(a, e)
<1> DEFINE taken == CASE w.valued = "program" /\ w.edit # "none" ->
                            {[w EXCEPT !.edit = "edited", !.dirty = TRUE]}
                      [] w.valued = "start" ->
                            {[w EXCEPT !.cand = c] : c \in {"stored", "changed"}}
                      [] OTHER -> {w}
<1>1. [w EXCEPT !.edit = "edited", !.dirty = TRUE] \in Workspaces
  BY DEF Workspaces, Edits, Bodies
<1>2. ASSUME NEW c \in {"stored", "changed"}
      PROVE  [w EXCEPT !.cand = c] \in Workspaces
  BY DEF Workspaces
<1>3. \A t \in taken : t \in Workspaces
  BY <1>1, <1>2
<1>4. CommitValueEdit(w) = UNION {Moved(GoBack(t)) : t \in taken}
  BY DEF CommitValueEdit
<1> HIDE DEF taken
<1> QED
  BY <1>3, <1>4, GoBackTyped, MovedAsked

\* A text is taken over.
LEMMA CommitTextAsked ==
  ASSUME NEW w \in Workspaces, NEW a
  PROVE  \A e \in CommitTextEdit(w) : Asked(a, e)
<1>1. \A e \in Pressed(GoBack(w), Request("setDeviceName")) : Asked(a, e)
  BY GoBackTyped, AskedKind DEF ResetKinds, RequestKinds
<1>2. [w EXCEPT !.dirty = TRUE] \in Workspaces
  BY DEF Workspaces
<1>3. (IF w.edit = "shipped" THEN "edited" ELSE w.edit) \in Edits
  BY DEF Workspaces, Edits, Bodies
<1>4. ASSUME NEW edit \in Edits
      PROVE  [w EXCEPT !.dirty = TRUE, !.edit = edit] \in Workspaces
  BY <1>4 DEF Workspaces
<1>5. [w EXCEPT !.dirty = TRUE,
                !.edit = IF @ = "shipped" THEN "edited" ELSE @] \in Workspaces
  BY <1>3, <1>4
<1>6. CommitTextEdit(w) \in
        {Pressed(GoBack(w), Request("setDeviceName")),
         Moved(GoBack([w EXCEPT !.dirty = TRUE])),
         Moved(GoBack([w EXCEPT !.dirty = TRUE,
                                !.edit = IF @ = "shipped" THEN "edited"
                                         ELSE @]))}
  BY DEF CommitTextEdit
<1> QED
  BY <1>1, <1>2, <1>5, <1>6, GoBackTyped, MovedAsked

\* A key of the number and text pages.
LEMMA InputAsked ==
  ASSUME NEW w \in Workspaces, NEW a
  PROVE  \A e \in EditInput(w) : Asked(a, e)
<1>1. ASSUME NEW i \in {"ok", "bad"}
      PROVE  [w EXCEPT !.input = i] \in Workspaces
  BY DEF Workspaces
<1> QED
  BY <1>1, MovedAsked DEF EditInput

\* A key of the PIN page.
LEMMA PinPadAsked ==
  ASSUME NEW w \in Workspaces, NEW a, NEW action \in PinKeys
  PROVE  \A e \in PinPadCell(w, action) : Asked(a, e)
<1> DEFINE pin == CASE action = "PinDigit" -> w.pin + 1
                    [] action = "PinBackspace" -> w.pin - 1
                    [] action = "PinClear" -> 0
<1>1. w.pin \in Int
  BY DEF Workspaces
<1>2. pin \in Int
  BY <1>1 DEF PinKeys
<1>3. PinPadCell(w, action) = Moved([w EXCEPT !.pin = pin])
  BY DEF PinPadCell
<1> HIDE DEF pin
<1>4. [w EXCEPT !.pin = pin] \in Workspaces
  BY <1>2 DEF Workspaces
<1> QED
  BY <1>3, <1>4, MovedAsked

\* A press that takes a step of the factory reset.
LEMMA ResetPressAsked ==
  ASSUME NEW w \in Workspaces, NEW a, a.action \in ResetKinds
  PROVE  \A e \in FactoryResetPress(w, a.action) : Asked(a, e)
<1>1. a.action \in RequestKinds
  BY DEF RequestKinds
<1>2. Push(w, "FactoryReset") \in Workspaces
  BY PushTyped DEF AllPages
<1>3. GoBack(w) \in Workspaces /\ NavigateHome(w) \in Workspaces
  BY GoBackTyped, HomeTyped
<1>4. FactoryResetPress(w, a.action) \in
        {Pressed(v, Request(a.action)) :
           v \in {Push(w, "FactoryReset"), GoBack(w), NavigateHome(w), w}}
  BY DEF FactoryResetPress, ResetKinds
<1> QED
  BY <1>1, <1>2, <1>3, <1>4, AskedKind

\* The disjuncts of PressImpl, one set of actions each.
LEMMA PressImplAsked ==
  ASSUME NEW w \in Workspaces, NEW s \in Snapshots, NEW cat \in Catalogs,
         NEW a, Understood(w, s, cat, a)
  PROVE  \A e \in PressImpl(w, s, cat, a) : Asked(a, e)
<1> USE Destinations
<1>1. CASE a.action \in DOMAIN Destination
  <2>1. PressImpl(w, s, cat, a) = Moved(Navigate(w, s, a.action))
    BY <1>1 DEF PressImpl, RunActions
  <2> QED
    BY <1>1, <2>1, NavigateTyped, MovedAsked
<1>2. CASE a.action \in Back
  <2>1. PressImpl(w, s, cat, a) = Moved(GoBack(w))
    BY <1>2 DEF PressImpl, RunActions, Back
  <2> QED
    BY <2>1, GoBackTyped, MovedAsked
<1>3. CASE a.action = "SelectProgram"
  <2>1. PressImpl(w, s, cat, a) = Moved(SelectProgram(w, cat, a.of))
    BY <1>3 DEF PressImpl, RunActions
  <2> QED
    BY <1>3, <2>1, SelectTyped, MovedAsked DEF Understood
<1>4. CASE a.action = "SelectMessage"
  <2>1. PressImpl(w, s, cat, a)
          = Moved(Push([w EXCEPT !.msg = TRUE], "MessageDetail"))
    BY <1>4 DEF PressImpl, RunActions
  <2>2. [w EXCEPT !.msg = TRUE] \in Workspaces
    BY DEF Workspaces
  <2> QED
    BY <2>1, <2>2, PushTyped, MovedAsked DEF AllPages
<1>5. CASE a.action \in Opened
  <2>1. PressImpl(w, s, cat, a) = Moved(BeginProgramEdit(w, a.action))
    BY <1>5 DEF PressImpl, RunActions, Opened
  <2> QED
    BY <1>5, <2>1, BeginEditTyped, MovedAsked
<1>6. CASE a.action \in Removed
  <2>1. PressImpl(w, s, cat, a) = RemoveOrReset(w, a.action)
    BY <1>6 DEF PressImpl, RunActions, Removed
  <2> QED
    BY <1>6, <2>1, RemoveAsked
<1>7. CASE a.action = "SaveProgram"
  <2>1. PressImpl(w, s, cat, a) = SaveProgram(w)
    BY <1>7 DEF PressImpl, RunActions
  <2> QED
    BY <2>1, SaveAsked
<1>8. CASE a.action \in EditorRows
  <2>1. PressImpl(w, s, cat, a) = ProgramEditCell(w, cat, a.action)
    BY <1>8 DEF PressImpl, RunActions, EditorRows
  <2> QED
    BY <1>8, <2>1, EditorCellAsked DEF Understood
<1>9. CASE a.action \in StartRows
  <2>1. PressImpl(w, s, cat, a) = StartValueCell(w, a.action)
    BY <1>9 DEF PressImpl, RunActions, StartRows
  <2> QED
    BY <1>9, <2>1, StartCellAsked
<1>10. CASE a.action = "ResetStartValues"
  <2>1. PressImpl(w, s, cat, a) = Moved([w EXCEPT !.cand = "stored"])
    BY <1>10 DEF PressImpl, RunActions
  <2>2. [w EXCEPT !.cand = "stored"] \in Workspaces
    BY DEF Workspaces
  <2> QED
    BY <2>1, <2>2, MovedAsked
<1>11. CASE a.action = "ValueEditCommit"
  <2>1. PressImpl(w, s, cat, a) = CommitValueEdit(w)
    BY <1>11 DEF PressImpl, RunActions
  <2> QED
    BY <2>1, CommitValueAsked
<1>12. CASE a.action = "TextEditCommit"
  <2>1. PressImpl(w, s, cat, a) = CommitTextEdit(w)
    BY <1>12 DEF PressImpl, RunActions
  <2> QED
    BY <2>1, CommitTextAsked
<1>13. CASE a.action = "EditDeviceName"
  <2>1. PressImpl(w, s, cat, a)
          = Moved([w EXCEPT !.stack = Append(@, "TextEdit"),
                            !.text = "DeviceName", !.input = "ok"])
    BY <1>13 DEF PressImpl, RunActions
  <2>2. [w EXCEPT !.stack = Append(@, "TextEdit"), !.text = "DeviceName",
                  !.input = "ok"] \in Workspaces
    BY InputTyped
  <2> QED
    BY <2>1, <2>2, MovedAsked
<1>14. CASE a.action \in Keys
  <2>1. PressImpl(w, s, cat, a) = EditInput(w)
    BY <1>14 DEF PressImpl, RunActions, Keys
  <2> QED
    BY <2>1, InputAsked
<1>15. CASE a.action \in PinKeys
  <2>1. PressImpl(w, s, cat, a) = PinPadCell(w, a.action)
    BY <1>15 DEF PressImpl, RunActions, PinKeys
  <2> QED
    BY <1>15, <2>1, PinPadAsked
<1>16. CASE a.action = "ServicePinCommit"
  <2>1. PressImpl(w, s, cat, a)
          = Pressed([w EXCEPT !.pin = 0], Request("verifyServicePin"))
    BY <1>16 DEF PressImpl, RunActions
  <2>2. [w EXCEPT !.pin = 0] \in Workspaces
    BY DEF Workspaces
  <2> QED
    BY <2>1, <2>2, AskedKind DEF RequestKinds, ResetKinds
<1>17. CASE a.action = "ServiceSignOut"
  <2>1. PressImpl(w, s, cat, a) = Pressed(w, Request("endServiceSession"))
    BY <1>17 DEF PressImpl, RunActions
  <2> QED
    BY <2>1, AskedKind DEF RequestKinds, ResetKinds
<1>18. CASE a.action \in ResetKinds
  <2>1. PressImpl(w, s, cat, a) = FactoryResetPress(w, a.action)
    BY <1>18 DEF PressImpl, RunActions, ResetKinds
  <2> QED
    BY <1>18, <2>1, ResetPressAsked
<1>19. CASE a.action \in RunActions
  <2>1. PressImpl(w, s, cat, a) = Pressed(w, Request(a.action))
    BY <1>19 DEF PressImpl, RunActions
  <2>2. a.action \in RequestKinds
    BY <1>19 DEF RequestKinds
  <2> QED
    BY <2>1, <2>2, AskedKind
<1>20. CASE a.action \in Sent
  <2>1. PressImpl(w, s, cat, a) = Pressed(w, Request(a.action))
    BY <1>20 DEF PressImpl, RunActions, Sent
  <2>2. a.action \in RequestKinds
    BY <1>20 DEF RequestKinds, Sent
  <2> QED
    BY <2>1, <2>2, AskedKind
<1>21. CASE a.action = "TextEditMode"
  <2>1. PressImpl(w, s, cat, a) = Moved(w)
    BY <1>21 DEF PressImpl, RunActions
  <2> QED
    BY <2>1, MovedAsked
<1> HIDE Destinations
<1> QED
  BY <1>1, <1>2, <1>3, <1>4, <1>5, <1>6, <1>7, <1>8, <1>9, <1>10, <1>11,
     <1>12, <1>13, <1>14, <1>15, <1>16, <1>17, <1>18, <1>19, <1>20, <1>21
     DEF Understood, Actions, Rows, Single

\* A step of the factory reset is asked for where the snapshot allows it.
AllowedByView(s, kind) ==
    /\ kind = "FactoryResetBegin" => s.available
    /\ kind = "FactoryResetBeginPinProtected" => s.pinAvailable
    /\ kind = "FactoryResetDismiss" => s.stage = "Finished"

\* Whatever is touched, the effect is a workspace and a request, and a step of
\* the factory reset is requested only where the snapshot allows it.
LEMMA PressSound ==
  ASSUME NEW w \in Workspaces, NEW s \in Snapshots, NEW cat \in Catalogs,
         NEW a \in Touchable(w, s, cat), a.action # "FactoryResetHold",
         NEW e \in Press(w, s, cat, a)
  PROVE  e \in Effects /\ AllowedByView(s, e.request.kind)
<1>1. Understood(w, s, cat, a)
  BY TouchesKnown
<1>2. PICK d \in PressImpl(w, s, cat, a) :
        e = IF /\ Top(w) = "FactoryReset"
               /\ Top(d.ws) # "FactoryReset"
               /\ d.request.kind = "none"
            THEN [d EXCEPT !.request = Request(IF s.stage = "Finished"
                                               THEN "FactoryResetDismiss"
                                               ELSE "FactoryResetCancel")]
            ELSE d
  BY DEF Press
<1>3. Asked(a, d)
  BY <1>1, PressImplAsked
<1>4. CASE e = d
  BY <1>1, <1>3, <1>4 DEF Asked, AllowedByView, Understood, ResetKinds
<1> DEFINE kind == IF s.stage = "Finished" THEN "FactoryResetDismiss"
                   ELSE "FactoryResetCancel"
<1>5. CASE e = [d EXCEPT !.request = Request(kind)]
  <2>1. kind \in RequestKinds /\ AllowedByView(s, kind)
    BY DEF RequestKinds, ResetKinds, AllowedByView
  <2> HIDE DEF kind
  <2>2. Request(kind) \in PanelRequests /\ Request(kind).kind = kind
    BY <2>1, RequestTyped
  <2>3. d \in Effects
    BY <1>3 DEF Asked
  <2>4. e \in Effects /\ e.request = Request(kind)
    BY <1>5, <2>2, <2>3 DEF Effects
  <2> QED
    BY <2>1, <2>2, <2>4
<1> QED
  BY <1>2, <1>4, <1>5

-----------------------------------------------------------------------------
(* The touch surface: the inductive invariant *)

PanelTypeOK ==
    /\ ws \in Workspaces
    /\ app \in Applications
    /\ flow \in Flows
    /\ gate \in {"Allowed", "AwaitRelease", "AwaitContact"}
    /\ ui \in {"idle", "ready", "core", "kdf"}
    /\ snap \in Snapshots
    /\ stale \in SUBSET {"run", "config", "lease"}
    /\ watched \in [acks : 0..2, grip : -1..HoldTicks]

\* The programs of the factory stay in the catalog, and so does the one that
\* runs.
Listing(a) ==
    /\ \A p \in FactoryPrograms : a.cat[p].there
    /\ a.run # NoProgram => a.cat[a.run].there

\* While a touch may be handled, the snapshot shows the flow as it is: what
\* others change in between is not the flow.
SnapTrue ==
    ui = "ready" =>
        /\ snap.stage = flow.stage
        /\ snap.available \/ snap.pinAvailable => snap.stage = "Idle"

\* The stage of the flow tells how often this flow was acknowledged.
AcksTold ==
    /\ flow.stage # "PinRequired"
    /\ flow.stage = "Warning" => watched.acks = 0
    /\ flow.stage = "Confirm" => watched.acks = 1
    /\ flow.stage = "Hold" => watched.acks = 2

\* The hold counts no step the contact was not seen for; after a skipped step
\* it counts nothing before a release was seen.
HoldTold ==
    /\ watched.grip < 0 => /\ gate = "AwaitRelease"
                           /\ flow.stage = "Hold" => flow.held = 0
    /\ flow.stage = "Hold" /\ watched.grip >= 0 => flow.held <= watched.grip

PanelInv ==
    /\ PanelTypeOK
    /\ Listing(app)
    /\ SnapTrue
    /\ AcksTold
    /\ HoldTold

-----------------------------------------------------------------------------
(* The touch surface: the operators keep the invariant *)

\* The operations of FactoryResetFlow.
LEMMA FlowTyped ==
  ASSUME NEW f \in Flows, NEW a, NEW held \in BOOLEAN,
         NEW kind \in FlowKinds
  PROVE  /\ IdleFlow \in Flows
         /\ Begin(f, kind) \in Flows
         /\ PinVerified(f) \in Flows
         /\ Acknowledge(f) \in Flows
         /\ Cancel(f) \in Flows
         /\ UpdateHold(f, held) \in Flows
         /\ Finish(f) \in Flows
         /\ Dismiss(f) \in Flows
         /\ CancelPinProtectedFlow(f) \in Flows
         /\ HoldReport(a, f, held) \in Flows
<1>1. IdleFlow \in Flows
  BY DEF IdleFlow, Flows, FlowStages, FlowKinds
<1>2. Begin(f, kind) \in Flows
  BY DEF Begin, Flows, FlowStages, FlowKinds
<1>3. ASSUME NEW stage \in FlowStages, NEW h \in Nat
      PROVE  /\ [f EXCEPT !.stage = stage] \in Flows
             /\ [f EXCEPT !.stage = stage, !.held = h] \in Flows
             /\ [f EXCEPT !.held = h] \in Flows
  BY <1>3 DEF Flows
<1>4. PinVerified(f) \in Flows
  BY <1>3 DEF PinVerified, FlowStages
<1>5. Acknowledge(f) \in Flows
  BY <1>3 DEF Acknowledge, FlowStages
<1>6. Cancel(f) \in Flows
  BY <1>1 DEF Cancel
<1>7. UpdateHold(f, held) \in Flows
  <2>1. f.held + 1 \in Nat
    BY DEF Flows
  <2> QED
    BY <1>3, <2>1 DEF UpdateHold, FlowStages
<1>8. Finish(f) \in Flows
  BY <1>3 DEF Finish, FlowStages
<1>9. Dismiss(f) \in Flows
  BY <1>1 DEF Dismiss
<1>10. CancelPinProtectedFlow(f) \in Flows
  BY <1>1 DEF CancelPinProtectedFlow
<1>11. HoldReport(a, f, held) \in Flows
  BY <1>1, <1>7 DEF HoldReport
<1> QED
  BY <1>1, <1>2, <1>4, <1>5, <1>6, <1>7, <1>8, <1>9, <1>10, <1>11

\* A released hold counts nothing, and changes the stage only to Idle.
LEMMA Released ==
  ASSUME NEW f \in Flows, NEW a
  PROVE  LET g == HoldReport(a, f, FALSE) IN
         /\ g.stage \in {f.stage, "Idle"}
         /\ g.stage = "Hold" => g.held = 0
<1> DEFINE g == HoldReport(a, f, FALSE)
<1>1. g \in {IdleFlow, f, [f EXCEPT !.held = 0]}
  BY DEF HoldReport, UpdateHold
<1>2. f.stage = "Hold" => g \in {IdleFlow, [f EXCEPT !.held = 0]}
  BY DEF HoldReport, UpdateHold
<1>3. [f EXCEPT !.held = 0].stage = f.stage /\ [f EXCEPT !.held = 0].held = 0
  BY DEF Flows
<1>4. IdleFlow.stage = "Idle"
  BY DEF IdleFlow
<1> HIDE DEF g
<1> QED
  BY <1>1, <1>2, <1>3, <1>4 DEF g

\* A PIN-protected flow ends with its lease, any other goes on.
LEMMA Cancelled ==
  ASSUME NEW f \in Flows, NEW a
  PROVE  /\ CancelPinProtectedFlow(f) \in {f, IdleFlow}
         /\ UpdatedFlow(a, f) \in {f, IdleFlow}
         /\ UpdatedFlow(a, f) \in Flows
         /\ IdleFlow.stage = "Idle"
<1>1. IdleFlow \in Flows
  BY DEF IdleFlow, Flows, FlowStages, FlowKinds
<1> QED
  BY <1>1 DEF CancelPinProtectedFlow, UpdatedFlow, IdleFlow

\* The end of the lease at the start of a step.
LEMMA UpdateKept ==
  ASSUME NEW a \in Applications, Listing(a)
  PROVE  /\ Update(a) \in Applications
         /\ Listing(Update(a))
         /\ Update(a).run = a.run /\ Update(a).cat = a.cat
<1>1. /\ [a EXCEPT !.lease = FALSE] \in Applications
      /\ [a EXCEPT !.lease = FALSE].run = a.run
      /\ [a EXCEPT !.lease = FALSE].cat = a.cat
  BY DEF Applications
<1> QED
  BY <1>1 DEF Update, Listing

\* A snapshot arms the begin of a reset only while no flow runs.
LEMMA SnapshotTyped ==
  ASSUME NEW a \in Applications, NEW f \in Flows
  PROVE  /\ Snapshot(a, f) \in Snapshots
         /\ Snapshot(a, f).stage = f.stage
         /\ Snapshot(a, f).available => f.stage = "Idle"
         /\ Snapshot(a, f).pinAvailable => f.stage = "Idle"
         /\ NoSnap \in Snapshots
<1>1. HomeMode(a) \in HomeModes
  BY DEF HomeMode, HomeModes, Applications, Lives, Procs
<1>2. /\ a.proc \in Procs /\ a.run \in Chosen /\ a.message \in BOOLEAN
      /\ f.stage \in FlowStages /\ f.kind \in FlowKinds
  BY DEF Applications, Flows
<1>3. /\ LocalServiceAvailable(a) \in BOOLEAN
      /\ FactoryResetAvailable(a) \in BOOLEAN
      /\ FactoryResetRecoveryEntry(a) \in BOOLEAN
  BY DEF LocalServiceAvailable, LocalServiceEntryAllowed,
         FactoryResetAvailable, FactoryResetRecoveryEntry, Applications
<1>4. Snapshot(a, f) =
        [mode |-> HomeMode(a), proc |-> a.proc, run |-> a.run,
         stage |-> f.stage, kind |-> f.kind,
         available |-> f.stage = "Idle" /\ FactoryResetAvailable(a),
         pinAvailable |-> /\ f.stage = "Idle"
                          /\ FactoryResetAvailable(a)
                          /\ LocalServiceAvailable(a),
         recoveryEntry |-> FactoryResetRecoveryEntry(a),
         service |-> LocalServiceAvailable(a), message |-> a.message]
  BY DEF Snapshot, FactoryResetView
<1>5. NoSnap \in Snapshots
  BY DEF NoSnap, Snapshots, HomeModes, Procs, Chosen, FlowStages, FlowKinds
<1>6. ASSUME NEW shown \in HomeModes, NEW available \in BOOLEAN,
             NEW pinAvailable \in BOOLEAN, NEW entry \in BOOLEAN,
             NEW service \in BOOLEAN
      PROVE  [mode |-> shown, proc |-> a.proc, run |-> a.run,
              stage |-> f.stage, kind |-> f.kind, available |-> available,
              pinAvailable |-> pinAvailable, recoveryEntry |-> entry,
              service |-> service, message |-> a.message] \in Snapshots
  BY <1>2, <1>6 DEF Snapshots
<1>7. /\ (f.stage = "Idle" /\ FactoryResetAvailable(a)) \in BOOLEAN
      /\ (/\ f.stage = "Idle"
          /\ FactoryResetAvailable(a)
          /\ LocalServiceAvailable(a)) \in BOOLEAN
  OBVIOUS
<1> DEFINE available == f.stage = "Idle" /\ FactoryResetAvailable(a)
           pinAvailable == /\ f.stage = "Idle"
                           /\ FactoryResetAvailable(a)
                           /\ LocalServiceAvailable(a)
           home == HomeMode(a)
           entry == FactoryResetRecoveryEntry(a)
           service == LocalServiceAvailable(a)
           view == [mode |-> home, proc |-> a.proc, run |-> a.run,
                    stage |-> f.stage, kind |-> f.kind,
                    available |-> available, pinAvailable |-> pinAvailable,
                    recoveryEntry |-> entry, service |-> service,
                    message |-> a.message]
<1>a. Snapshot(a, f) = view
  BY <1>4
<1>b. /\ home \in HomeModes /\ available \in BOOLEAN
      /\ pinAvailable \in BOOLEAN /\ entry \in BOOLEAN /\ service \in BOOLEAN
  BY <1>1, <1>3, <1>7
<1>8. Snapshot(a, f) \in Snapshots
  <2> HIDE DEF home, available, pinAvailable, entry, service
  <2>1. view \in Snapshots
    BY <1>6, <1>b
  <2> QED
    BY <2>1, <1>a
<1>9. /\ Snapshot(a, f).stage = f.stage
      /\ Snapshot(a, f).available
           = (f.stage = "Idle" /\ FactoryResetAvailable(a))
      /\ Snapshot(a, f).pinAvailable
           = (/\ f.stage = "Idle"
              /\ FactoryResetAvailable(a)
              /\ LocalServiceAvailable(a))
  BY <1>4
<1> QED
  BY <1>5, <1>8, <1>9

\* What no page shows any more is forgotten.
LEMMA SettledTyped ==
  ASSUME NEW w \in Workspaces
  PROVE  Settled(w) \in Workspaces
<1> DEFINE shown == Range(w.stack)
           program == shown \cap {"ProgramSummary", "ProgramActions",
                                  "ProgramEdit"} # {}
           summary == "ProgramSummary" \in shown
           editor == "ProgramEdit" \in shown
           list == "ProgramList" \in shown
           sel == IF program THEN w.sel ELSE NoProgram
           cand == IF summary THEN w.cand ELSE "none"
           op == IF editor THEN w.op ELSE "Edit"
           edit == IF editor THEN w.edit ELSE "none"
           intent == IF list THEN w.intent ELSE "Start"
           w1 == [w EXCEPT !.sel = sel]
           w2 == [w1 EXCEPT !.cand = cand]
           w3 == [w2 EXCEPT !.op = op]
           w4 == [w3 EXCEPT !.edit = edit]
           w5 == [w4 EXCEPT !.intent = intent]
<1>1. Settled(w) = w5
  BY DEF Settled
<1>2. /\ sel \in Chosen /\ cand \in {"none", "stored", "changed", "bad"}
      /\ op \in EditOps /\ edit \in Edits /\ intent \in {"Start", "Manage"}
  BY DEF Workspaces, Chosen, EditOps, Edits
<1> HIDE DEF sel, cand, op, edit, intent
<1>3. w1 \in Workspaces
  BY <1>2, FieldTyped
<1> HIDE DEF w1
<1>4. w2 \in Workspaces
  BY <1>2, <1>3, FieldTyped
<1> HIDE DEF w2
<1>5. w3 \in Workspaces
  BY <1>2, <1>4, FieldTyped
<1> HIDE DEF w3
<1>6. w4 \in Workspaces
  BY <1>2, <1>5, FieldTyped
<1> HIDE DEF w4
<1>7. w5 \in Workspaces
  BY <1>2, <1>6, FieldTyped
<1> QED
  BY <1>1, <1>7

\* The outcomes of an edit and of a PIN are noted.
LEMMA NotedTyped ==
  ASSUME NEW w \in Workspaces, NEW accepted
  PROVE  /\ NoteProgramEditOutcome(w, accepted) \in Workspaces
         /\ NoteServicePinAuthorized(w) \in Workspaces
<1>1. [w EXCEPT !.dirty = FALSE, !.edit = "none"] \in Workspaces
  BY DEF Workspaces, Edits
<1>2. Append(Front(w.stack), "Service") \in Seq(AllPages) \ {<<>>}
  <2>1. w.stack \in Seq(AllPages) /\ w.stack # <<>>
    BY DEF Workspaces
  <2>2. Len(w.stack) \in Nat /\ Len(w.stack) >= 1
    BY <2>1
  <2>3. Front(w.stack) \in Seq(AllPages)
    BY <2>1, <2>2 DEF Front
  <2>4. "Service" \in AllPages
    BY DEF AllPages
  <2>5. Append(Front(w.stack), "Service") \in Seq(AllPages)
    BY <2>3, <2>4
  <2>6. /\ Len(Append(Front(w.stack), "Service")) = Len(Front(w.stack)) + 1
        /\ Len(Front(w.stack)) \in Nat
    BY <2>3
  <2> QED
    BY <2>5, <2>6
<1>3. ASSUME NEW stack \in Seq(AllPages) \ {<<>>}, NEW pin \in Int
      PROVE  [w EXCEPT !.stack = stack, !.pin = pin] \in Workspaces
  BY <1>3 DEF Workspaces
<1>4. NoteServicePinAuthorized(w) \in
        {w, GoBack(w), [w EXCEPT !.stack = Append(Front(@), "Service"),
                                 !.pin = 0]}
  BY DEF NoteServicePinAuthorized
<1> DEFINE stack == Append(Front(w.stack), "Service")
<1>5. NoteServicePinAuthorized(w) \in
        {w, GoBack(w), [w EXCEPT !.stack = stack, !.pin = 0]}
  BY <1>4
<1>6. stack \in Seq(AllPages) \ {<<>>} /\ 0 \in Int
  BY <1>2
<1> HIDE DEF stack
<1>7. [w EXCEPT !.stack = stack, !.pin = 0] \in Workspaces
  BY <1>3, <1>6
<1>8. NoteServicePinAuthorized(w) \in Workspaces
  BY <1>5, <1>7, GoBackTyped
<1> QED
  BY <1>1, <1>8 DEF NoteProgramEditOutcome

\* A run command starts only a listed program and changes no catalog.
LEMMA RunRequestKept ==
  ASSUME NEW a \in Applications, Listing(a), NEW w \in Workspaces, NEW kind,
         NEW b \in RunRequest(a, w, kind)
  PROVE  b \in Applications /\ Listing(b) /\ b.cat = a.cat
<1>1. ASSUME NEW proc \in Procs, NEW p \in Chosen,
             p # NoProgram => a.cat[p].there,
             b \in {[a EXCEPT !.proc = proc, !.run = p]}
      PROVE  b \in Applications /\ Listing(b) /\ b.cat = a.cat
  <2>1. b \in Applications /\ b.run = p /\ b.cat = a.cat
    BY <1>1 DEF Applications
  <2> QED
    BY <1>1, <2>1 DEF Listing
<1>2. CASE b = a
  BY <1>2
<1>3. CASE b = EndRun(a)
  BY <1>1, <1>3 DEF EndRun, Procs, Chosen
<1>4. ASSUME NEW p \in FactoryPrograms,
             b = [a EXCEPT !.proc = "Running", !.run = p]
      PROVE  b \in Applications /\ Listing(b) /\ b.cat = a.cat
  BY <1>1, <1>4 DEF Procs, Chosen, Programs, Listing
<1>5. CASE StartAccepted(a, w) /\ b = [a EXCEPT !.proc = "Running",
                                                !.run = w.sel]
  <2>1. w.sel \in Chosen /\ a.cat[w.sel].there
    BY <1>5 DEF StartAccepted, Startable, Listed, Workspaces
  <2> QED
    BY <1>1, <1>5, <2>1 DEF Procs
<1>6. CASE b = [a EXCEPT !.proc = "Running"]
  <2>1. b \in Applications /\ b.run = a.run /\ b.cat = a.cat
    BY <1>6 DEF Applications, Procs
  <2> QED
    BY <2>1 DEF Listing
<1>7. \/ b = a \/ b = EndRun(a)
      \/ StartAccepted(a, w) /\ b = [a EXCEPT !.proc = "Running", !.run = w.sel]
      \/ b = [a EXCEPT !.proc = "Running"]
      \/ \E p \in FactoryPrograms :
            b = [a EXCEPT !.proc = "Running", !.run = p]
  BY DEF RunRequest
<1> QED
  BY <1>2, <1>3, <1>4, <1>5, <1>6, <1>7

\* Whatever the core leaves, the factory programs are listed.
LEMMA ResetOutcomesKept ==
  ASSUME NEW a \in Applications, Listing(a), a.run = NoProgram,
         NEW b \in ResetOutcomes(a)
  PROVE  b \in Applications /\ Listing(b) /\ b.run = NoProgram
<1>1. FactoryCatalog \in Catalogs
  BY DEF FactoryCatalog, Catalogs, Entries, Shipped, NoDocument, Edits,
         Bodies
<1>2. \A p \in FactoryPrograms : FactoryCatalog[p].there
  BY DEF FactoryCatalog, Shipped, Programs
<1> DEFINE kept == [a EXCEPT !.admitted = FALSE]
           crossed == [a EXCEPT !.admitted = FALSE, !.lease = FALSE,
                                !.cat = FactoryCatalog]
<1>3. /\ kept \in Applications /\ kept.run = NoProgram /\ kept.cat = a.cat
  BY DEF Applications
<1>4. /\ crossed \in Applications /\ crossed.run = NoProgram
      /\ crossed.cat = FactoryCatalog
  BY <1>1 DEF Applications
<1>5. b \in {[crossed EXCEPT !.proc = "Standby", !.message = FALSE,
                    !.life = IF a.proc = "NoRuntime" THEN "ServiceRequired"
                             ELSE "Ready"],
             [crossed EXCEPT !.life = "ServiceRequired"], kept}
  BY DEF ResetOutcomes
<1> HIDE DEF kept, crossed
<1>6. CASE b = kept
  BY <1>3, <1>6 DEF Listing
<1>7. CASE b = [crossed EXCEPT !.life = "ServiceRequired"]
  <2>1. b \in Applications /\ b.run = NoProgram /\ b.cat = FactoryCatalog
    BY <1>4, <1>7 DEF Applications, Lives
  <2> QED
    BY <2>1, <1>2 DEF Listing
<1>8. CASE b = [crossed EXCEPT !.proc = "Standby", !.message = FALSE,
                    !.life = IF a.proc = "NoRuntime" THEN "ServiceRequired"
                             ELSE "Ready"]
  <2>1. b \in Applications /\ b.run = NoProgram /\ b.cat = FactoryCatalog
    BY <1>4, <1>8 DEF Applications, Lives, Procs
  <2> QED
    BY <2>1, <1>2 DEF Listing
<1> QED
  BY <1>5, <1>6, <1>7, <1>8

\* An accepted edit leaves the running program as it is: it changes another
\* entry, or one that was free.
LEMMA EditKept ==
  ASSUME NEW a \in Applications, Listing(a), NEW r \in PanelRequests,
         NEW cat \in ProgramEditRequest(a, r)
  PROVE  /\ cat \in Catalogs
         /\ \A p \in FactoryPrograms : cat[p].there
         /\ a.run # NoProgram => cat[a.run] = a.cat[a.run]
<1> DEFINE there == r.of # NoProgram /\ a.cat[r.of].there
<1>1. /\ a.cat \in Catalogs /\ a.run \in Chosen
      /\ r.of \in Chosen /\ r.op \in EditOps \cup {"none"} /\ r.body \in Edits
  BY DEF Applications, PanelRequests
<1>2. MutatesAddressedProgram(r.op) => r.of # a.run
  BY DEF ProgramEditRequest, IsInUse
<1>3. cat \in ApplyProgramEdit(a, r)
  BY DEF ProgramEditRequest
<1>4. ASSUME NEW p \in Programs, NEW d \in Entries, d.there, p # a.run,
             cat = [a.cat EXCEPT ![p] = d]
      PROVE  /\ cat \in Catalogs
             /\ \A q \in FactoryPrograms : cat[q].there
             /\ a.run # NoProgram => cat[a.run] = a.cat[a.run]
  <2>1. cat \in Catalogs
    BY <1>1, <1>4 DEF Catalogs
  <2>2. \A q \in Programs : cat[q] = IF q = p THEN d ELSE a.cat[q]
    BY <1>1, <1>4 DEF Catalogs
  <2> QED
    BY <1>1, <1>4, <2>1, <2>2 DEF Listing, Chosen, Programs
<1>5. ASSUME NEW body \in Edits,
             FreeUserIds(a.cat) # {},
             cat = [a.cat EXCEPT ![CHOOSE p \in FreeUserIds(a.cat) : TRUE] =
                      [there |-> TRUE, installed |-> TRUE, body |-> body]]
      PROVE  /\ cat \in Catalogs
             /\ \A q \in FactoryPrograms : cat[q].there
             /\ a.run # NoProgram => cat[a.run] = a.cat[a.run]
  <2> DEFINE p == CHOOSE p \in FreeUserIds(a.cat) : TRUE
             d == [there |-> TRUE, installed |-> TRUE, body |-> body]
  <2>1. p \in FreeUserIds(a.cat)
    BY <1>5
  <2>2. cat = [a.cat EXCEPT ![p] = d]
    BY <1>5
  <2> HIDE DEF p
  <2>3. p \in Programs /\ ~a.cat[p].there
    BY <2>1 DEF FreeUserIds, Programs
  <2>4. p # a.run
    BY <2>3, WorkspaceAssumption DEF Listing, Programs
  <2>5. d \in Entries /\ d.there
    BY DEF Entries
  <2> HIDE DEF d
  <2> QED
    BY <2>2, <2>3, <2>4, <2>5, <1>4
<1>6. CASE r.op = "New"
  <2> DEFINE body == IF r.body = "none" THEN "draft" ELSE r.body
  <2>1. body \in Edits
    BY <1>1 DEF Edits, Bodies
  <2>2. /\ FreeUserIds(a.cat) # {}
        /\ cat = [a.cat EXCEPT ![CHOOSE p \in FreeUserIds(a.cat) : TRUE] =
                      [there |-> TRUE, installed |-> TRUE, body |-> body]]
    BY <1>3, <1>6 DEF ApplyProgramEdit
  <2> HIDE DEF body
  <2> QED
    BY <2>1, <2>2, <1>5
<1>7. ASSUME there PROVE r.of \in Programs /\ a.cat[r.of] \in Entries
  BY <1>1, <1>7 DEF Chosen, Catalogs
<1>8. CASE r.op = "Copy" /\ there
  <2> DEFINE body == a.cat[r.of].body
  <2>1. body \in Edits
    BY <1>7, <1>8 DEF Entries
  <2>2. /\ FreeUserIds(a.cat) # {}
        /\ cat = [a.cat EXCEPT ![CHOOSE p \in FreeUserIds(a.cat) : TRUE] =
                      [there |-> TRUE, installed |-> TRUE, body |-> body]]
    BY <1>3, <1>8 DEF ApplyProgramEdit
  <2> HIDE DEF body
  <2> QED
    BY <2>1, <2>2, <1>5
<1>9. CASE r.op = "Reset" /\ there /\ r.of \in FactoryPrograms
  <2>1. cat = [a.cat EXCEPT ![r.of] = Shipped]
    BY <1>3, <1>9 DEF ApplyProgramEdit
  <2>2. Shipped \in Entries /\ Shipped.there
    BY DEF Shipped, Entries, Edits, Bodies
  <2>3. r.of # a.run
    BY <1>2, <1>9 DEF MutatesAddressedProgram
  <2> QED
    BY <1>7, <1>9, <2>1, <2>2, <2>3, <1>4
<1>10. CASE r.op = "Uninstall" /\ there /\ r.of \in FactoryPrograms
  <2> DEFINE d == [a.cat[r.of] EXCEPT !.installed = FALSE]
  <2>1. cat = [a.cat EXCEPT ![r.of] = d]
    BY <1>1, <1>3, <1>7, <1>10 DEF ApplyProgramEdit, Catalogs
  <2>2. d \in Entries /\ d.there
    BY <1>7, <1>10 DEF Entries
  <2>3. r.of # a.run
    BY <1>2, <1>10 DEF MutatesAddressedProgram
  <2> HIDE DEF d
  <2> QED
    BY <1>7, <1>10, <2>1, <2>2, <2>3, <1>4
<1>11. CASE r.op = "Edit" /\ there /\ r.body \in Bodies
  <2> DEFINE d == [a.cat[r.of] EXCEPT !.body = r.body]
  <2>1. cat = [a.cat EXCEPT ![r.of] = d]
    BY <1>1, <1>3, <1>7, <1>11 DEF ApplyProgramEdit, Catalogs
  <2>2. d \in Entries /\ d.there
    BY <1>1, <1>7, <1>11 DEF Entries
  <2>3. r.of # a.run
    BY <1>2, <1>11 DEF MutatesAddressedProgram
  <2> HIDE DEF d
  <2> QED
    BY <1>7, <1>11, <2>1, <2>2, <2>3, <1>4
<1>12. CASE r.op = "Delete" /\ there /\ r.of \in UserPrograms
  <2>1. cat = [a.cat EXCEPT ![r.of] = NoDocument]
    BY <1>3, <1>12 DEF ApplyProgramEdit
  <2>2. NoDocument \in Entries
    BY DEF NoDocument, Entries, Edits, Bodies
  <2>3. r.of # a.run
    BY <1>2, <1>12 DEF MutatesAddressedProgram
  <2>4. cat \in Catalogs
    BY <1>1, <2>1, <2>2 DEF Catalogs
  <2>5. \A q \in Programs : q # r.of => cat[q] = a.cat[q]
    BY <1>1, <2>1 DEF Catalogs
  <2>6. r.of \notin FactoryPrograms
    BY <1>12, WorkspaceAssumption
  <2> QED
    BY <1>1, <2>3, <2>4, <2>5, <2>6 DEF Listing, Chosen, Programs
<1> DEFINE create(body) ==
             IF FreeUserIds(a.cat) = {} THEN {}
             ELSE {[a.cat EXCEPT ![CHOOSE p \in FreeUserIds(a.cat) : TRUE] =
                     [there |-> TRUE, installed |-> TRUE, body |-> body]]}
           news == create(IF r.body = "none" THEN "draft" ELSE r.body)
           copies == create(a.cat[r.of].body)
           resets == {[a.cat EXCEPT ![r.of] = Shipped]}
           uninstalls == {[a.cat EXCEPT ![r.of].installed = FALSE]}
           deletes == {[a.cat EXCEPT ![r.of] = NoDocument]}
           edits == {[a.cat EXCEPT ![r.of].body = r.body]}
<1>13. ApplyProgramEdit(a, r) =
         CASE r.op = "New" -> news
           [] r.op = "Copy" /\ there -> copies
           [] r.op = "Reset" /\ there /\ r.of \in FactoryPrograms -> resets
           [] r.op = "Uninstall" /\ there /\ r.of \in FactoryPrograms ->
                  uninstalls
           [] r.op = "Delete" /\ there /\ r.of \in UserPrograms -> deletes
           [] r.op = "Edit" /\ there /\ r.body \in Bodies -> edits
           [] OTHER -> {}
  BY DEF ApplyProgramEdit
<1> HIDE DEF news, copies, resets, uninstalls, deletes, edits, there
<1>14. \/ r.op = "New"
       \/ r.op = "Copy" /\ there
       \/ r.op = "Reset" /\ there /\ r.of \in FactoryPrograms
       \/ r.op = "Uninstall" /\ there /\ r.of \in FactoryPrograms
       \/ r.op = "Edit" /\ there /\ r.body \in Bodies
       \/ r.op = "Delete" /\ there /\ r.of \in UserPrograms
  BY <1>3, <1>13
<1> QED
  BY <1>6, <1>8, <1>9, <1>10, <1>11, <1>12, <1>14

-----------------------------------------------------------------------------
(* The touch surface: the steps keep the invariant *)

\* The states after a boot.
LEMMA PanelInitInv ==
  PanelInit => PanelInv
<1> SUFFICES ASSUME PanelInit PROVE PanelInv
  OBVIOUS
<1> USE DEF PanelInit
<1>1. ws \in Workspaces
  <2>1. <<"Home">> \in Seq(AllPages) \ {<<>>}
    BY DEF AllPages
  <2> QED
    BY <2>1 DEF Workspaces, Chosen, EditOps, Edits
<1>2. app \in Applications /\ Listing(app)
  <2>1. PICK b \in Boots, cat \in [Programs -> {NoDocument, Shipped}] :
          /\ \A p \in FactoryPrograms : cat[p] = Shipped
          /\ app = [life |-> b[1], proc |-> b[2], run |-> b[3], cat |-> cat,
                    lease |-> FALSE, admitted |-> b[2] = "NoRuntime",
                    message |-> FALSE, edits |-> 0, world |-> 0]
    OBVIOUS
  <2>2. /\ b[1] \in Lives /\ b[2] \in Procs
        /\ b[3] \in FactoryPrograms \cup {NoProgram}
    BY WorkspaceAssumption DEF Lives, Procs
  <2>3. cat \in Catalogs
    <3>1. {NoDocument, Shipped} \subseteq Entries
      BY DEF NoDocument, Shipped, Entries, Edits, Bodies
    <3> QED
      BY <3>1 DEF Catalogs
  <2>4. (b[2] = "NoRuntime") \in BOOLEAN
    OBVIOUS
  <2>5. b[3] \in Chosen
    BY <2>2 DEF Chosen, Programs
  <2>6. app \in Applications
    BY <2>1, <2>2, <2>3, <2>4, <2>5 DEF Applications
  <2>7. Listing(app)
    BY <2>1, <2>2 DEF Listing, Shipped
  <2> QED
    BY <2>6, <2>7
<1>3. flow \in Flows /\ snap \in Snapshots
  BY DEF IdleFlow, Flows, FlowStages, FlowKinds, NoSnap, Snapshots, HomeModes,
         Procs, Chosen
<1>4. watched \in [acks : 0..2, grip : -1..HoldTicks]
  <2>1. HoldTicks \in Nat \ {0}
    BY WorkspaceAssumption
  <2>2. 0 \in 0..2 /\ 0 \in -1..HoldTicks
    BY <2>1
  <2> QED
    BY <2>2
<1>5. SnapTrue /\ AcksTold /\ HoldTold
  BY DEF SnapTrue, AcksTold, HoldTold, IdleFlow
<1> QED
  BY <1>1, <1>2, <1>3, <1>4, <1>5 DEF PanelInv, PanelTypeOK

\* The end of a step forgets the snapshot.
LEMMA EndStepTyped ==
  ASSUME EndStep
  PROVE  /\ ui' = "idle" /\ snap' \in Snapshots
         /\ stale' \in SUBSET {"run", "config", "lease"}
         /\ SnapTrue'
<1>1. NoSnap \in Snapshots
  BY DEF NoSnap, Snapshots, HomeModes, Procs, Chosen, FlowStages, FlowKinds
<1> QED
  BY <1>1 DEF EndStep, SnapTrue

\* A step begins: the lease may end, the snapshot is taken.
LEMMA BeginStepInv ==
  ASSUME PanelInv, BeginStep
  PROVE  PanelInv' /\ app'.cat = app.cat
<1> USE DEF PanelInv, PanelTypeOK
<1>1. /\ app' \in Applications /\ Listing(app') /\ app'.cat = app.cat
  BY UpdateKept DEF BeginStep
<1>2. flow' \in Flows /\ flow' \in {flow, IdleFlow}
  BY Cancelled DEF BeginStep
<1>3. /\ snap' \in Snapshots /\ snap'.stage = flow'.stage
      /\ snap'.available \/ snap'.pinAvailable => flow'.stage = "Idle"
  BY <1>1, <1>2, SnapshotTyped DEF BeginStep
<1>4. PanelTypeOK'
  BY <1>1, <1>2, <1>3 DEF BeginStep
<1>5. SnapTrue'
  BY <1>3 DEF SnapTrue
<1>6. AcksTold' /\ HoldTold'
  <2>1. CASE flow' = flow
    BY <2>1 DEF AcksTold, HoldTold, BeginStep
  <2>2. CASE flow' = IdleFlow
    BY <2>2 DEF AcksTold, HoldTold, BeginStep, IdleFlow
  <2> QED
    BY <1>2, <2>1, <2>2
<1>7. Listing(app)'
  BY <1>1 DEF Listing
<1> QED
  BY <1>1, <1>4, <1>5, <1>6, <1>7

\* A step is skipped: what is held counts nothing any more.
LEMMA SkipStepInv ==
  ASSUME PanelInv, SkipStep
  PROVE  PanelInv' /\ app'.cat = app.cat
<1> USE DEF PanelInv, PanelTypeOK
<1>1. /\ app' \in Applications /\ Listing(app') /\ app'.cat = app.cat
  BY UpdateKept DEF SkipStep
<1> DEFINE f == UpdatedFlow(app, flow)
<1>2. f \in Flows /\ f \in {flow, IdleFlow}
  BY Cancelled
<1>3. flow' = HoldReport(app', f, FALSE)
  BY DEF SkipStep
<1> HIDE DEF f
<1>4. /\ flow' \in Flows /\ flow'.stage \in {f.stage, "Idle"}
      /\ flow'.stage = "Hold" => flow'.held = 0
  BY <1>2, <1>3, FlowTyped, Released DEF FlowKinds
<1>5. flow'.stage \in {flow.stage, "Idle"}
  BY <1>2, <1>4 DEF IdleFlow
<1>6. /\ watched' \in [acks : 0..2, grip : -1..HoldTicks]
      /\ watched'.acks = watched.acks /\ watched'.grip = -1
  <2>1. -1 \in -1..HoldTicks
    BY WorkspaceAssumption
  <2>2. watched' = [watched EXCEPT !.grip = -1]
    BY DEF SkipStep
  <2> QED
    BY <2>1, <2>2
<1>7. /\ ui' = "idle" /\ snap' \in Snapshots /\ SnapTrue'
      /\ stale' \in SUBSET {"run", "config", "lease"}
  BY EndStepTyped DEF SkipStep
<1>8. PanelTypeOK'
  BY <1>1, <1>4, <1>6, <1>7 DEF SkipStep
<1>9. AcksTold'
  BY <1>5, <1>6 DEF AcksTold
<1>10. HoldTold'
  BY <1>4, <1>6 DEF HoldTold, SkipStep
<1>11. Listing(app)'
  BY <1>1 DEF Listing
<1> QED
  BY <1>1, <1>7, <1>8, <1>9, <1>10, <1>11

\* No contact: the hold is released.
LEMMA NoContactInv ==
  ASSUME PanelInv, NEW released \in BOOLEAN, NoContact(released)
  PROVE  PanelInv' /\ app' = app
<1> USE DEF PanelInv, PanelTypeOK
<1>1. snap.stage = flow.stage
  BY DEF NoContact, SnapTrue
<1>2. /\ flow' \in Flows /\ flow'.stage \in {flow.stage, "Idle"}
      /\ flow'.stage = "Hold" => flow'.held = 0
  <2>1. CASE snap.stage = "Hold"
    <3>1. flow' = HoldReport(app, flow, FALSE)
      BY <2>1 DEF NoContact
    <3> QED
      BY <3>1, FlowTyped, Released DEF FlowKinds
  <2>2. CASE snap.stage # "Hold"
    BY <1>1, <2>2 DEF NoContact
  <2> QED
    BY <2>1, <2>2
<1>3. /\ watched' \in [acks : 0..2, grip : -1..HoldTicks]
      /\ watched'.acks = watched.acks
      /\ watched'.grip = IF watched.grip < 0 /\ ~released THEN watched.grip
                         ELSE 0
  <2> DEFINE grip == IF watched.grip < 0 /\ ~released THEN watched.grip ELSE 0
  <2>1. grip \in -1..HoldTicks
    BY WorkspaceAssumption
  <2>2. watched' = [watched EXCEPT !.grip = grip]
    BY DEF NoContact
  <2> HIDE DEF grip
  <2>3. /\ watched' \in [acks : 0..2, grip : -1..HoldTicks]
        /\ watched'.acks = watched.acks /\ watched'.grip = grip
    BY <2>1, <2>2
  <2> QED
    BY <2>3 DEF grip
<1>4. /\ ui' = "idle" /\ snap' \in Snapshots /\ SnapTrue'
      /\ stale' \in SUBSET {"run", "config", "lease"}
  BY EndStepTyped DEF NoContact
<1>5. PanelTypeOK' /\ app' = app
  BY <1>2, <1>3, <1>4 DEF NoContact
<1>6. AcksTold'
  BY <1>2, <1>3 DEF AcksTold
<1>7. HoldTold'
  <2>1. watched'.grip < 0 => watched.grip < 0 /\ ~released
    BY <1>3
  <2>2. watched'.grip < 0 => gate' = "AwaitRelease"
    BY <2>1 DEF HoldTold, NoContact
  <2>3. watched.grip \in Int
    OBVIOUS
  <2>4. watched'.grip >= 0 => 0 <= watched'.grip
    BY <1>3, <2>3
  <2> QED
    BY <1>2, <2>2, <2>4 DEF HoldTold
<1>8. Listing(app)'
  BY <1>5 DEF Listing
<1> QED
  BY <1>4, <1>5, <1>6, <1>7, <1>8

\* The reset is over.
LEMMA FinishResetInv ==
  ASSUME PanelInv, FinishReset
  PROVE  PanelInv' /\ app' = app
<1> USE DEF PanelInv, PanelTypeOK
<1>1. flow' \in Flows /\ flow' = Finish(flow)
  BY FlowTyped DEF FinishReset, FlowKinds
<1>2. flow' = flow \/ flow'.stage = "Finished"
  BY <1>1 DEF Finish, Flows
<1>3. /\ ui' = "idle" /\ snap' \in Snapshots /\ SnapTrue'
      /\ stale' \in SUBSET {"run", "config", "lease"}
  BY EndStepTyped DEF FinishReset
<1>4. PanelTypeOK' /\ app' = app
  BY <1>1, <1>3 DEF FinishReset
<1>5. AcksTold' /\ HoldTold'
  <2>1. CASE flow' = flow
    BY <2>1 DEF AcksTold, HoldTold, FinishReset
  <2>2. CASE flow'.stage = "Finished"
    BY <2>2 DEF AcksTold, HoldTold, FinishReset
  <2> QED
    BY <1>2, <2>1, <2>2
<1>6. Listing(app)'
  BY <1>4 DEF Listing
<1> QED
  BY <1>3, <1>4, <1>5, <1>6

\* The PIN was checked: a new lease ends a flow begun under an earlier one.
LEMMA PinCheckedInv ==
  ASSUME PanelInv, NEW accepted \in BOOLEAN, PinChecked(accepted)
  PROVE  PanelInv' /\ app'.cat = app.cat
<1> USE DEF PanelInv, PanelTypeOK
<1>1. /\ app' \in Applications /\ app'.cat = app.cat /\ app'.run = app.run
      /\ flow' \in Flows /\ flow' \in {flow, IdleFlow}
      /\ ws' \in Workspaces
  <2>1. CASE accepted /\ LocalServiceEntryAllowed(app)
    <3>1. /\ app' = [app EXCEPT !.lease = TRUE]
          /\ flow' = CancelPinProtectedFlow(flow)
          /\ ws' = NoteServicePinAuthorized(ws)
      BY <2>1 DEF PinChecked
    <3>2. /\ app' \in Applications /\ app'.cat = app.cat
          /\ app'.run = app.run
      BY <3>1 DEF Applications
    <3> QED
      BY <3>1, <3>2, FlowTyped, Cancelled, NotedTyped DEF FlowKinds
  <2>2. CASE ~(accepted /\ LocalServiceEntryAllowed(app))
    BY <2>2 DEF PinChecked
  <2> QED
    BY <2>1, <2>2
<1>2. /\ ui' = "idle" /\ snap' \in Snapshots /\ SnapTrue'
      /\ stale' \in SUBSET {"run", "config", "lease"}
      /\ gate' = gate /\ watched' = watched
  BY EndStepTyped DEF PinChecked
<1>3. PanelTypeOK'
  BY <1>1, <1>2
<1>4. AcksTold' /\ HoldTold'
  <2>1. CASE flow' = flow
    BY <1>2, <2>1 DEF AcksTold, HoldTold
  <2>2. CASE flow' = IdleFlow
    BY <1>2, <2>2 DEF AcksTold, HoldTold, IdleFlow
  <2> QED
    BY <1>1, <2>1, <2>2
<1>5. Listing(app)'
  BY <1>1 DEF Listing
<1> QED
  BY <1>1, <1>2, <1>3, <1>4, <1>5

\* Everyone else changes the application only, and no program.
LEMMA WorldInv ==
  ASSUME PanelInv, NEW change \in {"run", "config", "lease"},
         NEW a \in Applications, Listing(a), a.cat = app.cat,
         World(change, a)
  PROVE  PanelInv' /\ app'.cat = app.cat /\ ui' = ui
<1> USE DEF PanelInv, PanelTypeOK
<1>1. app' = [a EXCEPT !.world = a.world + 1]
  BY DEF World
<1>2. /\ app' \in Applications /\ app'.cat = app.cat /\ app'.run = a.run
  BY <1>1 DEF Applications
<1>3. Listing(app)'
  BY <1>2 DEF Listing
<1>4. stale' \in SUBSET {"run", "config", "lease"}
  BY DEF World
<1>5. /\ ws' = ws /\ flow' = flow /\ gate' = gate /\ ui' = ui
      /\ snap' = snap /\ watched' = watched
  BY DEF World
<1>6. PanelTypeOK'
  BY <1>2, <1>4, <1>5
<1>7. SnapTrue' /\ AcksTold' /\ HoldTold'
  BY <1>5 DEF SnapTrue, AcksTold, HoldTold
<1> QED
  BY <1>2, <1>3, <1>5, <1>6, <1>7

\* The browser, the process and the clock.
LEMMA OthersInv ==
  ASSUME PanelInv,
         \/ WebStart \/ WebStop \/ ProcessMoves \/ MessageChanges
         \/ WebConfiguration \/ LeaseExpires
  PROVE  PanelInv' /\ app'.cat = app.cat /\ ui' = ui
<1>0. app \in Applications /\ Listing(app)
  BY DEF PanelInv, PanelTypeOK
<1>1. ASSUME NEW proc \in Procs, NEW p \in Chosen,
             p # NoProgram => app.cat[p].there
      PROVE  LET a == [app EXCEPT !.proc = proc, !.run = p] IN
             a \in Applications /\ Listing(a) /\ a.cat = app.cat
  <2> DEFINE a == [app EXCEPT !.proc = proc, !.run = p]
  <2>1. a \in Applications /\ a.run = p /\ a.cat = app.cat
    BY <1>0, <1>1 DEF Applications
  <2> HIDE DEF a
  <2>2. Listing(a)
    BY <1>0, <1>1, <2>1 DEF Listing
  <2> QED
    BY <2>1, <2>2 DEF a
<1>2. CASE WebStart
  <2>1. PICK p \in Programs :
          /\ Startable(app.cat, p)
          /\ World("run", [app EXCEPT !.proc = "Running", !.run = p])
    BY <1>2 DEF WebStart
  <2>2. p \in Chosen /\ app.cat[p].there /\ "Running" \in Procs
    BY <2>1 DEF Startable, Listed, Chosen, Procs
  <2> DEFINE a == [app EXCEPT !.proc = "Running", !.run = p]
  <2>3. a \in Applications /\ Listing(a) /\ a.cat = app.cat
    BY <1>1, <2>2
  <2>4. World("run", a)
    BY <2>1
  <2> HIDE DEF a
  <2> QED
    BY <2>3, <2>4, WorldInv
<1>3. CASE WebStop
  <2> DEFINE a == EndRun(app)
  <2>1. a \in Applications /\ Listing(a) /\ a.cat = app.cat
    BY <1>1 DEF EndRun, Procs, Chosen
  <2>2. World("run", a)
    BY <1>3 DEF WebStop
  <2> HIDE DEF a
  <2> QED
    BY <2>1, <2>2, WorldInv
<1>4. CASE ProcessMoves
  <2>1. PICK proc \in {"WaitingForProduct", "Completed", "Fault"} :
          World("run", [app EXCEPT !.proc = proc])
    BY <1>4 DEF ProcessMoves
  <2> DEFINE a == [app EXCEPT !.proc = proc]
  <2>2. a \in Applications /\ a.run = app.run /\ a.cat = app.cat
    BY <1>0 DEF Applications, Procs
  <2>3. World("run", a)
    BY <2>1
  <2> HIDE DEF a
  <2>4. Listing(a)
    BY <1>0, <2>2 DEF Listing
  <2> QED
    BY <2>2, <2>3, <2>4, WorldInv
<1>5. CASE MessageChanges
  <2> DEFINE a == [app EXCEPT !.message = ~app.message]
  <2>1. (~app.message) \in BOOLEAN
    OBVIOUS
  <2>2. a \in Applications /\ a.run = app.run /\ a.cat = app.cat
    BY <1>0, <2>1 DEF Applications
  <2>3. World("run", a)
    BY <1>5 DEF MessageChanges
  <2> HIDE DEF a
  <2>4. Listing(a)
    BY <1>0, <2>2 DEF Listing
  <2> QED
    BY <2>2, <2>3, <2>4, WorldInv
<1>6. CASE WebConfiguration
  <2>1. World("config", app)
    BY <1>6 DEF WebConfiguration
  <2> QED
    BY <1>0, <2>1, WorldInv
<1>7. CASE LeaseExpires
  <2> DEFINE a == [app EXCEPT !.lease = FALSE]
  <2>1. a \in Applications /\ a.run = app.run /\ a.cat = app.cat
    BY <1>0 DEF Applications
  <2>2. World("lease", a)
    BY <1>7 DEF LeaseExpires
  <2> HIDE DEF a
  <2>3. Listing(a)
    BY <1>0, <2>1 DEF Listing
  <2> QED
    BY <2>1, <2>2, <2>3, WorldInv
<1> QED
  BY <1>2, <1>3, <1>4, <1>5, <1>6, <1>7

\* The step that may let the core run.  A report that fires was the last of
\* HoldTicks ones of the same contact.
LEMMA HoldContactInv ==
  ASSUME PanelInv, HoldContact
  PROVE  /\ PanelInv'
         /\ app.run # NoProgram => app' = app
         /\ ui' = "core" =>
               /\ app.run = NoProgram
               /\ watched.acks = 2
               /\ watched.grip >= HoldTicks
               /\ flow.kind = "PinProtected" => LocalServiceAvailable(app)
<1> USE DEF PanelInv, PanelTypeOK
<1> DEFINE allowed == ObserveContact = "Allowed"
           held == HoldReport(app, flow, allowed)
           fires == held.stage = "Executing" /\ flow.stage = "Hold"
           rejected == ResetRejected(app, held)
           grip == IF watched.grip < 0 \/ watched.grip >= HoldTicks
                   THEN watched.grip ELSE watched.grip + 1
<1>1. HoldTicks \in Nat \ {0} /\ watched.grip \in -1..HoldTicks
  BY WorkspaceAssumption
<1>2. /\ ui = "ready" /\ snap.stage = "Hold" /\ gate' = ObserveContact
      /\ watched' = [watched EXCEPT !.grip = grip]
      /\ ws' = ws
  BY DEF HoldContact
<1>3. \/ ~fires /\ flow' = held /\ EndStep /\ app' = app
      \/ fires /\ rejected /\ flow' = Finish(held) /\ EndStep /\ app' = app
      \/ /\ fires /\ ~rejected /\ flow' = held
         /\ app' \in ResetOutcomes(app) /\ ui' = "core"
         /\ snap' = snap /\ stale' = stale
  BY DEF HoldContact
<1>4. flow.stage = "Hold"
  BY <1>2 DEF SnapTrue
<1>5. held \in Flows /\ Finish(held) \in Flows
  <2>1. allowed \in BOOLEAN
    OBVIOUS
  <2> HIDE DEF allowed
  <2>2. held \in Flows
    BY <2>1, FlowTyped DEF FlowKinds
  <2> HIDE DEF held
  <2> QED
    BY <2>2, FlowTyped DEF FlowKinds
<1>6. /\ watched' \in [acks : 0..2, grip : -1..HoldTicks]
      /\ watched'.acks = watched.acks /\ watched'.grip = grip
  <2>1. grip \in -1..HoldTicks
    BY <1>1
  <2> HIDE DEF grip
  <2> QED
    BY <1>2, <2>1
\* What one report makes of the flow.
<1>7. \/ held = IdleFlow
      \/ ~allowed /\ held = [flow EXCEPT !.held = 0]
      \/ /\ allowed /\ flow.held <= HoldTicks - 1
         /\ held = [flow EXCEPT !.held = flow.held + 1]
      \/ /\ allowed /\ ~(flow.held <= HoldTicks - 1)
         /\ held = [flow EXCEPT !.stage = "Executing", !.held = 0]
         /\ ~PinProtectedFlowLeaseLost(app, flow)
  BY <1>4 DEF HoldReport, UpdateHold
<1>8. /\ gate' \in {"Allowed", "AwaitRelease", "AwaitContact"}
      /\ gate = "AwaitRelease" => gate' = "AwaitRelease" /\ ~allowed
  BY <1>2 DEF ObserveContact
<1>9. flow.held \in Nat
  BY DEF Flows
<1>10. watched.grip < 0 => gate = "AwaitRelease" /\ ~allowed
  BY <1>8 DEF HoldTold
<1>11. watched.grip >= 0 => flow.held <= watched.grip
  BY <1>4 DEF HoldTold
\* The fields of the report, case by case.
<1>12. /\ IdleFlow.stage = "Idle"
       /\ [flow EXCEPT !.held = 0].stage = "Hold"
       /\ [flow EXCEPT !.held = 0].held = 0
       /\ [flow EXCEPT !.held = flow.held + 1].stage = "Hold"
       /\ [flow EXCEPT !.held = flow.held + 1].held = flow.held + 1
       /\ [flow EXCEPT !.stage = "Executing", !.held = 0].stage = "Executing"
       /\ [flow EXCEPT !.stage = "Executing", !.held = 0].kind = flow.kind
  BY <1>4 DEF Flows, IdleFlow
<1> HIDE DEF held, allowed, grip
<1>13. fires => /\ allowed /\ flow.held >= HoldTicks
                /\ held.kind = flow.kind
                /\ watched.grip >= HoldTicks
  <2>1. fires => /\ allowed /\ ~(flow.held <= HoldTicks - 1)
                 /\ held.kind = flow.kind
    BY <1>7, <1>12
  <2> QED
    BY <2>1, <1>1, <1>9, <1>10, <1>11
<1>14. fires /\ ~rejected =>
         /\ app.run = NoProgram
         /\ flow.kind = "PinProtected" => LocalServiceAvailable(app)
  BY <1>13 DEF ResetRejected, FactoryResetAvailable
<1>15. watched.acks = 2
  BY <1>4 DEF AcksTold
<1>16. held.stage \in {"Idle", "Hold", "Executing"}
  BY <1>7, <1>12
<1>17. held.stage = "Hold" =>
         /\ watched'.grip < 0 => held.held = 0
         /\ watched'.grip >= 0 => held.held <= watched'.grip
  <2>1. CASE ~allowed /\ held = [flow EXCEPT !.held = 0]
    BY <1>1, <1>12, <2>1
  <2>2. CASE /\ allowed /\ flow.held <= HoldTicks - 1
             /\ held = [flow EXCEPT !.held = flow.held + 1]
    BY <1>1, <1>6, <1>9, <1>10, <1>11, <1>12, <2>2 DEF grip
  <2> QED
    BY <1>7, <1>12, <2>1, <2>2
<1>18. flow' \in Flows /\ (flow' = held \/ flow'.stage \in {"Finished", "Idle"})
  <2>1. Finish(held) = held \/ Finish(held).stage = "Finished"
    BY <1>5 DEF Finish, Flows
  <2> QED
    BY <1>3, <1>5, <2>1
<1>19. /\ app' \in Applications /\ Listing(app')
       /\ app.run # NoProgram => app' = app
  <2>1. CASE app' = app
    BY <2>1
  <2>2. CASE fires /\ ~rejected /\ app' \in ResetOutcomes(app)
    BY <1>14, <2>2, ResetOutcomesKept
  <2> QED
    BY <1>3, <2>1, <2>2
<1>20. /\ ui' \in {"idle", "core"} /\ snap' \in Snapshots /\ SnapTrue'
       /\ stale' \in SUBSET {"run", "config", "lease"}
       /\ ui' = "core" => fires /\ ~rejected
  <2>1. CASE EndStep /\ (~fires \/ rejected)
    BY <2>1, EndStepTyped
  <2>2. CASE /\ fires /\ ~rejected /\ ui' = "core"
             /\ snap' = snap /\ stale' = stale
    BY <2>2 DEF SnapTrue
  <2> QED
    BY <1>3, <2>1, <2>2
<1>21. PanelTypeOK'
  BY <1>2, <1>6, <1>8, <1>18, <1>19, <1>20
<1>22. AcksTold'
  <2>1. flow'.stage \in {"Idle", "Hold", "Executing", "Finished"}
    BY <1>16, <1>18
  <2> QED
    BY <2>1, <1>6, <1>15 DEF AcksTold
<1>23. HoldTold'
  <2>1. watched'.grip < 0 => watched.grip < 0
    BY <1>1, <1>6 DEF grip
  <2>2. watched'.grip < 0 => gate' = "AwaitRelease"
    BY <2>1, <1>8, <1>10
  <2> QED
    BY <2>2, <1>17, <1>18 DEF HoldTold
<1>24. Listing(app)'
  BY <1>19 DEF Listing
<1> QED
  BY <1>13, <1>14, <1>15, <1>19, <1>20, <1>21, <1>22, <1>23, <1>24

\* A step of the flow that a press asked for, in a stage that allows it.
LEMMA ResetKindKept ==
  ASSUME PanelInv, ui = "ready",
         NEW kind \in ResetKinds, AllowedByView(snap, kind),
         NEW f \in Flows, f.stage \in {flow.stage, "Idle"},
         f.stage = "Hold" => f.held = 0, snap.stage # "Hold" => f = flow
  PROVE  LET g == FactoryResetStep(app, f, kind) IN
         /\ g \in Flows
         /\ g.stage # "PinRequired"
         /\ g.stage = "Warning" =>
              kind \notin {"FactoryResetAcknowledge", "FactoryResetCancel",
                           "FactoryResetDismiss"}
         /\ g.stage = "Confirm" =>
              kind = "FactoryResetAcknowledge" /\ flow.stage = "Warning"
         /\ g.stage = "Hold" =>
              /\ kind = "FactoryResetAcknowledge"
              /\ flow.stage \in {"Confirm", "Hold"}
              /\ g.held = 0
<1> DEFINE g == FactoryResetStep(app, f, kind)
<1>1. /\ snap.stage = flow.stage
      /\ snap.available \/ snap.pinAvailable => flow.stage = "Idle"
      /\ flow.stage # "PinRequired"
  BY DEF PanelInv, SnapTrue, AcksTold
<1>2. IdleFlow \in Flows /\ IdleFlow.stage = "Idle"
  BY DEF IdleFlow, Flows, FlowStages, FlowKinds
<1>3. CASE kind \in {"FactoryResetBegin", "FactoryResetBeginPinProtected"}
  <2>1. flow.stage = "Idle" /\ f = flow
    BY <1>1, <1>3 DEF AllowedByView
  <2> DEFINE begun == Begin(f, "PinIndependent")
             sealed == PinVerified(Begin(f, "PinProtected"))
  <2>2. begun = [stage |-> "Warning", kind |-> "PinIndependent", held |-> 0]
    BY <2>1 DEF Begin
  <2>3. Begin(f, "PinProtected")
          = [stage |-> "PinRequired", kind |-> "PinProtected", held |-> 0]
    BY <2>1 DEF Begin
  <2>4. sealed = [stage |-> "Warning", kind |-> "PinProtected", held |-> 0]
    BY <2>3 DEF PinVerified
  <2>5. g \in {f, begun, sealed}
    BY <1>3 DEF FactoryResetStep, BeginFactoryReset
  <2>6. begun \in Flows /\ begun.stage = "Warning"
    BY <2>2 DEF Flows, FlowStages, FlowKinds
  <2>7. sealed \in Flows /\ sealed.stage = "Warning"
    BY <2>4 DEF Flows, FlowStages, FlowKinds
  <2> HIDE DEF begun, sealed, g
  <2>8. g \in Flows /\ g.stage \in {"Idle", "Warning"}
    BY <2>1, <2>5, <2>6, <2>7
  <2> QED
    BY <1>3, <2>8 DEF g
<1>4. CASE kind = "FactoryResetAcknowledge"
  <2>1. g \in {IdleFlow, Acknowledge(f)}
    BY <1>4 DEF FactoryResetStep, AcknowledgeFactoryReset
  <2>2. Acknowledge(f) \in Flows
    BY FlowTyped DEF FlowKinds
  <2>3. /\ f.stage = "Warning" => Acknowledge(f).stage = "Confirm"
        /\ f.stage = "Confirm" => /\ Acknowledge(f).stage = "Hold"
                                  /\ Acknowledge(f).held = 0
        /\ f.stage \notin {"Warning", "Confirm"} => Acknowledge(f) = f
    BY DEF Acknowledge, Flows
  <2>4. f.stage \in FlowStages
    BY DEF Flows
  <2> HIDE DEF g
  <2>5. CASE g = IdleFlow
    BY <1>2, <2>5 DEF g
  <2>6. CASE g = Acknowledge(f)
    <3>1. g.stage # "PinRequired" /\ g.stage # "Warning"
      BY <2>3, <2>6, <1>1
    <3>2. g.stage = "Confirm" => f.stage = "Warning"
      BY <2>3, <2>6, <2>4 DEF FlowStages
    <3>3. g.stage = "Hold" => f.stage \in {"Confirm", "Hold"} /\ g.held = 0
      BY <2>3, <2>6, <2>4 DEF FlowStages
    <3> QED
      BY <1>4, <2>2, <2>6, <3>1, <3>2, <3>3 DEF g
  <2> QED
    BY <2>1, <2>5, <2>6
<1>5. CASE kind = "FactoryResetCancel"
  <2>1. g = Cancel(f)
    BY <1>5 DEF FactoryResetStep
  <2>2. g \in Flows /\ g.stage \in {"Idle", "Executing"}
    BY <1>2, <2>1 DEF Cancel
  <2> HIDE DEF g
  <2> QED
    BY <2>2 DEF g
<1>6. CASE kind = "FactoryResetDismiss"
  <2>1. f = flow /\ flow.stage = "Finished"
    BY <1>1, <1>6 DEF AllowedByView
  <2>2. g = IdleFlow
    BY <1>6, <2>1 DEF FactoryResetStep, Dismiss
  <2> HIDE DEF g
  <2> QED
    BY <1>2, <2>2 DEF g
<1> QED
  BY <1>3, <1>4, <1>5, <1>6 DEF ResetKinds

\* The application and the workspace behind a dispatched request.
LEMMA DispatchKept ==
  ASSUME PanelInv, ui = "ready", NEW r \in PanelRequests,
         NEW w \in Workspaces, NEW f, Dispatch(r, w, f)
  PROVE  /\ ws' \in Workspaces /\ app' \in Applications /\ Listing(app')
         /\ ui' \in {"idle", "kdf"} /\ snap' \in Snapshots
         /\ stale' \in SUBSET {"run", "config", "lease"}
         /\ SnapTrue'
         /\ app.run # NoProgram => app'.cat[app.run] = app.cat[app.run]
         /\ IF r.kind \in ResetKinds
            THEN flow' = FactoryResetStep(app, f, r.kind)
            ELSE flow' = f \/ flow' = CancelPinProtectedFlow(f)
<1>0. /\ ws \in Workspaces /\ app \in Applications /\ Listing(app)
      /\ snap \in Snapshots /\ stale \in SUBSET {"run", "config", "lease"}
  BY DEF PanelInv, PanelTypeOK
<1> DEFINE Others == {"programEdit", "verifyServicePin", "endServiceSession"}
<1>a. ResetKinds \cap (RunActions \cup Others) = {}
  BY DEF ResetKinds, RunActions
<1>1. CASE /\ r.kind \notin RunActions \cup ResetKinds \cup Others
           /\ ws' = w /\ flow' = f /\ EndStep /\ app' = app
  BY <1>0, <1>1, EndStepTyped
<1>2. CASE /\ r.kind \in RunActions /\ app' \in RunRequest(app, ws, r.kind)
           /\ ws' = w /\ flow' = f /\ EndStep
  BY <1>0, <1>a, <1>2, EndStepTyped, RunRequestKept
<1>3. CASE /\ r.kind \in ResetKinds
           /\ flow' = FactoryResetStep(app, f, r.kind)
           /\ ws' = w /\ EndStep /\ app' = app
  BY <1>0, <1>3, EndStepTyped
<1>4. CASE /\ r.kind = "programEdit" /\ flow' = f /\ EndStep
           /\ \E cat \in ProgramEditRequest(app, r) :
                app' = [app EXCEPT !.cat = cat, !.edits = @ + 1]
           /\ ws' = Settled(NoteProgramEditOutcome(w, TRUE))
  <2>1. PICK cat \in ProgramEditRequest(app, r) :
          app' = [app EXCEPT !.cat = cat, !.edits = app.edits + 1]
    BY <1>4
  <2>2. /\ cat \in Catalogs
        /\ \A p \in FactoryPrograms : cat[p].there
        /\ app.run # NoProgram => cat[app.run] = app.cat[app.run]
    BY <1>0, EditKept
  <2> DEFINE edits == app.edits + 1
  <2>a. edits \in Nat
    BY <1>0 DEF Applications
  <2>b. app' = [app EXCEPT !.cat = cat, !.edits = edits]
    BY <2>1
  <2> HIDE DEF edits
  <2>3. app' \in Applications /\ app'.cat = cat /\ app'.run = app.run
    BY <1>0, <2>a, <2>b, <2>2 DEF Applications
  <2>4. Listing(app')
    BY <1>0, <2>2, <2>3 DEF Listing
  <2>5. ws' \in Workspaces
    BY <1>4, NotedTyped, SettledTyped
  <2>6. r.kind \notin ResetKinds
    BY <1>a, <1>4
  <2> QED
    BY <1>4, <2>2, <2>3, <2>4, <2>5, <2>6, EndStepTyped
<1>5. CASE /\ r.kind = "programEdit" /\ flow' = f /\ EndStep
           /\ ws' = w /\ app' = app
  BY <1>0, <1>a, <1>5, EndStepTyped
<1>6. CASE /\ r.kind = "endServiceSession"
           /\ app' = [app EXCEPT !.lease = FALSE]
           /\ flow' = CancelPinProtectedFlow(f) /\ ws' = w /\ EndStep
  <2>1. app' \in Applications /\ app'.cat = app.cat /\ app'.run = app.run
    BY <1>0, <1>6 DEF Applications
  <2>2. Listing(app')
    BY <1>0, <2>1 DEF Listing
  <2> QED
    BY <1>a, <1>6, <2>1, <2>2, EndStepTyped
<1>7. CASE /\ r.kind = "verifyServicePin" /\ ws' = w /\ flow' = f /\ app' = app
           /\ \/ ui' = "kdf" /\ snap' = snap /\ stale' = stale
              \/ EndStep
  <2>1. CASE EndStep
    BY <1>0, <1>a, <1>7, <2>1, EndStepTyped
  <2>2. CASE ui' = "kdf" /\ snap' = snap /\ stale' = stale
    BY <1>0, <1>a, <1>7, <2>2 DEF SnapTrue
  <2> QED
    BY <1>7, <2>1, <2>2
<1>8. Dispatch(r, w, f) =>
        \/ /\ r.kind \notin RunActions \cup ResetKinds \cup Others
           /\ ws' = w /\ flow' = f /\ EndStep /\ app' = app
        \/ /\ r.kind \in RunActions /\ app' \in RunRequest(app, ws, r.kind)
           /\ ws' = w /\ flow' = f /\ EndStep
        \/ /\ r.kind \in ResetKinds
           /\ flow' = FactoryResetStep(app, f, r.kind)
           /\ ws' = w /\ EndStep /\ app' = app
        \/ /\ r.kind = "programEdit" /\ flow' = f /\ EndStep
           /\ \E cat \in ProgramEditRequest(app, r) :
                app' = [app EXCEPT !.cat = cat, !.edits = @ + 1]
           /\ ws' = Settled(NoteProgramEditOutcome(w, TRUE))
        \/ /\ r.kind = "programEdit" /\ flow' = f /\ EndStep
           /\ ws' = w /\ app' = app
        \/ /\ r.kind = "endServiceSession"
           /\ app' = [app EXCEPT !.lease = FALSE]
           /\ flow' = CancelPinProtectedFlow(f) /\ ws' = w /\ EndStep
        \/ /\ r.kind = "verifyServicePin" /\ ws' = w /\ flow' = f /\ app' = app
           /\ \/ ui' = "kdf" /\ snap' = snap /\ stale' = stale
              \/ EndStep
  BY DEF Dispatch
<1> HIDE DEF Others
<1> QED
  BY <1>1, <1>2, <1>3, <1>4, <1>5, <1>6, <1>7, <1>8

\* A press: the flow takes at most the step that was asked for, and an
\* acknowledgement is counted where the flow takes it.
LEMMA TouchInv ==
  ASSUME PanelInv, NEW a \in Touchable(ws, snap, app.cat), Touch(a)
  PROVE  /\ PanelInv' /\ ui' # "core"
         /\ app.run # NoProgram => app'.cat[app.run] = app.cat[app.run]
<1> DEFINE f == IF snap.stage = "Hold" THEN HoldReport(app, flow, FALSE)
                ELSE flow
<1>0. /\ ws \in Workspaces /\ snap \in Snapshots /\ app.cat \in Catalogs
      /\ flow \in Flows /\ ui = "ready" /\ a.action # "FactoryResetHold"
      /\ gate \in {"Allowed", "AwaitRelease", "AwaitContact"}
      /\ watched \in [acks : 0..2, grip : -1..HoldTicks]
  BY DEF PanelInv, PanelTypeOK, Applications, Touch
<1>1. PICK e \in Press(ws, snap, app.cat, a) :
        /\ gate' = ObserveContact
        /\ Dispatch(e.request, Settled(e.ws), f)
        /\ watched' = [watched EXCEPT
             !.acks = IF flow'.stage = "Idle" THEN 0
                      ELSE Acknowledged(e.request),
             !.grip = IF watched.grip < 0 THEN watched.grip ELSE 0]
  BY DEF Touch
<1> DEFINE r == e.request
<1>2. r \in PanelRequests /\ e.ws \in Workspaces /\ AllowedByView(snap, r.kind)
  BY <1>0, PressSound DEF Effects
<1>3. Settled(e.ws) \in Workspaces
  BY <1>2, SettledTyped
<1>4. snap.stage = flow.stage
  BY <1>0 DEF PanelInv, SnapTrue
<1>5. /\ f \in Flows /\ f.stage \in {flow.stage, "Idle"}
      /\ f.stage = "Hold" => f.held = 0
      /\ snap.stage # "Hold" => f = flow
  <2>1. CASE snap.stage = "Hold"
    BY <1>0, <2>1, FlowTyped, Released DEF FlowKinds
  <2>2. CASE snap.stage # "Hold"
    BY <1>0, <1>4, <2>2
  <2> QED
    BY <2>1, <2>2
<1> HIDE DEF f, r
<1>6. /\ ws' \in Workspaces /\ app' \in Applications /\ Listing(app')
      /\ ui' \in {"idle", "kdf"} /\ snap' \in Snapshots
      /\ stale' \in SUBSET {"run", "config", "lease"}
      /\ SnapTrue'
      /\ app.run # NoProgram => app'.cat[app.run] = app.cat[app.run]
      /\ IF r.kind \in ResetKinds THEN flow' = FactoryResetStep(app, f, r.kind)
         ELSE flow' = f \/ flow' = CancelPinProtectedFlow(f)
  BY <1>0, <1>1, <1>2, <1>3, DispatchKept DEF r
<1> DEFINE acks == IF flow'.stage = "Idle" THEN 0 ELSE Acknowledged(r)
           grip == IF watched.grip < 0 THEN watched.grip ELSE 0
<1>7. /\ r.kind \in {"FactoryResetBegin", "FactoryResetBeginPinProtected",
                     "FactoryResetCancel", "FactoryResetDismiss"}
           => Acknowledged(r) = 0
      /\ r.kind = "FactoryResetAcknowledge" =>
           Acknowledged(r) = IF watched.acks < 2 THEN watched.acks + 1
                             ELSE watched.acks
      /\ r.kind \notin ResetKinds => Acknowledged(r) = watched.acks
  BY DEF Acknowledged, ResetKinds
<1>8. watched.acks \in 0..2 /\ watched.grip \in -1..HoldTicks
  BY <1>0
<1>9. Acknowledged(r) \in 0..2
  BY <1>7, <1>8 DEF ResetKinds
<1>10. grip \in -1..HoldTicks
  BY <1>8, WorkspaceAssumption
<1>11. watched' = [watched EXCEPT !.acks = acks, !.grip = grip]
  BY <1>1 DEF r
<1>12. acks \in 0..2
  BY <1>9
<1> HIDE DEF acks, grip
<1>13. /\ watched' \in [acks : 0..2, grip : -1..HoldTicks]
       /\ watched'.acks = acks /\ watched'.grip = grip
  BY <1>0, <1>10, <1>11, <1>12
<1>14. /\ gate' \in {"Allowed", "AwaitRelease", "AwaitContact"}
       /\ gate = "AwaitRelease" => gate' = "AwaitRelease"
  BY <1>0, <1>1 DEF ObserveContact
<1>15. /\ flow.stage # "PinRequired"
       /\ flow.stage = "Warning" => watched.acks = 0
       /\ flow.stage = "Confirm" => watched.acks = 1
       /\ flow.stage = "Hold" => watched.acks = 2
  BY DEF PanelInv, AcksTold
\* What the flow is now, and how often it was acknowledged.
<1>16. /\ flow' \in Flows /\ AcksTold'
       /\ flow'.stage = "Hold" => flow'.held = 0
  <2>1. CASE r.kind \in ResetKinds
    <3> DEFINE g == FactoryResetStep(app, f, r.kind)
    <3>1. /\ g \in Flows
          /\ g.stage # "PinRequired"
          /\ g.stage = "Warning" =>
               r.kind \notin {"FactoryResetAcknowledge", "FactoryResetCancel",
                              "FactoryResetDismiss"}
          /\ g.stage = "Confirm" =>
               r.kind = "FactoryResetAcknowledge" /\ flow.stage = "Warning"
          /\ g.stage = "Hold" =>
               /\ r.kind = "FactoryResetAcknowledge"
               /\ flow.stage \in {"Confirm", "Hold"}
               /\ g.held = 0
      BY <1>0, <1>2, <1>5, <2>1, ResetKindKept
    <3>2. flow' = g
      BY <1>6, <2>1
    <3> HIDE DEF g
    <3>3. flow'.stage = "Warning" => watched'.acks = 0
      BY <1>7, <1>13, <2>1, <3>1, <3>2 DEF acks, ResetKinds
    <3>4. flow'.stage = "Confirm" => watched'.acks = 1
      BY <1>7, <1>13, <1>15, <3>1, <3>2 DEF acks
    <3>5. flow'.stage = "Hold" => watched'.acks = 2
      BY <1>7, <1>13, <1>15, <3>1, <3>2 DEF acks
    <3> QED
      BY <3>1, <3>2, <3>3, <3>4, <3>5 DEF AcksTold
  <2>2. CASE r.kind \notin ResetKinds
    <3>1. flow' = f \/ flow' = IdleFlow
      BY <1>5, <1>6, <2>2, Cancelled
    <3>2. IdleFlow \in Flows /\ IdleFlow.stage = "Idle"
      BY DEF IdleFlow, Flows, FlowStages, FlowKinds
    <3>3. /\ flow' \in Flows /\ flow'.stage \in {flow.stage, "Idle"}
          /\ flow'.stage = "Hold" => flow'.held = 0
      BY <1>5, <3>1, <3>2
    <3>4. flow'.stage # "Idle" => watched'.acks = watched.acks
      BY <1>7, <1>13, <2>2 DEF acks
    <3> QED
      BY <1>15, <3>3, <3>4 DEF AcksTold
  <2> QED
    BY <2>1, <2>2
<1>17. HoldTold'
  <2>1. watched'.grip < 0 => watched.grip < 0
    BY <1>8, <1>13 DEF grip
  <2>2. watched'.grip < 0 => gate' = "AwaitRelease"
    BY <2>1, <1>14 DEF PanelInv, HoldTold
  <2> QED
    BY <2>2, <1>16 DEF HoldTold
<1>18. PanelTypeOK'
  BY <1>6, <1>13, <1>14, <1>16 DEF PanelTypeOK
<1>19. Listing(app)'
  BY <1>6 DEF Listing
<1> QED
  BY <1>6, <1>16, <1>17, <1>18, <1>19 DEF PanelInv

-----------------------------------------------------------------------------
(* The touch surface: the results *)

\* A stuttering step keeps everything.
LEMMA PanelStutter ==
  ASSUME PanelInv, UNCHANGED panelVars
  PROVE  PanelInv' /\ app' = app /\ ui' = ui
BY DEF panelVars, PanelInv, PanelTypeOK, Listing, SnapTrue, AcksTold, HoldTold

\* One step of anybody: the invariant is kept, the core starts only in
\* HoldContact, and no step changes the running program.
LEMMA PanelStep ==
  ASSUME PanelInv, [PanelNext]_panelVars
  PROVE  /\ PanelInv'
         /\ ui # "core" /\ ui' = "core" =>
               /\ app.run = NoProgram
               /\ watched.acks = 2
               /\ watched.grip >= HoldTicks
               /\ flow.kind = "PinProtected" => LocalServiceAvailable(app)
         /\ app.run # NoProgram => app'.cat[app.run] = app.cat[app.run]
<1>1. CASE BeginStep
  BY <1>1, BeginStepInv DEF BeginStep
<1>2. CASE SkipStep
  BY <1>2, SkipStepInv DEF SkipStep, EndStep
<1>3. ASSUME NEW released \in BOOLEAN, NoContact(released)
      PROVE  PanelInv' /\ ui' # "core" /\ app' = app
  BY <1>3, NoContactInv DEF NoContact, EndStep
<1>4. CASE HoldContact
  BY <1>4, HoldContactInv
<1>5. CASE FinishReset
  BY <1>5, FinishResetInv DEF FinishReset
<1>6. ASSUME NEW a \in Touchable(ws, snap, app.cat), Touch(a)
      PROVE  /\ PanelInv' /\ ui' # "core"
             /\ app.run # NoProgram => app'.cat[app.run] = app.cat[app.run]
  BY <1>6, TouchInv
<1>7. ASSUME NEW accepted \in BOOLEAN, PinChecked(accepted)
      PROVE  PanelInv' /\ ui' # "core" /\ app'.cat = app.cat
  BY <1>7, PinCheckedInv DEF PinChecked, EndStep
<1>8. CASE \/ WebStart \/ WebStop \/ ProcessMoves \/ MessageChanges
           \/ WebConfiguration \/ LeaseExpires
  BY <1>8, OthersInv
<1>9. CASE UNCHANGED panelVars
  BY <1>9, PanelStutter
<1> QED
  BY <1>1, <1>2, <1>3, <1>4, <1>5, <1>6, <1>7, <1>8, <1>9 DEF PanelNext

\* The state stays well typed, the snapshot of a running step true to the
\* reset flow, and its acknowledgements and its hold counted
\* (FactoryResetFlow, UiResetHoldContactGate, makePageView).
THEOREM PanelInvariant ==
  PanelSpec => []PanelInv
<1>1. PanelInit => PanelInv
  BY PanelInitInv
<1>2. PanelInv /\ [PanelNext]_panelVars => PanelInv'
  BY PanelStep
<1> QED
  BY <1>1, <1>2, PTL DEF PanelSpec

\* The core of the factory reset runs only after both acknowledgements of
\* this flow and an unbroken contact of the full length, never during a run,
\* and PIN protected only under a live service lease
\* (updateFactoryResetHold).
THEOREM PanelResetDeliberate ==
  PanelSpec => ResetDeliberate
<1>1. PanelInv /\ [PanelNext]_panelVars =>
        [ui # "core" /\ ui' = "core" =>
          /\ app.run = NoProgram
          /\ watched.acks = 2
          /\ watched.grip >= HoldTicks
          /\ flow.kind = "PinProtected" => LocalServiceAvailable(app)]_panelVars
  BY PanelStep
<1> QED
  BY <1>1, PanelInvariant, PTL DEF PanelSpec, ResetDeliberate

\* No edit, removal or reset changes the program of the active run, whichever
\* of touch surface and browser started it (applyProgramEditPreview).
THEOREM PanelRunningProgramKept ==
  PanelSpec => RunningProgramKept
<1>1. PanelInv /\ [PanelNext]_panelVars =>
        [app.run # NoProgram /\ app'.run = app.run =>
           app'.cat[app.run] = app.cat[app.run]]_panelVars
  BY PanelStep
<1> QED
  BY <1>1, PanelInvariant, PTL DEF PanelSpec, RunningProgramKept
==============================================================================
