-------------------------- MODULE WebSurfaceProofs --------------------------
(***************************************************************************)
(* Proofs about the browser surface, for any number of session slots, any  *)
(* length of the replay memory and any bounds: a mutation is carried out   *)
(* at most once, its answer is true, and no session outlives a trust       *)
(* boundary.                                                               *)
(*                                                                         *)
(* None of the three is inductive as it stands.  What holds them up is     *)
(* spread over two tasks: the reservation a slot keeps until the httpd     *)
(* task completes it (Carried), the sequence number up to which a session  *)
(* has used its numbers (Numbered), the memory that is only as true as the *)
(* fates behind it (Remembered), and the trust generation a login carries  *)
(* through its key derivation (Fresh).                                     *)
(***************************************************************************)
EXTENDS WebSurface, TLAPS

Said == {"Applied", "Stale", "Rejected", "WriteFailed"}
Outcomes == Said \cup {"Unavailable"}
Pending == {"prepare", "confirm", "apply", "configure"}
Stages == Pending \cup {"idle", "verify", "issue", "complete", "answer",
                        "bootstrap", "conclude", "abandon"}

Payloads == Contents \cup {NoContent}
Mutations == [seq : Nat, content : Payloads]
Memories == [seq : Nat, content : Payloads, outcome : Outcomes]
Sessions == [active : BOOLEAN, cookie : Nat, inFlight : Mutations,
             high : Nat, floor : Nat, done : Seq(Memories), world : Nat]
Requests == [pc : Stages, cookie : Nat, seq : Nat, content : Payloads,
             generation : Nat, world : Nat, epoch : Nat,
             answer : Outcomes \cup Provisioned \cup {"none"}]
Fates == [cookie : Nat, seq : Nat, content : Payloads, effect : BOOLEAN]

AuthStates == Provisioned \cup
              {"Unprovisioned", "RecoveryRequired", "Indeterminate"}

\* The part of the state the sessions depend on.
SurfaceTypeOK ==
    /\ auth \in [state : AuthStates, epoch : Nat]
    /\ trust \in Nat
    /\ sess \in [Slots -> Sessions]
    /\ cookies \in Nat
    /\ httpd \in Requests
    /\ httpd.pc = "bootstrap" => httpd.answer \in Provisioned
    /\ seen \in [world : Nat, fate : SUBSET Fates]

\* A cookie was handed out to one slot only, and names no later session.
Distinct ==
    /\ \A k \in Slots : sess[k].cookie <= cookies
    /\ \A j, k \in Slots :
          sess[j].cookie = sess[k].cookie /\ sess[j].cookie # 0 => j = k
    /\ \A f \in seen.fate : f.cookie <= cookies

\* The mutation the httpd task works on is the reservation of its slot, which
\* keeps it also when the session is retired meanwhile.
Carried ==
    httpd.pc \in Pending \cup {"complete"} =>
       /\ httpd.cookie # 0 /\ httpd.seq # 0
       /\ \E k \in Slots :
             /\ sess[k].cookie = httpd.cookie
             /\ sess[k].inFlight = [seq |-> httpd.seq,
                                    content |-> httpd.content]

\* A session has used its sequence numbers up to `high`; the one after it may
\* be reserved, and is decided only by the request under way.
Numbered ==
    /\ \A k \in Slots : sess[k].active =>
          /\ sess[k].cookie # 0
          /\ sess[k].inFlight # NoMutation =>
                sess[k].inFlight.seq = sess[k].high + 1
          /\ \A f \in seen.fate : f.cookie = sess[k].cookie =>
                \/ f.seq <= sess[k].high
                \/ /\ httpd.pc = "complete"
                   /\ f.cookie = httpd.cookie /\ f.seq = httpd.seq
    /\ httpd.pc \in Pending =>
          \A f \in seen.fate : ~(f.cookie = httpd.cookie /\ f.seq = httpd.seq)

\* The outcome agrees with the fate of this mutation.
Told(fate, cookie, seq, content, outcome) ==
    \E f \in fate :
       /\ f.cookie = cookie /\ f.seq = seq /\ f.content = content
       /\ outcome = "Applied" => f.effect
       /\ outcome \in Said \ {"Applied"} => ~f.effect

\* What a session remembers, and what a request is about to answer, happened.
Remembered ==
    /\ \A k \in Slots : \A i \in 1..Len(sess[k].done) :
          Told(seen.fate, sess[k].cookie, sess[k].done[i].seq,
               sess[k].done[i].content, sess[k].done[i].outcome)
    /\ httpd.pc \in {"complete", "answer"} =>
          Told(seen.fate, httpd.cookie, httpd.seq, httpd.content,
               httpd.answer)
    /\ httpd.pc \notin {"complete", "answer"} => httpd.answer \notin Said
    /\ httpd.pc = "complete" => httpd.answer \in Outcomes

\* A login whose generation is still the current one began on this side of
\* the last trust boundary.
Fresh ==
    /\ httpd.generation <= trust
    /\ httpd.pc \in {"verify", "issue"} /\ httpd.generation = trust =>
          httpd.world = seen.world

SurfaceInv ==
    /\ SurfaceTypeOK /\ Distinct /\ Carried /\ Numbered /\ Remembered
    /\ Fresh /\ MutationOnce /\ SessionTrusted

-----------------------------------------------------------------------------
(* Typed records.                                                          *)

Working == Pending \cup {"complete"}

\* The resting request.
LEMMA IdleTyped ==
  /\ Idle \in Requests
  /\ Idle.pc = "idle" /\ Idle.generation = 0 /\ Idle.answer = "none"
BY DEF Idle, Requests, Stages, Payloads, NoContent

\* An unused session slot.
LEMMA EmptyTyped ==
  EmptySession \in Sessions
<1>1. NoMutation \in Mutations
  BY DEF NoMutation, Mutations, Payloads, NoContent
<1>2. <<>> \in Seq(Memories)
  OBVIOUS
<1> QED
  BY <1>1, <1>2 DEF EmptySession, Sessions

\* A revoked session keeps what a mutation in flight needs.
LEMMA RetiredTyped ==
  ASSUME NEW s \in Sessions
  PROVE  /\ Retired(s) \in Sessions
         /\ ~Retired(s).active
         /\ Retired(s).cookie = s.cookie
         /\ Retired(s).inFlight = s.inFlight
         /\ Retired(s).done = <<>>
         /\ Retired(s).high = 0
<1>1. <<>> \in Seq(Memories)
  OBVIOUS
<1> QED
  BY <1>1 DEF Retired, Sessions

-----------------------------------------------------------------------------
(* Steps that decide no mutation: sessions stay or are retired, and the    *)
(* httpd task goes on with something that is not a mutation.               *)

\* Every session stays as it is or is retired.
Retiring ==
    /\ sess' \in [Slots -> Sessions]
    /\ \A k \in Slots : sess'[k] = sess[k] \/ sess'[k] = Retired(sess[k])
    /\ cookies' = cookies

\* No event the sessions are measured by, or a boundary that retires all.
Guarded ==
    /\ trust' \in Nat
    /\ seen' \in [world : Nat, fate : SUBSET Fates]
    /\ seen'.fate = seen.fate
    /\ \/ trust' = trust /\ seen'.world = seen.world
       \/ trust' > trust /\ \A k \in Slots : sess'[k] = Retired(sess[k])

\* The httpd task stays where it is, or goes on outside of a mutation.
Turning ==
    \/ httpd' = httpd
    \/ /\ httpd.pc \notin Working
       /\ httpd' \in Requests
       /\ httpd'.pc \notin Working
       /\ Fresh'
       /\ httpd'.pc = "bootstrap" => httpd'.answer \in Provisioned
       /\ httpd'.pc = "answer" =>
             Told(seen'.fate, httpd'.cookie, httpd'.seq, httpd'.content,
                  httpd'.answer)
       /\ httpd'.pc # "answer" => httpd'.answer \notin Said

\* A step that retires sessions and decides nothing.
LEMMA RestingStep ==
  ASSUME SurfaceInv, auth' \in [state : AuthStates, epoch : Nat],
         Retiring, Guarded, Turning
  PROVE  SurfaceInv'
<1> USE DEF SurfaceInv
<1>1. /\ sess \in [Slots -> Sessions] /\ httpd \in Requests
      /\ trust \in Nat /\ cookies \in Nat
      /\ seen \in [world : Nat, fate : SUBSET Fates]
  BY DEF SurfaceTypeOK
<1>2. /\ sess' \in [Slots -> Sessions] /\ cookies' = cookies
      /\ seen' \in [world : Nat, fate : SUBSET Fates]
      /\ seen'.fate = seen.fate
      /\ trust' \in Nat
  BY DEF Retiring, Guarded
<1>3. /\ httpd' \in Requests
      /\ \/ httpd' = httpd
         \/ httpd.pc \notin Working /\ httpd'.pc \notin Working
      /\ httpd'.pc = "bootstrap" => httpd'.answer \in Provisioned
  BY <1>1 DEF Turning, SurfaceTypeOK
<1>4. SurfaceTypeOK'
  BY <1>1, <1>2, <1>3 DEF SurfaceTypeOK
<1>5. ASSUME NEW k \in Slots
      PROVE  /\ sess[k] \in Sessions /\ sess'[k] \in Sessions
             /\ sess'[k].cookie = sess[k].cookie
             /\ sess'[k].inFlight = sess[k].inFlight
             /\ sess'[k].active => sess'[k] = sess[k]
             /\ sess'[k] = sess[k] \/ sess'[k].done = <<>>
  BY <1>1, <1>2, RetiredTyped DEF Retiring
<1>6. Distinct'
  BY <1>2, <1>5 DEF Distinct
<1>7. Carried'
  <2>1. CASE httpd' = httpd
    BY <2>1, <1>5 DEF Carried
  <2>2. CASE httpd' # httpd
    BY <2>2, <1>3 DEF Carried, Working
  <2> QED
    BY <2>1, <2>2
<1>8. Numbered'
  <2>1. \A k \in Slots : sess'[k].active => sess'[k] = sess[k]
    BY <1>5
  <2>2. CASE httpd' = httpd
    BY <2>1, <2>2, <1>2 DEF Numbered
  <2>3. CASE httpd' # httpd
    BY <2>1, <2>3, <1>2, <1>3 DEF Numbered, Working
  <2> QED
    BY <2>2, <2>3
<1>9. Remembered'
  <2>1. ASSUME NEW k \in Slots, NEW i \in 1..Len(sess'[k].done)
        PROVE  Told(seen'.fate, sess'[k].cookie, sess'[k].done[i].seq,
                    sess'[k].done[i].content, sess'[k].done[i].outcome)
    <3>1. sess'[k].done # <<>>
      BY <2>1
    <3>2. sess'[k] = sess[k]
      BY <3>1, <1>5
    <3> QED
      BY <2>1, <3>2, <1>2 DEF Remembered
  <2>2. CASE httpd' = httpd
    BY <2>1, <2>2, <1>2 DEF Remembered
  <2>3. CASE httpd' # httpd
    BY <2>1, <2>3, <1>2, <1>3 DEF Remembered, Turning, Working
  <2> QED
    BY <2>2, <2>3
<1>10. Fresh'
  <2>1. CASE httpd' = httpd
    <3>1. httpd.generation \in Nat
      BY <1>1 DEF Requests
    <3> QED
      BY <2>1, <3>1, <1>1, <1>2 DEF Fresh, Guarded
  <2>2. CASE httpd' # httpd
    BY <2>2 DEF Turning
  <2> QED
    BY <2>1, <2>2
<1>11. MutationOnce'
  BY <1>2 DEF MutationOnce
<1>12. SessionTrusted'
  <2>1. ASSUME NEW k \in Slots, sess'[k].active
        PROVE  sess'[k].world = seen'.world
    <3>1. sess'[k] = sess[k] /\ sess[k].active
      BY <2>1, <1>5
    <3>2. sess'[k] # Retired(sess[k])
      BY <2>1, <1>5, RetiredTyped
    <3>3. seen'.world = seen.world
      BY <3>2 DEF Guarded
    <3> QED
      BY <3>1, <3>3 DEF SessionTrusted
  <2> QED
    BY <2>1 DEF SessionTrusted
<1> QED
  BY <1>4, <1>6, <1>7, <1>8, <1>9, <1>10, <1>11, <1>12

-----------------------------------------------------------------------------
(* The actions that are such steps.                                        *)

\* No session is touched.
LEMMA SessionsStay ==
  ASSUME SurfaceInv, sess' = sess, cookies' = cookies
  PROVE  Retiring
BY DEF SurfaceInv, SurfaceTypeOK, Retiring

\* No boundary is crossed and nothing takes effect.
LEMMA WorldStays ==
  ASSUME SurfaceInv, trust' = trust, seen' = seen
  PROVE  Guarded
BY DEF SurfaceInv, SurfaceTypeOK, Guarded

\* Revoking all sessions retires each of them.
LEMMA Revoking ==
  ASSUME SurfaceInv, sess' = RevokedAll, cookies' = cookies
  PROVE  /\ Retiring
         /\ \A k \in Slots : sess'[k] = Retired(sess[k])
<1>1. sess \in [Slots -> Sessions]
  BY DEF SurfaceInv, SurfaceTypeOK
<1>2. \A k \in Slots : sess'[k] = Retired(sess[k])
  BY DEF RevokedAll
<1>3. sess' \in [Slots -> Sessions]
  BY <1>1, RetiredTyped DEF RevokedAll
<1> QED
  BY <1>2, <1>3 DEF Retiring

\* Crossing a trust boundary retires every session.
LEMMA Crossing ==
  ASSUME SurfaceInv, CrossBoundary, cookies' = cookies
  PROVE  Retiring /\ Guarded /\ trust' > trust
<1>1. /\ Retiring
      /\ \A k \in Slots : sess'[k] = Retired(sess[k])
  BY Revoking DEF CrossBoundary
<1>2. trust \in Nat /\ trust' = trust + 1
  BY DEF SurfaceInv, SurfaceTypeOK, CrossBoundary
<1>3. /\ seen' \in [world : Nat, fate : SUBSET Fates]
      /\ seen'.fate = seen.fate
  BY DEF SurfaceInv, SurfaceTypeOK, CrossBoundary
<1> QED
  BY <1>1, <1>2, <1>3 DEF Guarded

\* The httpd task drops its request, or finishes it.
LEMMA Replying ==
  ASSUME SurfaceInv, trust' \in Nat, Reply, httpd.pc \notin Working
  PROVE  Turning
<1>1. Fresh'
  BY IdleTyped DEF Reply, Fresh
<1> QED
  BY <1>1, IdleTyped DEF Turning, Reply, Working, Pending, Said

\* Everything the sessions depend on stays.
LEMMA QuietStep ==
  ASSUME SurfaceInv,
         UNCHANGED <<auth, trust, sess, cookies, httpd, seen>>
  PROVE  SurfaceInv'
<1>1. auth' \in [state : AuthStates, epoch : Nat]
  BY DEF SurfaceInv, SurfaceTypeOK
<1>2. Turning
  BY DEF Turning
<1> QED
  BY <1>1, <1>2, RestingStep, SessionsStay, WorldStays

\* A session expires.
LEMMA LapseStep ==
  ASSUME SurfaceInv, NEW k \in Slots, Lapse(k)
  PROVE  SurfaceInv'
<1>1. sess \in [Slots -> Sessions] /\ sess[k] \in Sessions
      /\ auth' \in [state : AuthStates, epoch : Nat]
  BY DEF SurfaceInv, SurfaceTypeOK, Lapse
<1>2. /\ sess' = [sess EXCEPT ![k] = Retired(sess[k])]
      /\ trust' = trust /\ seen' = seen /\ cookies' = cookies
      /\ httpd' = httpd
  BY DEF Lapse
<1>3. Retiring
  BY <1>1, <1>2, RetiredTyped DEF Retiring
<1>4. Turning
  BY <1>2 DEF Turning
<1> QED
  BY <1>1, <1>2, <1>3, <1>4, RestingStep, WorldStays

\* A logout.
LEMMA LogoutStep ==
  ASSUME SurfaceInv, NEW cookie \in Nat, Logout(cookie)
  PROVE  SurfaceInv'
<1>1. sess \in [Slots -> Sessions]
      /\ auth' \in [state : AuthStates, epoch : Nat]
  BY DEF SurfaceInv, SurfaceTypeOK, Logout
<1>2. /\ sess' = [k \in Slots |-> IF k \in Found(cookie)
                                  THEN Retired(sess[k]) ELSE sess[k]]
      /\ trust' = trust /\ seen' = seen /\ cookies' = cookies
      /\ httpd' = httpd
  BY DEF Logout
<1>3. Retiring
  BY <1>1, <1>2, RetiredTyped DEF Retiring
<1>4. Turning
  BY <1>2 DEF Turning
<1> QED
  BY <1>1, <1>2, <1>3, <1>4, RestingStep, WorldStays

\* A change of the network.
LEMMA NetworkStep ==
  ASSUME SurfaceInv, \/ \E mode \in Modes : ApplyNetworkMode(mode)
                     \/ ReconfigureHomeWifi
  PROVE  SurfaceInv'
<1>1. /\ auth' = auth /\ cookies' = cookies /\ httpd' = httpd
      /\ CrossBoundary \/ UNCHANGED <<trust, window, sess, seen>>
  BY DEF ApplyNetworkMode, ReconfigureHomeWifi
<1>2. CASE CrossBoundary
  <2>1. auth' \in [state : AuthStates, epoch : Nat] /\ Turning
    BY <1>1 DEF SurfaceInv, SurfaceTypeOK, Turning
  <2> QED
    BY <2>1, <1>1, <1>2, Crossing, RestingStep
<1>3. CASE UNCHANGED <<trust, window, sess, seen>>
  BY <1>1, <1>3, QuietStep
<1> QED
  BY <1>1, <1>2, <1>3

\* A reset of the credentials.
LEMMA ResetCoreStep ==
  ASSUME SurfaceInv, ResetCore
  PROVE  SurfaceInv'
<1>1. auth' \in [state : AuthStates, epoch : Nat]
  <2>1. auth.epoch + 1 \in Nat
    BY DEF SurfaceInv, SurfaceTypeOK
  <2> QED
    BY <2>1 DEF ResetCore, AuthStates
<1>2. /\ Retiring
      /\ \A k \in Slots : sess'[k] = Retired(sess[k])
  BY Revoking DEF ResetCore
<1>3. trust \in Nat /\ trust' > trust /\ trust' \in Nat
  <2>1. trust \in Nat /\ trust' = trust + (1 + 1)
    BY DEF SurfaceInv, SurfaceTypeOK, ResetCore
  <2> QED
    BY <2>1
<1>4. /\ seen' \in [world : Nat, fate : SUBSET Fates]
      /\ seen'.fate = seen.fate
  BY DEF SurfaceInv, SurfaceTypeOK, ResetCore
<1>5. Guarded
  BY <1>2, <1>3, <1>4 DEF Guarded
<1>6. Turning
  BY DEF ResetCore, Turning
<1> QED
  BY <1>1, <1>2, <1>5, <1>6, RestingStep

-----------------------------------------------------------------------------
(* Requests that are not mutations.                                        *)

\* A request that keeps the sessions.
LEMMA RequestStep ==
  ASSUME SurfaceInv, auth' \in [state : AuthStates, epoch : Nat],
         UNCHANGED <<trust, sess, cookies, seen>>, Turning
  PROVE  SurfaceInv'
BY RestingStep, SessionsStay, WorldStays

\* A login or a provisioning that starts carries the generation of now.
LEMMA Starting ==
  ASSUME SurfaceInv, NEW pc \in {"verify", "issue", "bootstrap"},
         NEW answer \in Provisioned \cup {"none"}, NEW epoch \in Nat,
         pc = "bootstrap" => answer \in Provisioned,
         UNCHANGED <<trust, seen>>, httpd.pc = "idle",
         httpd' = [pc |-> pc, cookie |-> 0, seq |-> 0,
                   content |-> NoContent, generation |-> trust,
                   world |-> seen.world, epoch |-> epoch, answer |-> answer]
  PROVE  Turning
<1>1. trust \in Nat /\ seen.world \in Nat
  BY DEF SurfaceInv, SurfaceTypeOK
<1>2. /\ httpd' \in Requests
      /\ httpd'.pc = pc /\ httpd'.answer = answer
      /\ httpd'.generation = trust /\ httpd'.world = seen.world
  BY <1>1 DEF Requests, Stages, Payloads
<1>3. Fresh'
  BY <1>1, <1>2 DEF Fresh
<1>4. pc \notin Working /\ pc # "answer" /\ answer \notin Said
      /\ "idle" \notin Working
  BY DEF Working, Pending, Said, Provisioned
<1> QED
  BY <1>2, <1>3, <1>4 DEF Turning

\* A login is looked at.
LEMMA AuthenticateStep ==
  ASSUME SurfaceInv, Authenticate, httpd.pc = "idle",
         UNCHANGED <<auth, trust, sess, cookies, seen>>
  PROVE  SurfaceInv'
<1>1. auth' \in [state : AuthStates, epoch : Nat] /\ auth.epoch \in Nat
      /\ trust' \in Nat
  BY DEF SurfaceInv, SurfaceTypeOK
<1>2. CASE httpd' = [[Idle EXCEPT !.generation = trust,
                                  !.world = seen.world]
                     EXCEPT !.pc = "verify", !.epoch = auth.epoch]
  <2>1. httpd' = [pc |-> "verify", cookie |-> 0, seq |-> 0,
                  content |-> NoContent, generation |-> trust,
                  world |-> seen.world, epoch |-> auth.epoch,
                  answer |-> "none"]
    BY <1>2 DEF Idle
  <2>2. Turning
    BY <2>1, <1>1, Starting
  <2> QED
    BY <2>2, <1>1, RequestStep
<1>3. CASE httpd' = [[Idle EXCEPT !.generation = trust,
                                  !.world = seen.world]
                     EXCEPT !.pc = "issue", !.answer = "PasswordDisabled"]
  <2>1. httpd' = [pc |-> "issue", cookie |-> 0, seq |-> 0,
                  content |-> NoContent, generation |-> trust,
                  world |-> seen.world, epoch |-> 0,
                  answer |-> "PasswordDisabled"]
    BY <1>3 DEF Idle
  <2>2. Turning
    BY <2>1, <1>1, Starting DEF Provisioned
  <2> QED
    BY <2>2, <1>1, RequestStep
<1>4. CASE Reply
  <2>1. Turning
    BY <1>1, <1>4, Replying DEF Working, Pending
  <2> QED
    BY <2>1, <1>1, RequestStep
<1> QED
  BY <1>2, <1>3, <1>4 DEF Authenticate

\* The first password is set.
LEMMA ProvisionStep ==
  ASSUME SurfaceInv, NEW mode \in Provisioned, Provision(mode)
  PROVE  SurfaceInv'
<1>1. auth' \in [state : AuthStates, epoch : Nat] /\ auth.epoch \in Nat
      /\ trust' \in Nat
  BY DEF SurfaceInv, SurfaceTypeOK, Provision
<1>2. httpd.pc = "idle" /\ UNCHANGED <<trust, sess, cookies, seen>>
  BY DEF Provision, Listening
<1>3. CASE httpd' = [[Idle EXCEPT !.generation = trust,
                                  !.world = seen.world]
                     EXCEPT !.pc = "bootstrap", !.answer = mode,
                            !.epoch = auth.epoch]
  <2>1. httpd' = [pc |-> "bootstrap", cookie |-> 0, seq |-> 0,
                  content |-> NoContent, generation |-> trust,
                  world |-> seen.world, epoch |-> auth.epoch,
                  answer |-> mode]
    BY <1>3 DEF Idle
  <2>2. Turning
    BY <2>1, <1>1, <1>2, Starting
  <2> QED
    BY <2>2, <1>1, <1>2, RequestStep
<1>4. CASE Reply
  <2>1. Turning
    BY <1>1, <1>2, <1>4, Replying DEF Working, Pending
  <2> QED
    BY <2>1, <1>1, <1>2, RequestStep
<1> QED
  BY <1>3, <1>4 DEF Provision

\* A password is verified.
LEMMA VerifyStep ==
  ASSUME SurfaceInv, VerifyPassword
  PROVE  SurfaceInv'
<1>1. /\ auth' \in [state : AuthStates, epoch : Nat]
      /\ trust \in Nat /\ trust' = trust /\ seen' = seen
      /\ httpd \in Requests /\ httpd.pc = "verify"
      /\ UNCHANGED <<trust, sess, cookies, seen>>
  BY DEF SurfaceInv, SurfaceTypeOK, VerifyPassword
<1>2. httpd.pc \notin Working
  BY <1>1 DEF Working, Pending
<1>3. CASE httpd' = [httpd EXCEPT !.pc = "issue",
                                  !.answer = "PasswordProtected"]
  <2>1. /\ httpd' \in Requests
        /\ httpd'.pc = "issue" /\ httpd'.answer = "PasswordProtected"
        /\ httpd'.generation = httpd.generation
        /\ httpd'.world = httpd.world
    BY <1>1, <1>3 DEF Requests, Stages, Provisioned
  <2>2. Fresh'
    BY <2>1, <1>1 DEF SurfaceInv, Fresh
  <2>3. Turning
    BY <2>1, <2>2, <1>2 DEF Turning, Working, Pending, Said
  <2> QED
    BY <2>3, <1>1, RequestStep
<1>4. CASE Reply
  BY <1>1, <1>2, <1>4, Replying, RequestStep
<1> QED
  BY <1>3, <1>4 DEF VerifyPassword

\* A bootstrap token is used.
LEMMA BootstrapStep ==
  ASSUME SurfaceInv, Bootstrap
  PROVE  SurfaceInv'
<1>1. /\ auth \in [state : AuthStates, epoch : Nat]
      /\ httpd \in Requests /\ httpd.pc = "bootstrap"
      /\ httpd.answer \notin Said /\ httpd.answer \in Provisioned
      /\ UNCHANGED <<trust, sess, cookies, seen>>
  BY DEF SurfaceInv, SurfaceTypeOK, Remembered, Bootstrap
<1>3. auth' \in [state : AuthStates, epoch : Nat]
  BY <1>1 DEF Bootstrap, AuthStates
<1>4. PICK pc \in {"conclude", "abandon"} : httpd' = [httpd EXCEPT !.pc = pc]
  BY DEF Bootstrap
<1>5. /\ httpd' \in Requests
      /\ httpd'.pc = pc /\ httpd'.answer = httpd.answer
      /\ httpd'.generation = httpd.generation
  BY <1>1, <1>4 DEF Requests, Stages
<1>6. pc \notin Working /\ pc \notin {"answer", "verify", "issue"}
      /\ httpd.pc \notin Working
  BY <1>1, <1>4 DEF Working, Pending
<1>7. Fresh'
  BY <1>1, <1>5, <1>6 DEF SurfaceInv, Fresh
<1>8. Turning
  BY <1>1, <1>5, <1>6, <1>7 DEF Turning
<1> QED
  BY <1>1, <1>3, <1>8, RequestStep

\* The end of a provisioning, and of any request.
LEMMA EndingStep ==
  ASSUME SurfaceInv, AbandonProvision \/ ConcludeProvision \/ Answered
  PROVE  SurfaceInv'
<1>1. /\ auth' \in [state : AuthStates, epoch : Nat] /\ trust \in Nat
      /\ auth' = auth /\ cookies' = cookies
  BY DEF SurfaceInv, SurfaceTypeOK, AbandonProvision, ConcludeProvision,
         Answered
<1>2. httpd.pc \notin Working /\ Reply
  BY DEF AbandonProvision, ConcludeProvision, Answered, Reply, Working,
         Pending
<1>3. CASE CrossBoundary
  <2>1. trust' \in Nat /\ Retiring /\ Guarded
    BY <1>1, <1>3, Crossing DEF Guarded
  <2>2. Turning
    BY <2>1, <1>2, Replying
  <2> QED
    BY <2>1, <2>2, <1>1, RestingStep
<1>4. CASE UNCHANGED <<trust, sess, seen>>
  <2>1. Turning
    BY <1>1, <1>2, <1>4, Replying
  <2> QED
    BY <2>1, <1>1, <1>4, RequestStep
<1> QED
  BY <1>3, <1>4 DEF AbandonProvision, ConcludeProvision, Answered

-----------------------------------------------------------------------------
(* A new session: its cookie is new, and its login is of this world.       *)

\* A session is created in a free slot.
LEMMA CreatedStep ==
  ASSUME SurfaceInv, NEW k \in Slots, Usable(sess[k]), httpd.pc = "issue",
         sess' = Created(k, httpd.world), cookies' = cookies + 1,
         httpd' = Idle, httpd.generation = trust,
         UNCHANGED <<auth, trust, seen>>
  PROVE  SurfaceInv'
<1> USE DEF SurfaceInv
<1>1. /\ sess \in [Slots -> Sessions] /\ cookies \in Nat
      /\ httpd \in Requests /\ trust \in Nat
      /\ seen \in [world : Nat, fate : SUBSET Fates]
  BY DEF SurfaceTypeOK
<1> DEFINE new == [EmptySession EXCEPT !.active = TRUE,
                                       !.cookie = cookies + 1,
                                       !.world = httpd.world]
<1>2. /\ new \in Sessions /\ new.cookie = cookies + 1
      /\ new.inFlight = NoMutation /\ new.done = <<>>
      /\ new.world = httpd.world
  <2>1. httpd.world \in Nat /\ cookies + 1 \in Nat
    BY <1>1 DEF Requests
  <2> QED
    BY <2>1, EmptyTyped DEF Sessions, EmptySession
<1>3. sess' = [sess EXCEPT ![k] = new]
  BY DEF Created
<1> HIDE DEF new
<1>4. /\ sess' \in [Slots -> Sessions] /\ sess'[k] = new
      /\ \A j \in Slots : j # k => sess'[j] = sess[j]
  BY <1>1, <1>2, <1>3
<1>5. SurfaceTypeOK'
  BY <1>1, <1>4, IdleTyped DEF SurfaceTypeOK
<1>6. \A j \in Slots : sess[j].cookie \in Nat /\ sess[j].cookie <= cookies
  BY <1>1 DEF Distinct, Sessions
<1>7. \A f \in seen.fate : f.cookie \in Nat /\ f.cookie <= cookies
  BY <1>1 DEF Distinct, Fates
<1>8. Distinct'
  <2>1. \A j \in Slots : sess'[j].cookie <= cookies'
    BY <1>1, <1>2, <1>4, <1>6
  <2>2. ASSUME NEW i \in Slots, NEW j \in Slots,
               sess'[i].cookie = sess'[j].cookie, sess'[i].cookie # 0
        PROVE  i = j
    BY <2>2, <1>1, <1>2, <1>4, <1>6 DEF Distinct
  <2>3. \A f \in seen'.fate : f.cookie <= cookies'
    BY <1>1, <1>7
  <2> QED
    BY <2>1, <2>2, <2>3 DEF Distinct
<1>9. httpd'.pc \notin Working /\ httpd'.pc # "answer"
      /\ httpd'.answer \notin Said
  BY IdleTyped DEF Working, Pending, Said
<1>10. Carried'
  BY <1>9 DEF Carried, Working
<1>11. Numbered'
  <2>1. \A f \in seen.fate : f.cookie # new.cookie
    BY <1>1, <1>2, <1>7
  <2>2. ASSUME NEW j \in Slots, sess'[j].active
        PROVE  /\ sess'[j].cookie # 0
               /\ sess'[j].inFlight # NoMutation =>
                     sess'[j].inFlight.seq = sess'[j].high + 1
               /\ \A f \in seen'.fate : f.cookie = sess'[j].cookie =>
                     f.seq <= sess'[j].high
    <3>1. CASE j = k
      BY <3>1, <2>1, <1>1, <1>2, <1>4
    <3>2. CASE j # k
      BY <2>2, <3>2, <1>4 DEF Numbered
    <3> QED
      BY <3>1, <3>2
  <2> QED
    BY <2>2, <1>9 DEF Numbered, Working
<1>12. Remembered'
  <2>1. ASSUME NEW j \in Slots, NEW i \in 1..Len(sess'[j].done)
        PROVE  Told(seen'.fate, sess'[j].cookie, sess'[j].done[i].seq,
                    sess'[j].done[i].content, sess'[j].done[i].outcome)
    <3>1. j # k
      BY <2>1, <1>2, <1>4
    <3> QED
      BY <3>1, <2>1, <1>4 DEF Remembered
  <2> QED
    BY <2>1, <1>9 DEF Remembered, Working
<1>13. Fresh'
  BY <1>1, IdleTyped DEF Fresh
<1>14. MutationOnce'
  BY DEF MutationOnce
<1>15. SessionTrusted'
  BY <1>2, <1>4 DEF SessionTrusted, Fresh
<1> QED
  BY <1>5, <1>8, <1>10, <1>11, <1>12, <1>13, <1>14, <1>15

\* A login is answered.
LEMMA IssueStep ==
  ASSUME SurfaceInv, IssueSession
  PROVE  SurfaceInv'
<1>1. /\ auth' \in [state : AuthStates, epoch : Nat]
      /\ UNCHANGED <<auth, trust, seen>> /\ trust' \in Nat
      /\ httpd.pc = "issue" /\ Reply
  BY DEF SurfaceInv, SurfaceTypeOK, IssueSession
<1>2. CASE UNCHANGED <<sess, cookies>>
  <2>1. Turning
    BY <1>1, Replying DEF Working, Pending
  <2> QED
    BY <2>1, <1>1, <1>2, RequestStep
<1>3. CASE ~UNCHANGED <<sess, cookies>>
  <2>1. httpd.generation = trust /\ cookies' = cookies + 1
    BY <1>3 DEF IssueSession
  <2>2. PICK k \in Slots : Usable(sess[k]) /\ sess' = Created(k, httpd.world)
    BY <1>3 DEF IssueSession
  <2> QED
    BY <1>1, <2>1, <2>2, CreatedStep DEF Reply
<1> QED
  BY <1>2, <1>3

-----------------------------------------------------------------------------
(* A mutation is reserved, or answered from the memory of the session.     *)

\* Only the next sequence number of a session with nothing in flight is
\* reserved, and only a remembered mutation of the same content is replayed.
LEMMA ReservationCases ==
  ASSUME NEW s \in Sessions, NEW seq \in Nat, NEW content
  PROVE  /\ Reservation(s, seq, content) = "Reserved" =>
              s.inFlight = NoMutation /\ seq = s.high + 1
         /\ Reservation(s, seq, content) = "ReplayOutcome" =>
              \E i \in 1..Len(s.done) : /\ s.done[i].seq = seq
                                        /\ s.done[i].content = content
<1> DEFINE known == {i \in 1..Len(s.done) : s.done[i].seq = seq}
<1>1. s.high \in Nat /\ s.floor \in Nat
  BY DEF Sessions
<1>2. CASE s.inFlight # NoMutation
  <2>1. Reservation(s, seq, content) \in
          {"SequenceConflict", "InFlight", "SequenceReused"}
    BY <1>2 DEF Reservation
  <2> QED
    BY <2>1
<1>3. CASE s.inFlight = NoMutation /\ seq <= s.floor
  <2>1. Reservation(s, seq, content) = "ReplayExpired"
    BY <1>1, <1>3 DEF Reservation
  <2> QED
    BY <2>1
<1>4. CASE s.inFlight = NoMutation /\ seq > s.floor /\ known # {}
  <2> DEFINE i == CHOOSE j \in known : TRUE
  <2>1. i \in known
    BY <1>4
  <2>2. Reservation(s, seq, content) =
          IF s.done[i].content = content THEN "ReplayOutcome"
          ELSE "SequenceReused"
    BY <1>1, <1>4 DEF Reservation
  <2> HIDE DEF i
  <2> QED
    BY <2>1, <2>2
<1>5. CASE s.inFlight = NoMutation /\ seq > s.floor /\ known = {}
  <2>1. Reservation(s, seq, content) =
          IF seq > s.high + 1 THEN "SequenceGap"
          ELSE IF seq <= s.high THEN "ReplayExpired" ELSE "Reserved"
    BY <1>1, <1>5 DEF Reservation
  <2> QED
    BY <2>1, <1>1, <1>5
<1> QED
  BY <1>1, <1>2, <1>3, <1>4, <1>5

\* The outcome replayed is the one of the mutation that was asked for.
LEMMA RecordedTold ==
  ASSUME SurfaceInv, NEW k \in Slots, NEW seq \in Nat, NEW content,
         \E i \in 1..Len(sess[k].done) : /\ sess[k].done[i].seq = seq
                                         /\ sess[k].done[i].content = content
  PROVE  /\ Told(seen.fate, sess[k].cookie, seq, content,
                 Recorded(sess[k], seq))
         /\ Recorded(sess[k], seq) \in Outcomes
<1> DEFINE d == sess[k].done
           r == CHOOSE i \in 1..Len(d) : d[i].seq = seq
<1>1. r \in 1..Len(d) /\ d[r].seq = seq
  OBVIOUS
<1>2. Recorded(sess[k], seq) = d[r].outcome
  BY DEF Recorded
<1>3. Told(seen.fate, sess[k].cookie, seq, d[r].content, d[r].outcome)
  BY <1>1 DEF SurfaceInv, Remembered
<1>4. PICK i \in 1..Len(d) : d[i].seq = seq /\ d[i].content = content
  OBVIOUS
<1>5. Told(seen.fate, sess[k].cookie, seq, content, d[i].outcome)
  BY <1>4 DEF SurfaceInv, Remembered
<1>6. d \in Seq(Memories)
  BY DEF SurfaceInv, SurfaceTypeOK, Sessions
<1> HIDE DEF r, d
<1>7. d[r].outcome \in Outcomes
  <2>1. d[r] \in Memories
    BY <1>1, <1>6
  <2> QED
    BY <2>1 DEF Memories
<1>8. d[r].content = content
  BY <1>3, <1>5 DEF Told, SurfaceInv, MutationOnce
<1> QED
  BY <1>2, <1>3, <1>7, <1>8

\* A mutation is reserved under the next sequence number.
LEMMA ReservedStep ==
  ASSUME SurfaceInv, NEW k \in Slots, NEW cookie \in Nat,
         NEW seq \in Nat \ {0}, NEW content \in Contents,
         NEW pc \in {"prepare", "configure"},
         sess[k].active, sess[k].cookie = cookie,
         sess[k].inFlight = NoMutation, seq = sess[k].high + 1,
         httpd.pc = "idle",
         sess' = [sess EXCEPT ![k].inFlight = [seq |-> seq,
                                               content |-> content]],
         httpd' = [pc |-> pc, cookie |-> cookie, seq |-> seq,
                   content |-> content, generation |-> 0, world |-> 0,
                   epoch |-> 0, answer |-> "none"],
         UNCHANGED <<auth, trust, cookies, seen>>
  PROVE  SurfaceInv'
<1> USE DEF SurfaceInv
<1>1. /\ sess \in [Slots -> Sessions] /\ cookies \in Nat
      /\ trust \in Nat
      /\ seen \in [world : Nat, fate : SUBSET Fates]
  BY DEF SurfaceTypeOK
<1> DEFINE m == [seq |-> seq, content |-> content]
           new == [sess[k] EXCEPT !.inFlight = m]
<1>2. /\ m \in Mutations /\ m # NoMutation /\ m.seq = seq
  BY DEF Mutations, Payloads, NoMutation
<1> HIDE DEF m
<1>3. /\ new \in Sessions /\ new.inFlight = m
      /\ new.active = sess[k].active /\ new.cookie = sess[k].cookie
      /\ new.high = sess[k].high /\ new.done = sess[k].done
      /\ new.world = sess[k].world
  BY <1>1, <1>2 DEF Sessions
<1>4. sess' = [sess EXCEPT ![k] = new]
  BY <1>1 DEF m
<1> HIDE DEF new
<1>5. /\ sess' \in [Slots -> Sessions] /\ sess'[k] = new
      /\ \A j \in Slots : j # k => sess'[j] = sess[j]
  BY <1>1, <1>3, <1>4
<1>6. /\ httpd' \in Requests /\ httpd'.pc \in {"prepare", "configure"}
      /\ httpd'.cookie = cookie /\ httpd'.seq = seq
      /\ httpd'.content = content /\ httpd'.generation = 0
      /\ httpd'.answer = "none"
  BY DEF Requests, Stages, Pending, Payloads
<1>7. SurfaceTypeOK'
  BY <1>1, <1>5, <1>6 DEF SurfaceTypeOK
<1>8. \A j \in Slots : /\ sess'[j].cookie = sess[j].cookie
                       /\ sess'[j].active = sess[j].active
                       /\ sess'[j].high = sess[j].high
                       /\ sess'[j].done = sess[j].done
                       /\ sess'[j].world = sess[j].world
  BY <1>3, <1>5
<1>9. Distinct'
  BY <1>8 DEF Distinct
<1>10. cookie # 0
  BY DEF Numbered
<1>11. Carried'
  BY <1>3, <1>5, <1>6, <1>10 DEF Carried, m
<1>12. Numbered'
  <2>1. \A j \in Slots : sess[j].active => \A f \in seen.fate :
           f.cookie = sess[j].cookie => f.seq <= sess[j].high
    BY DEF Numbered
  <2>2. \A j \in Slots : sess'[j].active =>
           /\ sess'[j].cookie # 0
           /\ sess'[j].inFlight # NoMutation =>
                 sess'[j].inFlight.seq = sess'[j].high + 1
    BY <1>2, <1>3, <1>5 DEF Numbered
  <2>3. \A f \in seen'.fate :
           ~(f.cookie = httpd'.cookie /\ f.seq = httpd'.seq)
    <3>1. sess[k].high \in Nat
      BY <1>1 DEF Sessions
    <3> QED
      BY <2>1, <3>1, <1>6
  <2> QED
    BY <2>1, <2>2, <2>3, <1>8 DEF Numbered
<1>13. Remembered'
  BY <1>6, <1>8 DEF Remembered, Said
<1>14. Fresh'
  BY <1>1, <1>6 DEF Fresh
<1>15. MutationOnce'
  BY DEF MutationOnce
<1>16. SessionTrusted'
  BY <1>8 DEF SessionTrusted
<1> QED
  BY <1>7, <1>9, <1>11, <1>12, <1>13, <1>14, <1>15, <1>16

\* A mutation arrives: reserved, replayed or refused.
LEMMA ReserveStep ==
  ASSUME SurfaceInv, NEW cookie \in Nat, NEW seq \in Nat \ {0},
         NEW content \in Contents, Reserve(cookie, seq, content)
  PROVE  SurfaceInv'
<1>1. /\ auth' \in [state : AuthStates, epoch : Nat] /\ trust' \in Nat
      /\ trust \in Nat
      /\ UNCHANGED <<auth, trust, cookies, seen>> /\ httpd.pc = "idle"
      /\ sess \in [Slots -> Sessions]
  BY DEF SurfaceInv, SurfaceTypeOK, Reserve, Listening
<1>2. "idle" \notin Working
  BY DEF Working, Pending
<1> DEFINE req == [Idle EXCEPT !.cookie = cookie, !.seq = seq,
                               !.content = content]
           first == IF content[1] = "run" THEN "prepare" ELSE "configure"
<1>3. CASE Reply /\ UNCHANGED sess
  BY <1>1, <1>2, <1>3, Replying, RequestStep
<1>4. ASSUME NEW k \in Found(cookie),
             Reservation(sess[k], seq, content) = "Reserved",
             sess' = [sess EXCEPT ![k].inFlight = [seq |-> seq,
                                                   content |-> content]],
             httpd' = [req EXCEPT !.pc = first]
      PROVE  SurfaceInv'
  <2>1. k \in Slots /\ sess[k].active /\ sess[k].cookie = cookie
        /\ sess[k] \in Sessions
    BY <1>1, <1>4 DEF Found
  <2>2. sess[k].inFlight = NoMutation /\ seq = sess[k].high + 1
    BY <2>1, <1>4, ReservationCases
  <2>3. httpd' = [pc |-> first, cookie |-> cookie, seq |-> seq,
                  content |-> content, generation |-> 0, world |-> 0,
                  epoch |-> 0, answer |-> "none"]
    BY <1>4 DEF Idle
  <2>4. first \in {"prepare", "configure"}
    OBVIOUS
  <2> HIDE DEF first, req
  <2> QED
    BY <1>1, <1>4, <2>1, <2>2, <2>3, <2>4, ReservedStep, ZenonT(60)
<1>5. ASSUME NEW k \in Found(cookie),
             Reservation(sess[k], seq, content) = "ReplayOutcome",
             httpd' = [req EXCEPT !.pc = "answer",
                                  !.answer = Recorded(sess[k], seq)],
             UNCHANGED sess
      PROVE  SurfaceInv'
  <2>1. k \in Slots /\ sess[k].active /\ sess[k].cookie = cookie
        /\ sess[k] \in Sessions
    BY <1>1, <1>5 DEF Found
  <2>2. /\ Told(seen.fate, cookie, seq, content, Recorded(sess[k], seq))
        /\ Recorded(sess[k], seq) \in Outcomes
    <3>1. \E i \in 1..Len(sess[k].done) : /\ sess[k].done[i].seq = seq
                                          /\ sess[k].done[i].content = content
      BY <2>1, <1>5, ReservationCases
    <3> QED
      BY <2>1, <3>1, RecordedTold
  <2>3. httpd' = [pc |-> "answer", cookie |-> cookie, seq |-> seq,
                  content |-> content, generation |-> 0, world |-> 0,
                  epoch |-> 0, answer |-> Recorded(sess[k], seq)]
    BY <1>5 DEF Idle
  <2>4. /\ httpd' \in Requests /\ httpd'.pc = "answer"
        /\ httpd'.cookie = cookie /\ httpd'.seq = seq
        /\ httpd'.content = content /\ httpd'.generation = 0
        /\ httpd'.answer = Recorded(sess[k], seq)
    BY <2>2, <2>3 DEF Requests, Stages, Payloads
  <2>5. Fresh'
    BY <1>1, <2>4 DEF Fresh
  <2>6. Turning
    BY <1>1, <1>2, <2>2, <2>4, <2>5 DEF Turning, Working, Pending
  <2> QED
    BY <1>1, <1>5, <2>6, RequestStep
<1> HIDE DEF req, first
<1>6. \/ Reply /\ UNCHANGED sess
      \/ \E k \in Found(cookie) :
            LET r == Reservation(sess[k], seq, content)
            IN  CASE r = "Reserved" ->
                       /\ sess' = [sess EXCEPT ![k].inFlight =
                                     [seq |-> seq, content |-> content]]
                       /\ httpd' = [req EXCEPT !.pc = first]
                  [] r = "ReplayOutcome" ->
                       /\ httpd' = [req EXCEPT !.pc = "answer",
                                     !.answer = Recorded(sess[k], seq)]
                       /\ UNCHANGED sess
                  [] OTHER -> Reply /\ UNCHANGED sess
  BY DEF Reserve, req, first
<1>7. CASE \E k \in Found(cookie) :
            LET r == Reservation(sess[k], seq, content)
            IN  CASE r = "Reserved" ->
                       /\ sess' = [sess EXCEPT ![k].inFlight =
                                     [seq |-> seq, content |-> content]]
                       /\ httpd' = [req EXCEPT !.pc = first]
                  [] r = "ReplayOutcome" ->
                       /\ httpd' = [req EXCEPT !.pc = "answer",
                                     !.answer = Recorded(sess[k], seq)]
                       /\ UNCHANGED sess
                  [] OTHER -> Reply /\ UNCHANGED sess
  <2>1. PICK k \in Found(cookie) :
          \/ /\ Reservation(sess[k], seq, content) = "Reserved"
             /\ sess' = [sess EXCEPT ![k].inFlight =
                           [seq |-> seq, content |-> content]]
             /\ httpd' = [req EXCEPT !.pc = first]
          \/ /\ Reservation(sess[k], seq, content) = "ReplayOutcome"
             /\ httpd' = [req EXCEPT !.pc = "answer",
                           !.answer = Recorded(sess[k], seq)]
             /\ UNCHANGED sess
          \/ Reply /\ UNCHANGED sess
    BY <1>7
  <2> QED
    BY <2>1, <1>3, <1>4, <1>5
<1> QED
  BY <1>3, <1>6, <1>7

-----------------------------------------------------------------------------
(* A mutation goes on, is decided and is completed.                        *)

\* A mutation moves on without an effect.
LEMMA UndecidedStep ==
  ASSUME SurfaceInv, NEW pc \in Pending, httpd.pc \in Pending, Undecided(pc),
         UNCHANGED <<auth, trust, sess, cookies>>
  PROVE  SurfaceInv'
<1> USE DEF SurfaceInv
<1>1. httpd \in Requests /\ seen' = seen
  BY DEF SurfaceTypeOK, Undecided
<1>2. /\ httpd' \in Requests /\ httpd'.pc = pc
      /\ httpd'.cookie = httpd.cookie /\ httpd'.seq = httpd.seq
      /\ httpd'.content = httpd.content /\ httpd'.answer = httpd.answer
      /\ httpd'.generation = httpd.generation
  BY <1>1 DEF Undecided, Requests, Stages
<1>3. pc \notin {"complete", "answer", "verify", "issue", "bootstrap"}
      /\ httpd.pc \notin {"complete", "answer"}
  BY DEF Pending
<1>4. SurfaceTypeOK'
  BY <1>1, <1>2, <1>3 DEF SurfaceTypeOK
<1>5. Distinct' /\ MutationOnce' /\ SessionTrusted'
  BY <1>1 DEF Distinct, MutationOnce, SessionTrusted
<1>6. Carried'
  BY <1>2 DEF Carried
<1>7. Numbered'
  BY <1>1, <1>2, <1>3 DEF Numbered
<1>8. Remembered'
  BY <1>1, <1>2, <1>3 DEF Remembered
<1>9. Fresh'
  BY <1>1, <1>2, <1>3 DEF Fresh
<1> QED
  BY <1>4, <1>5, <1>6, <1>7, <1>8, <1>9

\* The outcome says what took effect: a failure that leaves it open is
\* neither applied nor a refusal.
Honest(outcome, effect) ==
    /\ outcome \in Outcomes /\ effect \in BOOLEAN
    /\ outcome = "Applied" => effect
    /\ outcome \in Said \ {"Applied"} => ~effect

\* A mutation takes effect, or fails for good.
LEMMA DecidedStep ==
  ASSUME SurfaceInv, NEW outcome, NEW effect, httpd.pc \in Pending,
         Honest(outcome, effect), Decided(outcome, effect),
         UNCHANGED <<auth, trust, sess, cookies>>
  PROVE  SurfaceInv'
<1> USE DEF SurfaceInv
<1>1. /\ httpd \in Requests
      /\ seen \in [world : Nat, fate : SUBSET Fates]
      /\ sess \in [Slots -> Sessions]
  BY DEF SurfaceTypeOK
<1> DEFINE new == [cookie |-> httpd.cookie, seq |-> httpd.seq,
                   content |-> httpd.content, effect |-> effect]
<1>2. /\ httpd' = [httpd EXCEPT !.pc = "complete", !.answer = outcome]
      /\ seen' = [seen EXCEPT !.fate = seen.fate \cup {new}]
  BY DEF Decided
<1>3. /\ new \in Fates /\ new.cookie = httpd.cookie /\ new.seq = httpd.seq
      /\ new.content = httpd.content /\ new.effect = effect
  BY <1>1 DEF Fates, Requests, Honest
<1> HIDE DEF new
<1>4. /\ httpd' \in Requests /\ httpd'.pc = "complete"
      /\ httpd'.cookie = httpd.cookie /\ httpd'.seq = httpd.seq
      /\ httpd'.content = httpd.content /\ httpd'.answer = outcome
      /\ httpd'.generation = httpd.generation
  BY <1>1, <1>2 DEF Requests, Stages, Honest
<1>5. /\ seen' \in [world : Nat, fate : SUBSET Fates]
      /\ seen'.fate = seen.fate \cup {new} /\ seen'.world = seen.world
  BY <1>1, <1>2, <1>3
<1>6. SurfaceTypeOK'
  BY <1>1, <1>4, <1>5 DEF SurfaceTypeOK
<1>7. PICK k \in Slots : sess[k].cookie = httpd.cookie
  BY DEF Carried
<1>8. Distinct'
  BY <1>3, <1>5, <1>7 DEF Distinct
<1>9. Carried'
  BY <1>4 DEF Carried
<1>10. Numbered'
  <2>1. httpd.pc # "complete"
    BY DEF Pending
  <2>2. \A j \in Slots : sess'[j].active =>
          \A f \in seen'.fate : f.cookie = sess'[j].cookie =>
             \/ f.seq <= sess'[j].high
             \/ /\ httpd'.pc = "complete"
                /\ f.cookie = httpd'.cookie /\ f.seq = httpd'.seq
    BY <2>1, <1>3, <1>4, <1>5 DEF Numbered
  <2> QED
    BY <2>2, <1>4 DEF Numbered, Pending
<1>11. Remembered'
  <2>1. ASSUME NEW cookie, NEW seq, NEW content, NEW o,
               Told(seen.fate, cookie, seq, content, o)
        PROVE  Told(seen'.fate, cookie, seq, content, o)
    BY <2>1, <1>5 DEF Told
  <2>2. Told(seen'.fate, httpd'.cookie, httpd'.seq, httpd'.content,
             httpd'.answer)
    BY <1>3, <1>4, <1>5 DEF Told, Honest
  <2>3. outcome \in Outcomes
    BY DEF Honest
  <2>4. \A j \in Slots : \A i \in 1..Len(sess'[j].done) :
          Told(seen'.fate, sess'[j].cookie, sess'[j].done[i].seq,
               sess'[j].done[i].content, sess'[j].done[i].outcome)
    BY <2>1 DEF Remembered
  <2> QED
    BY <2>2, <2>3, <2>4, <1>4 DEF Remembered
<1>12. Fresh'
  BY <1>4 DEF Fresh
<1>13. MutationOnce'
  BY <1>3, <1>5 DEF MutationOnce, Numbered
<1>14. SessionTrusted'
  BY <1>5 DEF SessionTrusted
<1> QED
  BY <1>6, <1>8, <1>9, <1>10, <1>11, <1>12, <1>13, <1>14

\* What the owner of the command answers becomes an honest outcome.
LEMMA HonestOutcomes ==
  /\ \A status \in {"StaleProgramCatalog", "ProgramUnavailable",
                    "Unavailable"} : Honest(RequestOutcome(status), FALSE)
  /\ Honest(CommandOutcome("ContextMissing"), FALSE)
  /\ Honest(CommandOutcome("StaleState"), FALSE)
  /\ Honest(CommandOutcome("Applied"), TRUE)
  /\ Honest(CommandOutcome("WriteFailed"), FALSE)
  /\ \A effect \in BOOLEAN :
        Honest(CommandOutcome("PersistenceIndeterminate"), effect)
  /\ Honest(ConfigurationOutcome("NotAllowed"), FALSE)
  /\ Honest(ConfigurationOutcome("StateChanged"), FALSE)
  /\ Honest(ConfigurationOutcome("Activated"), TRUE)
  /\ Honest(ConfigurationOutcome("PersistenceFailure"), FALSE)
  /\ \A effect \in BOOLEAN :
        Honest(ConfigurationOutcome("CommitIndeterminate"), effect)
BY DEF Honest, RequestOutcome, CommandOutcome, ConfigurationOutcome,
       Outcomes, Said

\* A mutation on its way to its effect.
LEMMA MutationStep ==
  ASSUME SurfaceInv, Prepare \/ Confirm \/ Apply \/ Configure
  PROVE  SurfaceInv'
<1>1. UNCHANGED <<auth, trust, sess, cookies>>
  BY DEF Prepare, Confirm, Apply, Configure, MutationUnchanged
<1>2. httpd.pc \in Pending
  BY DEF Prepare, Confirm, Apply, Configure, Pending
<1>3. \/ \E pc \in {"confirm", "apply"} : Undecided(pc)
      \/ \E outcome, effect : Honest(outcome, effect)
                              /\ Decided(outcome, effect)
  <2>1. CASE Prepare
    BY <2>1, HonestOutcomes DEF Prepare
  <2>2. CASE Confirm
    BY <2>2, HonestOutcomes DEF Confirm
  <2>3. CASE Apply
    BY <2>3, HonestOutcomes DEF Apply
  <2>4. CASE Configure
    BY <2>4, HonestOutcomes DEF Configure
  <2> QED
    BY <2>1, <2>2, <2>3, <2>4
<1>4. CASE \E pc \in {"confirm", "apply"} : Undecided(pc)
  BY <1>1, <1>2, <1>4, UndecidedStep DEF Pending
<1>5. CASE \E outcome, effect : Honest(outcome, effect)
                                /\ Decided(outcome, effect)
  BY <1>1, <1>2, <1>5, DecidedStep
<1> QED
  BY <1>3, <1>4, <1>5

\* completeMutation: the memory gains the mutation in flight and nothing else.
LEMMA CompletedFacts ==
  ASSUME NEW s \in Sessions, NEW outcome \in Outcomes
  PROVE  /\ Completed(s, outcome) \in Sessions
         /\ Completed(s, outcome).active = s.active
         /\ Completed(s, outcome).cookie = s.cookie
         /\ Completed(s, outcome).world = s.world
         /\ Completed(s, outcome).inFlight = NoMutation
         /\ s.active => Completed(s, outcome).high = s.inFlight.seq
         /\ \A i \in 1..Len(Completed(s, outcome).done) :
               \/ \E j \in 1..Len(s.done) :
                     Completed(s, outcome).done[i] = s.done[j]
               \/ Completed(s, outcome).done[i] =
                     [seq |-> s.inFlight.seq, content |-> s.inFlight.content,
                      outcome |-> outcome]
<1> DEFINE entry == [seq |-> s.inFlight.seq, content |-> s.inFlight.content,
                     outcome |-> outcome]
           full == Len(s.done) = Replays
           floor == IF full THEN Head(s.done).seq ELSE s.floor
           done == IF full THEN Append(Tail(s.done), entry)
                   ELSE Append(s.done, entry)
           t == [s EXCEPT !.inFlight = NoMutation, !.high = entry.seq,
                          !.floor = floor, !.done = done]
<1>1. /\ s.done \in Seq(Memories) /\ s.inFlight \in Mutations
      /\ s.floor \in Nat /\ NoMutation \in Mutations
  BY DEF Sessions, Mutations, NoMutation, NoContent, Payloads
<1>2. entry \in Memories /\ entry.seq = s.inFlight.seq /\ entry.seq \in Nat
  BY <1>1 DEF Mutations, Memories
<1> HIDE DEF entry
<1>3. full => s.done # <<>>
  BY WebAssumption
<1>4. floor \in Nat
  <2>1. CASE full
    <3>1. Head(s.done) \in Memories
      BY <1>1, <1>3, <2>1
    <3> QED
      BY <2>1, <3>1 DEF Memories
  <2>2. CASE ~full
    BY <2>2, <1>1
  <2> QED
    BY <2>1, <2>2
<1>5. /\ done \in Seq(Memories)
      /\ \A i \in 1..Len(done) :
            (\E j \in 1..Len(s.done) : done[i] = s.done[j]) \/ done[i] = entry
  <2>1. CASE full
    <3>1. /\ Tail(s.done) \in Seq(Memories)
          /\ Len(Tail(s.done)) = Len(s.done) - 1
          /\ \A i \in 1..Len(Tail(s.done)) : Tail(s.done)[i] = s.done[i + 1]
      BY <1>1, <1>3, <2>1
    <3>2. \A i \in 1..Len(Tail(s.done)) :
             \E j \in 1..Len(s.done) : Tail(s.done)[i] = s.done[j]
      BY <3>1, <1>1
    <3>3. done = Append(Tail(s.done), entry)
      BY <2>1
    <3> QED
      BY <3>1, <3>2, <3>3, <1>2
  <2>2. CASE ~full
    BY <1>1, <1>2, <2>2
  <2> QED
    BY <2>1, <2>2
<1> HIDE DEF floor, done
<1>6. CASE s.active
  <2>1. Completed(s, outcome) = t
    BY <1>6 DEF Completed, entry, floor, done
  <2>2. /\ t \in Sessions /\ t.active = s.active /\ t.cookie = s.cookie
        /\ t.world = s.world /\ t.inFlight = NoMutation
        /\ t.high = s.inFlight.seq /\ t.done = done
    BY <1>1, <1>2, <1>4, <1>5 DEF Sessions
  <2> QED
    BY <2>1, <2>2, <1>5 DEF entry
<1>7. CASE ~s.active
  <2>1. Completed(s, outcome) = [s EXCEPT !.inFlight = NoMutation]
    BY <1>7 DEF Completed
  <2> QED
    BY <2>1, <1>1, <1>7 DEF Sessions
<1> QED
  BY <1>6, <1>7

\* The outcome of a mutation is remembered and answered.
LEMMA CompleteStep ==
  ASSUME SurfaceInv, Complete
  PROVE  SurfaceInv'
<1> USE DEF SurfaceInv
<1>1. /\ sess \in [Slots -> Sessions] /\ httpd \in Requests
      /\ httpd.pc = "complete" /\ httpd.answer \in Outcomes
      /\ UNCHANGED <<auth, trust, cookies, seen>>
      /\ seen \in [world : Nat, fate : SUBSET Fates]
  BY DEF SurfaceTypeOK, Remembered, Complete
<1>2. PICK k \in Slots :
        /\ sess[k].cookie = httpd.cookie
        /\ sess[k].inFlight = [seq |-> httpd.seq, content |-> httpd.content]
        /\ httpd.cookie # 0 /\ httpd.seq # 0
  BY <1>1 DEF Carried
<1>3. k = CHOOSE j \in Slots : sess[j].cookie = httpd.cookie
  BY <1>2 DEF Distinct
<1> DEFINE new == Completed(sess[k], httpd.answer)
<1>4. sess' = [sess EXCEPT ![k] = new]
  BY <1>1, <1>3 DEF Complete
<1>5. /\ new \in Sessions /\ new.active = sess[k].active
      /\ new.cookie = sess[k].cookie /\ new.world = sess[k].world
      /\ new.inFlight = NoMutation
      /\ sess[k].active => new.high = httpd.seq
      /\ \A i \in 1..Len(new.done) :
            \/ \E j \in 1..Len(sess[k].done) : new.done[i] = sess[k].done[j]
            \/ new.done[i] = [seq |-> httpd.seq, content |-> httpd.content,
                              outcome |-> httpd.answer]
  BY <1>1, <1>2, CompletedFacts
<1> HIDE DEF new
<1>6. /\ sess' \in [Slots -> Sessions] /\ sess'[k] = new
      /\ \A j \in Slots : j # k => sess'[j] = sess[j]
  BY <1>1, <1>4, <1>5
<1>7. httpd' = [httpd EXCEPT !.pc = "answer"]
  BY DEF Complete
<1>8. /\ httpd' \in Requests /\ httpd'.pc = "answer"
      /\ httpd'.cookie = httpd.cookie /\ httpd'.seq = httpd.seq
      /\ httpd'.content = httpd.content /\ httpd'.answer = httpd.answer
      /\ httpd'.generation = httpd.generation
  BY <1>1, <1>7 DEF Requests, Stages
<1>9. SurfaceTypeOK'
  BY <1>1, <1>6, <1>8 DEF SurfaceTypeOK
<1>10. \A j \in Slots : /\ sess'[j].cookie = sess[j].cookie
                        /\ sess'[j].active = sess[j].active
                        /\ sess'[j].world = sess[j].world
  BY <1>5, <1>6
<1>11. Distinct'
  BY <1>1, <1>10 DEF Distinct
<1>12. Carried'
  BY <1>8 DEF Carried, Pending
<1>13. Numbered'
  <2>1. ASSUME NEW j \in Slots, sess'[j].active
        PROVE  /\ sess'[j].cookie # 0
               /\ sess'[j].inFlight # NoMutation =>
                     sess'[j].inFlight.seq = sess'[j].high + 1
               /\ \A f \in seen'.fate : f.cookie = sess'[j].cookie =>
                     f.seq <= sess'[j].high
    <3>1. CASE j = k
      <4>1. sess[k].active /\ sess[k].inFlight.seq = httpd.seq
            /\ sess[k].inFlight # NoMutation
        BY <2>1, <3>1, <1>2, <1>10 DEF NoMutation
      <4>2. httpd.seq = sess[k].high + 1 /\ sess[k].high \in Nat
        BY <4>1, <1>1 DEF Numbered, Sessions
      <4>3. \A f \in seen.fate : f.cookie = sess[k].cookie =>
               f.seq <= httpd.seq
        <5>1. \A f \in seen.fate : f.seq \in Nat
          BY <1>1 DEF Fates
        <5> QED
          BY <4>1, <4>2, <5>1 DEF Numbered
      <4> QED
        BY <3>1, <4>1, <4>3, <1>1, <1>2, <1>5, <1>6
    <3>2. CASE j # k
      <4>1. sess'[j] = sess[j] /\ sess[j].active
        BY <2>1, <3>2, <1>6
      <4>2. sess[j].cookie # httpd.cookie
        BY <3>2, <1>2 DEF Distinct
      <4> QED
        BY <4>1, <4>2, <1>1 DEF Numbered
    <3> QED
      BY <3>1, <3>2
  <2> QED
    BY <2>1, <1>8 DEF Numbered, Pending
<1>14. Remembered'
  <2>1. Told(seen.fate, httpd.cookie, httpd.seq, httpd.content, httpd.answer)
    BY <1>1 DEF Remembered
  <2>2. ASSUME NEW j \in Slots, NEW i \in 1..Len(sess'[j].done)
        PROVE  Told(seen'.fate, sess'[j].cookie, sess'[j].done[i].seq,
                    sess'[j].done[i].content, sess'[j].done[i].outcome)
    <3>1. CASE j = k
      <4>1. CASE \E l \in 1..Len(sess[k].done) : new.done[i] = sess[k].done[l]
        BY <3>1, <4>1, <1>1, <1>5, <1>6 DEF Remembered
      <4>2. CASE new.done[i] = [seq |-> httpd.seq, content |-> httpd.content,
                                outcome |-> httpd.answer]
        BY <3>1, <4>2, <2>1, <1>1, <1>2, <1>5, <1>6
      <4> QED
        BY <2>2, <3>1, <4>1, <4>2, <1>5, <1>6
    <3>2. CASE j # k
      BY <2>2, <3>2, <1>1, <1>6 DEF Remembered
    <3> QED
      BY <3>1, <3>2
  <2> QED
    BY <2>1, <2>2, <1>1, <1>8 DEF Remembered
<1>15. Fresh'
  BY <1>1, <1>8 DEF Fresh
<1>16. MutationOnce'
  BY <1>1 DEF MutationOnce
<1>17. SessionTrusted'
  BY <1>1, <1>10 DEF SessionTrusted
<1> QED
  BY <1>9, <1>11, <1>12, <1>13, <1>14, <1>15, <1>16, <1>17

-----------------------------------------------------------------------------
(* The theorems.                                                           *)

\* Nobody is logged in and nothing has taken effect.
LEMMA SurfaceInit ==
  Init => SurfaceInv
<1> SUFFICES ASSUME Init PROVE SurfaceInv
  OBVIOUS
<1>1. /\ sess = [k \in Slots |-> EmptySession] /\ cookies = 0 /\ trust = 1
      /\ httpd = Idle /\ seen = [world |-> 0, fate |-> {}]
      /\ auth \in [state : AuthStates, epoch : Nat]
  BY DEF Init, AuthStates
<1>2. /\ \A k \in Slots : sess[k] = EmptySession
      /\ EmptySession \in Sessions /\ ~EmptySession.active
      /\ EmptySession.cookie = 0 /\ EmptySession.done = <<>>
  BY <1>1, EmptyTyped DEF EmptySession
<1>3. httpd.pc = "idle" /\ httpd.generation = 0 /\ httpd.answer = "none"
      /\ httpd \in Requests
  BY <1>1, IdleTyped
<1>4. seen \in [world : Nat, fate : SUBSET Fates] /\ seen.fate = {}
  BY <1>1
<1>5. SurfaceTypeOK
  BY <1>1, <1>2, <1>3, <1>4 DEF SurfaceTypeOK
<1>6. Distinct /\ Carried /\ MutationOnce /\ SessionTrusted /\ Fresh
  BY <1>1, <1>2, <1>3, <1>4 DEF Distinct, Carried, MutationOnce,
                                SessionTrusted, Fresh, Pending
<1>7. Numbered
  BY <1>2, <1>3, <1>4 DEF Numbered, Pending
<1>8. Remembered
  BY <1>2, <1>3 DEF Remembered, Said
<1> QED
  BY <1>5, <1>6, <1>7, <1>8 DEF SurfaceInv

\* Every step.
LEMMA SurfaceNext ==
  SurfaceInv /\ [Next]_vars => SurfaceInv'
<1> SUFFICES ASSUME SurfaceInv, [Next]_vars PROVE SurfaceInv'
  OBVIOUS
<1>1. CASE Request
  <2>1. cookies \in Nat /\ MaxSeq \in Nat
    BY WebAssumption DEF SurfaceInv, SurfaceTypeOK
  <2>2. CASE Login \/ \E cookie \in 0..cookies : Shell(cookie)
    BY <2>2, AuthenticateStep DEF Login, Shell, Listening
  <2>3. CASE \E mode \in Provisioned : Provision(mode)
    BY <2>3, ProvisionStep
  <2>4. CASE \E cookie \in 1..cookies : Logout(cookie)
    BY <2>1, <2>4, LogoutStep
  <2>5. CASE \E cookie \in 1..cookies, seq \in 1..MaxSeq,
                content \in Contents : Reserve(cookie, seq, content)
    <3>1. PICK cookie \in 1..cookies, seq \in 1..MaxSeq,
               content \in Contents : Reserve(cookie, seq, content)
      BY <2>5
    <3>2. cookie \in Nat /\ seq \in Nat \ {0}
      BY <2>1
    <3> QED
      BY <3>1, <3>2, ReserveStep
  <2> QED
    BY <1>1, <2>2, <2>3, <2>4, <2>5 DEF Request
<1>2. CASE Handle
  BY <1>2, VerifyStep, IssueStep, MutationStep, CompleteStep, BootstrapStep,
     EndingStep DEF Handle
<1>3. CASE Press
  <2>1. CASE \E mode \in Modes : ApplyNetworkMode(mode)
    BY <2>1, NetworkStep
  <2>2. CASE ReconfigureHomeWifi
    BY <2>2, NetworkStep
  <2>3. CASE \/ \E mode \in Modes : NetworkFails(mode)
             \/ SetupCommitted \/ LocalCommand \/ OpenWindow \/ HoldComplete
    BY <2>3, QuietStep DEF NetworkFails, SetupCommitted, LocalCommand,
                           OpenWindow, HoldComplete
  <2> QED
    BY <1>3, <2>1, <2>2, <2>3 DEF Press
<1>4. CASE Continue
  <2>1. CASE ResetCore
    BY <2>1, ResetCoreStep
  <2>2. CASE StoppedLocked \/ ResetRefused \/ FinishReset
    BY <2>2, QuietStep DEF StoppedLocked, ResetRefused, FinishReset
  <2> QED
    BY <1>4, <2>1, <2>2 DEF Continue
<1>5. CASE Deadline
  <2>1. CASE LapseWindow
    BY <2>1, QuietStep DEF LapseWindow
  <2>2. CASE \E k \in Slots : Lapse(k)
    BY <2>2, LapseStep
  <2> QED
    BY <1>5, <2>1, <2>2 DEF Deadline
<1>6. CASE UNCHANGED vars
  BY <1>6, QuietStep DEF vars
<1> QED
  BY <1>1, <1>2, <1>3, <1>4, <1>5, <1>6 DEF Next

\* The invariant of the browser surface, however many sessions there are,
\* however long the replay memory of a session is and however the requests of
\* the httpd task and the presses of the main task interleave.
THEOREM SurfaceInvariant == Spec => []SurfaceInv
BY SurfaceInit, SurfaceNext, PTL DEF Spec

\* A repeated, reordered or late POST is carried out at most once: the
\* reservation of WebSessionManager::reserveMutation and its completion leave
\* no second chance for a sequence number of a session.
THEOREM SurfaceMutationOnce == Spec => []MutationOnce
<1>1. SurfaceInv => MutationOnce
  BY DEF SurfaceInv
<1> QED
  BY <1>1, SurfaceInvariant, PTL

\* An answer of a mutation, fresh or replayed from the memory of the session,
\* tells what really happened to the mutation that was asked for.
THEOREM SurfaceAnswerTrue == Spec => []AnswerTrue
<1>1. SurfaceInv => AnswerTrue
  <2> SUFFICES ASSUME SurfaceInv PROVE AnswerTrue
    OBVIOUS
  <2>1. CASE httpd.pc \in {"complete", "answer"}
    <3>1. Told(seen.fate, httpd.cookie, httpd.seq, httpd.content,
               httpd.answer)
      BY <2>1 DEF SurfaceInv, Remembered
    <3> QED
      BY <3>1 DEF Told, AnswerTrue, Said
  <2>2. CASE httpd.pc \notin {"complete", "answer"}
    <3>1. httpd.answer \notin Said
      BY <2>2 DEF SurfaceInv, Remembered
    <3> QED
      BY <3>1 DEF AnswerTrue, Said
  <2> QED
    BY <2>1, <2>2
<1> QED
  BY <1>1, SurfaceInvariant, PTL

\* No login that was still deriving its key when the network changed, the
\* access was provisioned or the device was reset opens a session afterwards,
\* and no session survives such a boundary.
THEOREM SurfaceSessionTrusted == Spec => []SessionTrusted
<1>1. SurfaceInv => SessionTrusted
  BY DEF SurfaceInv
<1> QED
  BY <1>1, SurfaceInvariant, PTL

=============================================================================
