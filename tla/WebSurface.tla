----------------------------- MODULE WebSurface -----------------------------
(***************************************************************************)
(* The browser surface: sessions, the replay protection of mutations, the  *)
(* web password, the network boundary and the factory reset, as the two    *)
(* tasks that share them see them.                                         *)
(*                                                                         *)
(* The httpd task serves one request at a time; the main task carries out  *)
(* what is pressed on the touch screen.  Both enter the application under  *)
(* one lock (ApplicationCallSerializer, `l1`).  A slow key derivation runs *)
(* outside that lock under a token of the AuthOperationGate, and holds the *)
(* mutex of the authentication domain, so nobody reads the authentication  *)
(* state meanwhile.  A call that holds the lock throughout is one step.    *)
(*                                                                         *)
(* A browser may send any request at any time with any cookie it was ever  *)
(* given, and repeat it: lost answers need no action of their own.  The    *)
(* two deadlines of a session and the provisioning window may pass at any  *)
(* moment.                                                                 *)
(***************************************************************************)
EXTENDS Naturals, Sequences, FiniteSets

CONSTANTS
    Slots,      \* the session slots (four on the device)
    Replays,    \* completed mutations a session remembers (eight)
    Modes,      \* the selectable network modes
    Contents,   \* the mutations: what is changed and the revision expected
    MaxCookie, MaxSeq, MaxRev, MaxWorld   \* bounds of the instance

ASSUME WebAssumption ==
    /\ Replays \in Nat \ {0}
    /\ Contents \subseteq {"run", "config"} \X Nat
    /\ {MaxCookie, MaxSeq, MaxRev, MaxWorld} \subseteq Nat

VARIABLES
    l1,      \* the task that keeps the application lock between steps
    gate,    \* [closed, tokens]: AuthOperationGate
    auth,    \* [state, epoch]: what webAuthenticationStateUnlocked finds
    trust,   \* webTrustGeneration_
    window,  \* the local release of the web provisioning is open
    sess,    \* the session slots
    cookies, \* session identifiers handed out so far
    net,     \* [mode, http, setup]: the selected mode, the HTTP server runs,
             \* the network setup page owns the surface
    app,     \* [rev, run, blocked, cfg]: run revision, a run is active,
             \* run commands are blocked, configuration revision
    httpd,   \* the request the httpd task works on
    ui,      \* the operation the main task works on
    seen     \* observed: [world, fate]

vars == <<l1, gate, auth, trust, window, sess, cookies, net, app,
          httpd, ui, seen>>

Provisioned == {"PasswordProtected", "PasswordDisabled"}

NoContent == <<"none", 0>>
NoMutation == [seq |-> 0, content |-> NoContent]
EmptySession == [active |-> FALSE, cookie |-> 0, inFlight |-> NoMutation,
                 high |-> 0, floor |-> 0, done |-> <<>>, world |-> 0]
Idle == [pc |-> "idle", cookie |-> 0, seq |-> 0, content |-> NoContent,
         generation |-> 0, world |-> 0, epoch |-> 0, answer |-> "none"]

-----------------------------------------------------------------------------
(* The application lock and the mutex of the authentication domain.        *)

\* The lock is free: a call that needs it only for one step may run.
Enter == l1 = "none"

\* inspect() waits for the domain mutex, which a key derivation holds.
DomainFree == gate.tokens = {}

Begin(task) == gate' = [gate EXCEPT !.tokens = @ \cup {task}]

End(task) == gate' = [gate EXCEPT !.tokens = @ \ {task}]

-----------------------------------------------------------------------------
(* Sessions.                                                               *)

\* retire: the reservation of a mutation in flight stays with the slot.
Retired(s) == [s EXCEPT !.active = FALSE, !.high = 0, !.floor = 0,
                        !.done = <<>>]

RevokedAll == [k \in Slots |-> Retired(sess[k])]

Usable(s) == ~s.active /\ s.inFlight = NoMutation

\* create: the first slot that is retired and has no mutation in flight; the
\* lapsed sessions are retired by Lapse.
Created(k, world) ==
    [sess EXCEPT ![k] = [EmptySession EXCEPT !.active = TRUE,
                                             !.cookie = cookies + 1,
                                             !.world = world]]

\* find: the active session of this cookie.
Found(cookie) == {k \in Slots : sess[k].active /\ sess[k].cookie = cookie}

\* One of the two deadlines of a session has passed when it is looked at.
Lapse(k) ==
    /\ sess[k].active
    /\ sess' = [sess EXCEPT ![k] = Retired(@)]
    /\ UNCHANGED <<l1, gate, auth, trust, window, cookies, net,
                   app, httpd, ui, seen>>

\* reserveMutation for the active session s.
Reservation(s, seq, content) ==
    LET known == {i \in 1..Len(s.done) : s.done[i].seq = seq}
    IN  CASE s.inFlight # NoMutation ->
               IF s.inFlight.seq # seq THEN "SequenceConflict"
               ELSE IF s.inFlight.content = content THEN "InFlight"
               ELSE "SequenceReused"
          [] s.inFlight = NoMutation /\ seq <= s.floor -> "ReplayExpired"
          [] s.inFlight = NoMutation /\ seq > s.floor /\ known # {} ->
               IF s.done[CHOOSE i \in known : TRUE].content = content
               THEN "ReplayOutcome" ELSE "SequenceReused"
          [] OTHER -> IF seq > s.high + 1 THEN "SequenceGap"
                      ELSE IF seq <= s.high THEN "ReplayExpired"
                      ELSE "Reserved"

Recorded(s, seq) ==
    s.done[CHOOSE i \in 1..Len(s.done) : s.done[i].seq = seq].outcome

\* Mutant: a mutation that was not applied only gives its reservation back.
CompletedIfApplied(s, outcome) ==
    IF ~s.active \/ outcome # "Applied" THEN [s EXCEPT !.inFlight = NoMutation]
    ELSE [s EXCEPT !.inFlight = NoMutation,
                   !.high = s.inFlight.seq,
                   !.done = <<[seq |-> s.inFlight.seq, outcome |-> outcome,
                               content |-> s.inFlight.content]>>]

\* completeMutation: an active session remembers the outcome, a retired one
\* only gives its reservation back.
Completed(s, outcome) ==
    LET entry == [seq |-> s.inFlight.seq, content |-> s.inFlight.content,
                  outcome |-> outcome]
        full == Len(s.done) = Replays
    IN  IF ~s.active THEN [s EXCEPT !.inFlight = NoMutation]
        ELSE [s EXCEPT !.inFlight = NoMutation,
                       !.high = entry.seq,
                       !.floor = IF full THEN Head(s.done).seq ELSE @,
                       !.done = IF full THEN Append(Tail(@), entry)
                                ELSE Append(@, entry)]

-----------------------------------------------------------------------------
(* Trust boundaries.                                                       *)

\* revokeWebSessionsAtTrustBoundary, after the event `world` counts.
CrossBoundary ==
    /\ trust' = trust + 1
    /\ window' = FALSE
    /\ sess' = RevokedAll
    /\ seen' = [seen EXCEPT !.world = @ + 1]

BoundaryLeft == seen.world < MaxWorld

-----------------------------------------------------------------------------
(* The httpd task.                                                         *)

\* WebRouteDispatcher: the normal routes answer unless the setup page of the
\* network owns the surface.
Listening == httpd.pc = "idle" /\ net.http /\ ~net.setup

\* A refusal, or an answer that no property is about, ends the request.
Reply == httpd' = Idle

\* The answer of a mutation has been sent; it may still be lost.
Answered ==
    /\ httpd.pc = "answer"
    /\ httpd' = Idle
    /\ UNCHANGED <<l1, gate, auth, trust, window, sess, cookies,
                   net, app, ui, seen>>

\* authenticateWebPassword up to the key derivation; without a password there
\* is none to derive.
Authenticate ==
    LET req == [Idle EXCEPT !.generation = trust, !.world = seen.world]
    IN  \/ /\ auth.state = "PasswordProtected" /\ ~gate.closed
           /\ httpd' = [req EXCEPT !.pc = "verify", !.epoch = auth.epoch]
           /\ Begin("httpd")
        \/ /\ auth.state = "PasswordDisabled"
           /\ httpd' = [req EXCEPT !.pc = "issue",
                                   !.answer = "PasswordDisabled"]
           /\ UNCHANGED gate
        \/ /\ auth.state \notin Provisioned
           /\ Reply /\ UNCHANGED gate

\* POST /login.
Login ==
    /\ Listening /\ Enter /\ DomainFree /\ cookies < MaxCookie
    /\ Authenticate
    /\ UNCHANGED <<l1, auth, trust, window, sess, cookies, net,
                   app, ui, seen>>

\* GET /: a browser without a session gets one where no password is asked for.
Shell(cookie) ==
    /\ Listening /\ Enter /\ DomainFree /\ cookies < MaxCookie
    /\ auth.state = "PasswordDisabled" /\ Found(cookie) = {}
    /\ Authenticate
    /\ UNCHANGED <<l1, auth, trust, window, sess, cookies, net,
                   app, ui, seen>>

\* verifyWebPassword outside the lock: right, or wrong, locked out or failed.
VerifyPassword ==
    /\ httpd.pc = "verify"
    /\ End("httpd")
    /\ \/ httpd' = [httpd EXCEPT !.pc = "issue", !.answer = "PasswordProtected"]
       \/ Reply
    /\ UNCHANGED <<l1, auth, trust, window, sess, cookies, net,
                   app, ui, seen>>

\* Mutant: only the state of the authentication is checked again.
IssueSessionOnState ==
    /\ httpd.pc = "issue" /\ Enter /\ DomainFree
    /\ IF auth.state = httpd.answer /\ \E k \in Slots : Usable(sess[k])
       THEN \E k \in Slots :
              /\ Usable(sess[k])
              /\ sess' = Created(k, httpd.world)
              /\ cookies' = cookies + 1
       ELSE UNCHANGED <<sess, cookies>>
    /\ Reply
    /\ UNCHANGED <<l1, gate, auth, trust, window, net, app, ui, seen>>

\* issueWebSession: recheck and create under the lock.
IssueSession ==
    /\ httpd.pc = "issue" /\ Enter /\ DomainFree
    /\ \/ /\ httpd.generation # trust \/ auth.state # httpd.answer
          /\ UNCHANGED <<sess, cookies>>
       \/ /\ httpd.generation = trust /\ auth.state = httpd.answer
          /\ IF \E k \in Slots : Usable(sess[k])
             THEN /\ \E k \in Slots :
                        /\ Usable(sess[k])
                        /\ \A j \in Slots : j < k => ~Usable(sess[j])
                        /\ sess' = Created(k, httpd.world)
                  /\ cookies' = cookies + 1
             ELSE UNCHANGED <<sess, cookies>>
    /\ Reply
    /\ UNCHANGED <<l1, gate, auth, trust, window, net, app, ui,
                   seen>>

\* POST /logout.
Logout(cookie) ==
    /\ Listening
    /\ sess' = [k \in Slots |-> IF k \in Found(cookie) THEN Retired(sess[k])
                                ELSE sess[k]]
    /\ UNCHANGED <<l1, gate, auth, trust, window, cookies, net,
                   app, httpd, ui, seen>>

\* POST of a mutation: handleRun and WebRunMutationHandler::handle up to the
\* reservation.
Reserve(cookie, seq, content) ==
    /\ Listening /\ Enter /\ DomainFree
    /\ LET req == [Idle EXCEPT !.cookie = cookie, !.seq = seq,
                               !.content = content]
           first == IF content[1] = "run" THEN "prepare" ELSE "configure"
       IN  IF auth.state \notin Provisioned \/ Found(cookie) = {}
           THEN Reply /\ UNCHANGED sess
           ELSE \E k \in Found(cookie) :
                  LET r == Reservation(sess[k], seq, content)
                  IN  CASE r = "Reserved" ->
                             /\ sess' = [sess EXCEPT ![k].inFlight =
                                           [seq |-> seq, content |-> content]]
                             /\ httpd' = [req EXCEPT !.pc = first]
                        [] r = "ReplayOutcome" ->
                             /\ httpd' = [req EXCEPT !.pc = "answer",
                                           !.answer = Recorded(sess[k], seq)]
                             /\ UNCHANGED sess
                        [] OTHER -> Reply /\ UNCHANGED sess
    /\ UNCHANGED <<l1, gate, auth, trust, window, cookies, net,
                   app, ui, seen>>

\* The mutation is decided with this outcome, and with or without effect.
Decided(outcome, effect) ==
    /\ httpd' = [httpd EXCEPT !.pc = "complete", !.answer = outcome]
    /\ seen' = [seen EXCEPT !.fate = @ \cup
          {[cookie |-> httpd.cookie, seq |-> httpd.seq,
            content |-> httpd.content, effect |-> effect]}]

Undecided(pc) == httpd' = [httpd EXCEPT !.pc = pc] /\ UNCHANGED seen

MutationUnchanged ==
    UNCHANGED <<l1, gate, auth, trust, window, sess, cookies, net, ui>>

\* projectRequestStatus, projectCommandResult and projectConfigurationResult:
\* the code a status of the owner becomes.  What may have been written without
\* being adopted is unavailable, never a refusal.
RequestOutcome(status) ==
    CASE status = "StaleProgramCatalog" -> "Stale"
      [] status = "ProgramUnavailable" -> "Rejected"
      [] OTHER -> "Unavailable"

\* Mutant: an indeterminate write is reported as a failed one.
CommandOutcomeFailed(status) ==
    CASE status = "Applied" -> "Applied"
      [] status = "StaleState" -> "Stale"
      [] status \in {"WriteFailed", "PersistenceIndeterminate"} -> "WriteFailed"
      [] OTHER -> "Unavailable"

CommandOutcome(status) ==
    CASE status = "Applied" -> "Applied"
      [] status = "StaleState" -> "Stale"
      [] status = "WriteFailed" -> "WriteFailed"
      [] OTHER -> "Unavailable"

ConfigurationOutcome(status) ==
    CASE status = "Activated" -> "Applied"
      [] status = "StateChanged" -> "Stale"
      [] status = "NotAllowed" -> "Rejected"
      [] status = "PersistenceFailure" -> "WriteFailed"
      [] OTHER -> "Unavailable"

\* applyRunMutation enters the application three times.  prepareEnvelope
\* builds the request, or refuses an unknown program or an old catalog.
Prepare ==
    /\ httpd.pc = "prepare" /\ Enter
    /\ \/ Undecided("confirm")
       \/ \E status \in {"StaleProgramCatalog", "ProgramUnavailable"} :
             Decided(RequestOutcome(status), FALSE)
    /\ UNCHANGED app /\ MutationUnchanged

\* confirmPreparedInPlace: the evidence may have become worse meanwhile.
Confirm ==
    /\ httpd.pc = "confirm" /\ Enter
    /\ Undecided("apply") \/ Decided(RequestOutcome("Unavailable"), FALSE)
    /\ UNCHANGED app /\ MutationUnchanged

\* applyConfirmedPrepared: decided against the revision of this moment.  An
\* indeterminate write closes the command path.
Apply ==
    /\ httpd.pc = "apply" /\ Enter
    /\ \/ /\ app.blocked
          /\ Decided(CommandOutcome("ContextMissing"), FALSE) /\ UNCHANGED app
       \/ /\ ~app.blocked /\ httpd.content[2] # app.rev
          /\ Decided(CommandOutcome("StaleState"), FALSE) /\ UNCHANGED app
       \/ /\ ~app.blocked /\ httpd.content[2] = app.rev /\ app.rev < MaxRev
          /\ \/ /\ app' = [app EXCEPT !.rev = @ + 1, !.run = ~@]
                /\ Decided(CommandOutcome("Applied"), TRUE)
             \/ /\ Decided(CommandOutcome("WriteFailed"), FALSE)
                /\ UNCHANGED app
             \/ /\ \E effect \in BOOLEAN :
                      Decided(CommandOutcome("PersistenceIndeterminate"), effect)
                /\ app' = [app EXCEPT !.blocked = TRUE]
    /\ MutationUnchanged

\* applyWebConfigurationChange: refused while a run is active.
Configure ==
    /\ httpd.pc = "configure" /\ Enter
    /\ \/ /\ app.run
          /\ Decided(ConfigurationOutcome("NotAllowed"), FALSE)
          /\ UNCHANGED app
       \/ /\ ~app.run /\ httpd.content[2] # app.cfg
          /\ Decided(ConfigurationOutcome("StateChanged"), FALSE)
          /\ UNCHANGED app
       \/ /\ ~app.run /\ httpd.content[2] = app.cfg /\ app.cfg < MaxRev
          /\ \/ /\ app' = [app EXCEPT !.cfg = @ + 1]
                /\ Decided(ConfigurationOutcome("Activated"), TRUE)
             \/ /\ Decided(ConfigurationOutcome("PersistenceFailure"), FALSE)
                /\ UNCHANGED app
             \/ /\ \E effect \in BOOLEAN :
                      Decided(ConfigurationOutcome("CommitIndeterminate"), effect)
                /\ UNCHANGED app
    /\ MutationUnchanged

\* completeMutation finds the slot by its generation, active or not.
Complete ==
    /\ httpd.pc = "complete"
    /\ LET k == CHOOSE j \in Slots : sess[j].cookie = httpd.cookie
       IN  sess' = [sess EXCEPT ![k] = Completed(@, httpd.answer)]
    /\ httpd' = [httpd EXCEPT !.pc = "answer"]
    /\ UNCHANGED <<l1, gate, auth, trust, window, cookies, net,
                   app, ui, seen>>

\* POST /provision: provisionWebAccess up to the first write.
Provision(mode) ==
    /\ Listening /\ Enter /\ DomainFree /\ BoundaryLeft
    /\ LET req == [Idle EXCEPT !.generation = trust, !.world = seen.world]
       IN  \/ /\ auth.state # "Unprovisioned"
              /\ window' = FALSE
              /\ Reply /\ UNCHANGED gate
           \/ /\ auth.state = "Unprovisioned"
              /\ UNCHANGED window
              /\ IF window /\ ~gate.closed
                 THEN /\ httpd' = [req EXCEPT !.pc = "bootstrap",
                                              !.answer = mode,
                                              !.epoch = auth.epoch]
                      /\ Begin("httpd")
                 ELSE Reply /\ UNCHANGED gate
    /\ UNCHANGED <<l1, auth, trust, sess, cookies, net, app, ui,
                   seen>>

\* AuthenticationDomain::bootstrap outside the lock: provisioned, refused
\* before the first root write, or stopped after it.
Bootstrap ==
    /\ httpd.pc = "bootstrap"
    /\ End("httpd")
    /\ \/ /\ auth' = [auth EXCEPT !.state = httpd.answer]
          /\ httpd' = [httpd EXCEPT !.pc = "conclude"]
       \/ httpd' = [httpd EXCEPT !.pc = "abandon"] /\ UNCHANGED auth
       \/ /\ auth' = [auth EXCEPT !.state = "RecoveryRequired"]
          /\ httpd' = [httpd EXCEPT !.pc = "abandon"]
    /\ UNCHANGED <<l1, trust, window, sess, cookies, net, app, ui,
                   seen>>

\* The end of a failed provisioning: the window survives only while a
\* bootstrap is still allowed.
AbandonProvision ==
    /\ httpd.pc = "abandon" /\ Enter /\ DomainFree
    /\ window' = (window /\ auth.state = "Unprovisioned")
    /\ Reply
    /\ UNCHANGED <<l1, gate, auth, trust, sess, cookies, net, app,
                   ui, seen>>

\* The end of a successful one: reported only if no boundary came between.
ConcludeProvision ==
    /\ httpd.pc = "conclude" /\ Enter /\ DomainFree
    /\ IF httpd.generation = trust /\ auth.state = httpd.answer
       THEN CrossBoundary
       ELSE UNCHANGED <<trust, window, sess, seen>>
    /\ Reply
    /\ UNCHANGED <<l1, gate, auth, cookies, net, app, ui>>

-----------------------------------------------------------------------------
(* The main task: the network boundary.                                    *)

Free == ui = "idle" /\ Enter

\* applyNetworkMode with a network that starts.
ApplyNetworkMode(mode) ==
    /\ Free /\ (mode # net.mode => BoundaryLeft)
    /\ \E setup \in BOOLEAN :
          /\ setup => mode = "HOME_WIFI"
          /\ net' = [mode |-> mode, http |-> TRUE, setup |-> setup]
    /\ IF mode # net.mode THEN CrossBoundary
       ELSE UNCHANGED <<trust, window, sess, seen>>
    /\ UNCHANGED <<l1, gate, auth, cookies, app, httpd, ui>>

\* beginHomeWifiReconfiguration with a network that starts.
ReconfigureHomeWifi ==
    /\ Free /\ BoundaryLeft /\ net.mode = "HOME_WIFI"
    /\ net' = [net EXCEPT !.http = TRUE, !.setup = TRUE]
    /\ CrossBoundary
    /\ UNCHANGED <<l1, gate, auth, cookies, app, httpd, ui>>

\* Either of them when the network does not start: the network is stopped and
\* the HTTP server too, while the lock is held.
NetworkFails(mode) ==
    /\ Free
    /\ net' = [mode |-> mode, http |-> FALSE, setup |-> FALSE]
    /\ IF net.http THEN /\ ui' = "stopLocked"
                        /\ l1' = "ui"
       ELSE UNCHANGED <<ui, l1>>
    /\ UNCHANGED <<gate, auth, trust, window, sess, cookies, app,
                   httpd, seen>>

\* httpd_stop returns when the task has left its handler.
StoppedLocked ==
    /\ ui = "stopLocked" /\ httpd.pc = "idle"
    /\ ui' = "idle" /\ l1' = "none"
    /\ UNCHANGED <<gate, auth, trust, window, sess, cookies, net,
                   app, httpd, seen>>

\* The setup page has stored a credential that connects (NetworkSetup).
SetupCommitted ==
    /\ net.setup /\ net.http /\ httpd.pc = "idle"
    /\ net' = [net EXCEPT !.setup = FALSE]
    /\ UNCHANGED <<l1, gate, auth, trust, window, sess, cookies, app,
                   httpd, ui, seen>>

\* A start or stop of a run on the touch screen.
LocalCommand ==
    /\ Free /\ app.rev < MaxRev /\ ~app.blocked
    /\ app' = [app EXCEPT !.rev = @ + 1, !.run = ~@]
    /\ UNCHANGED <<l1, gate, auth, trust, window, sess, cookies,
                   net, httpd, ui, seen>>

-----------------------------------------------------------------------------
(* The main task: the local release.                                       *)

OpenWindow ==
    /\ Free /\ DomainFree
    /\ window' = (auth.state = "Unprovisioned")
    /\ UNCHANGED <<l1, gate, auth, trust, sess, cookies, net, app,
                   httpd, ui, seen>>

LapseWindow ==
    /\ window /\ window' = FALSE
    /\ UNCHANGED <<l1, gate, auth, trust, sess, cookies, net, app,
                   httpd, ui, seen>>

-----------------------------------------------------------------------------
(* The main task: the factory reset.                                       *)

\* updateFactoryResetHold when the press was held long enough: the conditions
\* are checked again, then beginAuthorizedFactoryReset closes the gate.
HoldComplete ==
    /\ Free /\ ~app.run /\ BoundaryLeft
    /\ ui' = "drain" /\ l1' = "ui"
    /\ gate' = [gate EXCEPT !.closed = TRUE]
    /\ UNCHANGED <<auth, trust, window, sess, cookies, net, app, httpd, seen>>

\* The drained gate.
Drained == ui = "drain" /\ gate.tokens = {}

\* The recovery core refuses before the irreversible boundary.
ResetRefused ==
    /\ Drained
    /\ gate' = [gate EXCEPT !.closed = FALSE]
    /\ ui' = "idle" /\ l1' = "none"
    /\ UNCHANGED <<auth, trust, window, sess, cookies, net, app, httpd,
                   seen>>

\* The epoch has advanced: sessions and domain end; with the run store handed
\* over the domain of the new epoch starts unprovisioned, otherwise the gate
\* stays closed.  The lock is given back before the network is stopped.
ResetCore ==
    /\ Drained
    /\ trust' = trust + (1 + 1)
    /\ window' = FALSE
    /\ sess' = RevokedAll
    /\ seen' = [seen EXCEPT !.world = @ + 1]
    /\ \/ /\ auth' = [state |-> "Unprovisioned", epoch |-> auth.epoch + 1]
          /\ gate' = [gate EXCEPT !.closed = FALSE]
       \/ /\ auth' = [state |-> "Indeterminate", epoch |-> auth.epoch + 1]
          /\ UNCHANGED gate
    /\ net' = [net EXCEPT !.http = FALSE]
    /\ ui' = "stop" /\ l1' = "none"
    /\ UNCHANGED <<cookies, app, httpd>>

\* Mutant: the server is stopped while the gate is still closed and the lock
\* is held again, as on the failure path of a network change.
FinishResetLocked ==
    /\ ui = "stop" /\ Enter /\ l1' = "ui"
    /\ UNCHANGED <<gate, auth, trust, window, sess, cookies, net, app, httpd,
                   ui, seen>>

\* endNetworkAfterFactoryReset has stopped the server outside the lock; the
\* network state of the old epoch is discarded and the outcome published.
FinishReset ==
    /\ ui = "stop" /\ httpd.pc = "idle" /\ Enter
    /\ net' = [net EXCEPT !.mode = "UNSELECTED", !.setup = FALSE]
    /\ ui' = "idle"
    /\ UNCHANGED <<l1, gate, auth, trust, window, sess, cookies, app,
                   httpd, seen>>

-----------------------------------------------------------------------------
Init ==
    /\ l1 = "none"
    /\ gate = [closed |-> FALSE, tokens |-> {}]
    /\ auth \in [state : {"Unprovisioned"} \cup Provisioned, epoch : {1}]
    /\ trust = 1
    /\ window = FALSE
    /\ sess = [k \in Slots |-> EmptySession]
    /\ cookies = 0
    /\ net \in [mode : Modes, http : {TRUE}, setup : {FALSE}]
    /\ app = [rev |-> 0, run |-> FALSE, blocked |-> FALSE, cfg |-> 0]
    /\ httpd = Idle
    /\ ui = "idle"
    /\ seen = [world |-> 0, fate |-> {}]

Request ==
    \/ Login
    \/ \E cookie \in 0..cookies : Shell(cookie)
    \/ \E mode \in Provisioned : Provision(mode)
    \/ \E cookie \in 1..cookies : Logout(cookie)
    \/ \E cookie \in 1..cookies, seq \in 1..MaxSeq, content \in Contents :
          Reserve(cookie, seq, content)

Handle ==
    \/ VerifyPassword \/ IssueSession
    \/ Prepare \/ Confirm \/ Apply \/ Configure \/ Complete \/ Bootstrap
    \/ AbandonProvision \/ ConcludeProvision \/ Answered

Press ==
    \/ \E mode \in Modes : ApplyNetworkMode(mode) \/ NetworkFails(mode)
    \/ ReconfigureHomeWifi \/ SetupCommitted \/ LocalCommand \/ OpenWindow \/ HoldComplete

Continue ==
    StoppedLocked \/ ResetRefused \/ ResetCore \/ FinishReset

Deadline == LapseWindow \/ \E k \in Slots : Lapse(k)

Next == Request \/ Handle \/ Press \/ Continue \/ Deadline

\* Both tasks run: an operation that can go on does.  Nobody owes a request,
\* a press or a deadline.
Spec == Init /\ [][Next]_vars /\ WF_vars(Handle) /\ WF_vars(Continue)

-----------------------------------------------------------------------------
(* Properties.                                                             *)

\* However often a browser repeats a mutation, whatever sequence it uses and
\* whatever expires or is revoked meanwhile, the mutation of a session and
\* sequence number is carried out at most once.
MutationOnce ==
    \A a, b \in seen.fate : a.cookie = b.cookie /\ a.seq = b.seq => a = b

\* An answer tells what really happened to the mutation that was asked for,
\* also when it is replayed from the memory of the session: applied means that
\* it took effect, a refusal that it did not.
AnswerTrue ==
    LET mine == {f \in seen.fate : /\ f.cookie = httpd.cookie
                                   /\ f.seq = httpd.seq
                                   /\ f.content = httpd.content}
    IN  /\ httpd.answer = "Applied" => \E f \in mine : f.effect
        /\ httpd.answer \in {"Stale", "Rejected", "WriteFailed"} =>
              \E f \in mine : ~f.effect

\* A session that is active was opened with a password (or without one) given
\* on this side of the last trust boundary: no login that was still deriving
\* its key carries over a network change, a provisioning or a reset.
SessionTrusted ==
    \A k \in Slots : sess[k].active => sess[k].world = seen.world

\* A reset that has begun comes to its end, whatever the browsers do: neither
\* the drain of the key derivations nor the stop of the server waits for ever.
ResetReturns == ui = "drain" ~> ui = "idle"

=============================================================================
