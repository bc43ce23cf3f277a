----------------------------- MODULE MCRunStore -----------------------------
(***************************************************************************)
(* RunStore on a small instance, with what an observer outside the device  *)
(* remembers of its runs.                                                  *)
(***************************************************************************)
EXTENDS RunStore

VARIABLES
  runs,     \* run id -> "Live", "Ending" (the end was tried) or "Ended"
  origins   \* <<run id, utc>>: a run's fermentation time was set to zero

mcvars == <<flash, boot, co, app, ram, op, clock, budget, runs, origins>>

MCInit == Init /\ runs = <<>> /\ origins = {}

Ids(r) == IF r = None \/ ~Active(r) THEN {} ELSE {r.id}

\* The runs an end is about: the published one, or the one just loaded.
Concerned == IF ram # None THEN Ids(ram)
             ELSE IF co.loaded = None THEN {} ELSE Ids(co.loaded.snapshot.run)

Status(id, old) ==
  CASE op # None /\ op' = None /\ ram' # None /\ ~Active(ram') /\ id \in Concerned ->
         "Ended"
    [] op = None /\ op' # None /\ ~Active(op'.after) /\ id \in Concerned -> "Ending"
    [] OTHER -> old

Observe ==
  /\ runs' = [id \in DOMAIN runs \cup Ids(ram') |->
                IF id \in DOMAIN runs THEN Status(id, runs[id]) ELSE "Live"]
  /\ origins' = origins \cup
       IF op = None /\ op' # None /\ op'.after.phase = "Fermenting"
          /\ op'.kind \in {"Command", "Transition"}
       THEN {<<op'.after.id, op'.record.utc>>} ELSE {}

MCNext == Next /\ Observe

\* A write ends, a device that lost power gets it back, and main.cpp calls
\* update() in every pass of its loop: all of it in the one main task.
MCSpec ==
  /\ MCInit /\ [][MCNext]_mcvars
  /\ WF_vars(WriteStep \/ BootLoad \/ ProcessBoot \/ Update \/ HandoffSlot
               \/ HandoffCommit \/ HandoffFinalize \/ HandoffConsume)

-----------------------------------------------------------------------------
(* Properties *)

\* A run whose end was never asked for is in flash after every step of every
\* write, whatever power loss follows and whichever one record is then lost:
\* no boot takes the store for empty.  It may be blocked, never forgotten.
RunNeverForgotten ==
  budget.lost <= 1 => \A id \in DOMAIN runs :
    runs[id] = "Live" /\ id[1] = boot.epoch /\ boot.handoff = "None"
      => Load(flash, boot.epoch).status \notin {"NoPersistedRun", "NoActiveRun"}

\* A run that was ended is never published, offered or loaded again, unless
\* more than one record was lost: a store whose records are all gone begins
\* its command identities anew.
EndedRunStaysEnded ==
  budget.lost <= 1 => \A id \in DOMAIN runs : runs[id] = "Ended" =>
    /\ ram # None => ram.id # id
    /\ app.fallback # None => app.fallback.id # id
    /\ LET load == Load(flash, boot.epoch)
       IN load.record # None => load.record.snapshot.run.id # id

\* A fermenting run has been given exactly the time that passed on the wall
\* since its phase began, over every restart in between, and a completed one
\* at least its duration.
FermentingTimeTrue ==
  ram # None =>
    /\ ram.phase = "Fermenting" =>
         LET prior == IF ram.prior = None THEN 0 ELSE ram.prior
         IN <<ram.id, clock.utc - (prior + clock.up - ram.entered)>> \in origins
    /\ ram.phase = "Completed" =>
         \E o \in origins : o[1] = ram.id /\ clock.utc - o[2] >= Duration

\* The same of a reset that finds the run store of the epoch before whole.
HandoffResumed ==
  (boot.handoff = "Pending" /\ PreviousStoreKnown(flash, boot.epoch)
     /\ ~budget.damage)
    ~> (boot.handoff = "None" \/ budget.damage)

=============================================================================
