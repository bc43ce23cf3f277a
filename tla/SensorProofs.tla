---------------------------- MODULE SensorProofs ----------------------------
(***************************************************************************)
(* The sensor selection and the chain from the buses to the qualified      *)
(* target, for every value of their constants.                             *)
(*                                                                         *)
(* Selection: what the last checkpoint holds can be resumed.  The property *)
(* looks at the checkpoint alone and is not inductive: the next checkpoint *)
(* is taken from the runtime state or from a decision that waited, perhaps *)
(* across an action of the user.  The invariant says of all three that     *)
(* mode, provenance and program agree, and, of the runtime state, that a   *)
(* phase which may return to the product sensor is entered on the product  *)
(* sensor or under a strategy that returns to it.                          *)
(*                                                                         *)
(* Chain: a reading's age is bounded by what is left of the cycle that     *)
(* publishes it, a recovery streak of a pipeline is part of a streak of    *)
(* good samples, and a credit was earned between two evaluations in the    *)
(* band.                                                                   *)
(***************************************************************************)
EXTENDS MCSensorSelection, MCSensorChain, FiniteSetTheorems, TLAPS

-----------------------------------------------------------------------------
(* The sensor selection *)

Runtimes ==
  [phase : Phases, perm : {"Allowed", "Blocked"}, wait : Nat \cup {None},
   entered : BOOLEAN, profile : ProfileRevisions \cup {None}, rearm : BOOLEAN]

\* A mode that neither its provenance nor the program contradicts.
Agree(m, o, p) ==
  /\ o = "FallbackActive" => m = "Air"
  /\ o = "ReturnedToProduct" => m = "Product"
  /\ p.preference = "ProductRequired" => m = "Product"
  /\ p.preference = "AirOnly" => m = "Air"

\* A phase that the mode and the program of the run can lead to.
Fits(r, m, p) ==
  /\ r.phase \in {"NormalProduct", "ProductFailureDetected",
                  "UserDecisionRequired"} => m = "Product"
  /\ r.phase = "ProductFailureDetected" =>
       p.policy = "FallbackToAirAfterTimeout"
  /\ r.phase = "ReturnValidationPending" =>
       p.strategy = "AutomaticValidatedReturnToProduct"

\* The selection a run can be controlled by.
Sensible(r, m, o, p) ==
  /\ r \in Runtimes /\ m \in Modes /\ o \in Provenances
  /\ Agree(m, o, p) /\ Fits(r, m, p)

Checkpoints ==
  [mode : Modes, origin : Provenances, revision : Nat, program : Programs]

Mutations ==
  [rt : Runtimes, mode : Modes, origin : Provenances, revision : Nat]

RunSensible ==
  /\ rt \in Runtimes
  /\ life \in {"Running", "Blocked", "Recovering"} =>
       program \in Programs /\ Sensible(rt, mode, origin, program)

DecisionSensible ==
  pending # None =>
    /\ life \in {"Running", "Blocked"} /\ pending \in Mutations
    /\ Sensible(pending.rt, pending.mode, pending.origin, program)

CheckpointSensible ==
  flash # None =>
    flash \in Checkpoints /\ Agree(flash.mode, flash.origin, flash.program)

SelectionInv ==
  /\ life \in {"NoRun", "Running", "Blocked", "Off", "Recovering"}
  /\ life = "Recovering" => flash # None /\ mode = flash.mode
  /\ revision \in Nat
  /\ RunSensible /\ DecisionSensible /\ CheckpointSensible

-----------------------------------------------------------------------------
(* Decisions.  A proposal is sound when the selection it leads to is        *)
(* sensible and a change in RAM only keeps the mode.                        *)

SoundProposal(p) ==
  /\ Sensible(p.rt, p.mode, OriginAfter(p.cause), program)
  /\ p.cause = None => p.mode = mode

\* What every decision starts from.
Deciding ==
  program \in Programs /\ Sensible(rt, mode, origin, program)

\* A fresh runtime state is one the automaton knows.
LEMMA RuntimeKnown ==
  ASSUME NEW begun \in Phases, NEW perm \in {"Allowed", "Blocked"}
  PROVE  /\ Runtime(begun, perm) \in Runtimes
         /\ Runtime(begun, perm).phase = begun
BY DEF Runtime, Runtimes

\* A cause that is no fallback and no return keeps the provenance.
LEMMA OriginKept ==
  /\ OriginAfter(None) = origin
  /\ \A c \in {"ProductFailureBlock", "RecoveryRevalidation", "SafeStateEntry",
               "ReturnValidationAborted"} : OriginAfter(c) = origin
BY SensorSelectionNone DEF OriginAfter, Causes

\* The runtime state stays in its mode and provenance.
LEMMA KeptSound ==
  ASSUME Deciding, NEW r \in Runtimes, Fits(r, mode, program),
         NEW c \in {None, "ProductFailureBlock", "RecoveryRevalidation",
                    "SafeStateEntry", "ReturnValidationAborted"}
  PROVE  SoundProposal(Proposal(r, mode, c))
<1>1. OriginAfter(c) = origin
  BY OriginKept
<1> QED
  BY <1>1 DEF SoundProposal, Proposal, Deciding, Sensible

\* Nothing changes.
LEMMA StaySound ==
  ASSUME Deciding
  PROVE  SoundProposal(Stay)
BY KeptSound DEF Stay, Deciding, Sensible

\* The safe state keeps the mode for the restart.
LEMMA SafeLockedSound ==
  ASSUME Deciding
  PROVE  SoundProposal(SafeLocked)
<1>1. /\ Runtime("SafeLocked", "Blocked") \in Runtimes
      /\ Runtime("SafeLocked", "Blocked").phase = "SafeLocked"
  BY RuntimeKnown DEF Phases
<1>2. Fits(Runtime("SafeLocked", "Blocked"), mode, program)
  BY <1>1 DEF Fits
<1> QED
  BY <1>1, <1>2, KeptSound DEF SafeLocked

\* Back to the product sensor: within the product mode, or under a program
\* that allows a return.
LEMMA BackToProductSound ==
  ASSUME Deciding,
         NEW c, \/ c = "RecoveryRevalidation" /\ mode = "Product"
                \/ /\ c \in {"AutomaticValidatedReturn", "ManualUserReturn"}
                   /\ program.preference # "AirOnly"
  PROVE  SoundProposal(BackToProduct(c))
<1> DEFINE r == Runtime("NormalProduct", "Allowed")
<1>1. r \in Runtimes /\ r.phase = "NormalProduct"
  BY RuntimeKnown DEF Phases
<1>2. Fits(r, "Product", program)
  BY <1>1 DEF Fits
<1>3. /\ OriginAfter(c) \in Provenances
      /\ Agree("Product", OriginAfter(c), program)
  <2>1. CASE c = "RecoveryRevalidation" /\ mode = "Product"
    BY <2>1, OriginKept DEF Deciding, Sensible
  <2>2. CASE /\ c \in {"AutomaticValidatedReturn", "ManualUserReturn"}
             /\ program.preference # "AirOnly"
    BY <2>2 DEF OriginAfter, Provenances, Agree
  <2> QED
    BY <2>1, <2>2
<1>4. c # None
  BY SensorSelectionNone DEF Causes
<1> HIDE DEF r
<1>5. BackToProduct(c) = [rt |-> r, mode |-> "Product", cause |-> c]
  BY DEF BackToProduct, Proposal, r
<1> QED
  BY <1>1, <1>2, <1>3, <1>4, <1>5 DEF SoundProposal, Sensible, Modes

\* Onto air: under a program that does not insist on the product sensor.
LEMMA OntoAirSound ==
  ASSUME Deciding, NEW c \in {"FallbackToAir", "ManualUserFallback"},
         program.preference # "ProductRequired"
  PROVE  SoundProposal(OntoAir(c))
<1> DEFINE r == Runtime("AirFallbackActive", "Allowed")
<1>1. r \in Runtimes /\ r.phase = "AirFallbackActive"
  BY RuntimeKnown DEF Phases
<1>2. Fits(r, "Air", program)
  BY <1>1 DEF Fits
<1>3. /\ OriginAfter(c) \in Provenances
      /\ Agree("Air", OriginAfter(c), program)
  BY DEF OriginAfter, Provenances, Agree
<1>4. c # None
  BY SensorSelectionNone DEF Causes
<1> HIDE DEF r
<1>5. OntoAir(c) = [rt |-> r, mode |-> "Air", cause |-> c]
  BY DEF OntoAir, Proposal, r
<1> QED
  BY <1>1, <1>2, <1>3, <1>4, <1>5 DEF SoundProposal, Sensible, Modes

\* A permission that is given or taken back changes nothing else.
LEMMA PermittedSound ==
  ASSUME Deciding, NEW perm \in {"Allowed", "Blocked"},
         NEW c \in {"ProductFailureBlock", "RecoveryRevalidation"}
  PROVE  SoundProposal(Permitted(perm, c))
<1> DEFINE r == [rt EXCEPT !.perm = perm]
<1>1. r \in Runtimes /\ r.phase = rt.phase
  BY DEF Deciding, Sensible, Runtimes
<1> HIDE DEF r
<1>2. Fits(r, mode, program)
  BY <1>1 DEF Deciding, Sensible, Fits
<1>3. Permitted(perm, c) = Proposal(r, mode, c)
  BY DEF Permitted, r
<1> QED
  BY <1>1, <1>2, <1>3, KeptSound

\* The current phase fits mode and program.
LEMMA PhaseFits ==
  ASSUME Deciding
  PROVE  /\ rt \in Runtimes /\ program \in Programs /\ mode \in Modes
         /\ rt.phase \in {"NormalProduct", "ProductFailureDetected",
                          "UserDecisionRequired"} => mode = "Product"
         /\ rt.phase = "ProductFailureDetected" =>
              program.policy = "FallbackToAirAfterTimeout"
         /\ rt.phase = "ReturnValidationPending" =>
              program.strategy = "AutomaticValidatedReturnToProduct"
BY DEF Deciding, Sensible, Fits

\* A program that returns by itself or by hand is not one for air only, and
\* one that falls back by itself does not insist on the product sensor.
LEMMA ProgramFits ==
  ASSUME NEW p \in Programs
  PROVE  /\ p.strategy # "RemainOnAirUntilEnd" => p.preference # "AirOnly"
         /\ p.policy = "FallbackToAirAfterTimeout" =>
              p.preference # "ProductRequired"
         /\ p.policy \in Policies
BY DEF Programs

\* The product sensor leads (evaluateNormalProduct).
LEMMA NormalProductSound ==
  ASSUME Deciding, rt.phase = "NormalProduct"
  PROVE  SoundProposal(EvaluateNormalProduct)
<1> DEFINE ask == Runtime("UserDecisionRequired", "Blocked")
           lost == [Runtime("ProductFailureDetected", "Blocked")
                      EXCEPT !.wait = 0]
<1>1. mode = "Product" /\ program.policy \in Policies
  BY PhaseFits, ProgramFits
<1>2. SoundProposal(Proposal(ask, mode, "ProductFailureBlock"))
  <2>1. ask \in Runtimes /\ ask.phase = "UserDecisionRequired"
    BY RuntimeKnown DEF Phases
  <2>2. Fits(ask, mode, program)
    BY <1>1, <2>1 DEF Fits
  <2> QED
    BY <2>1, <2>2, KeptSound
<1>3. program.policy = "FallbackToAirAfterTimeout" =>
        SoundProposal(Proposal(lost, mode, "ProductFailureBlock"))
  <2>1. lost \in Runtimes /\ lost.phase = "ProductFailureDetected"
    BY DEF Runtime, Runtimes, Phases
  <2>2. program.policy = "FallbackToAirAfterTimeout" =>
          Fits(lost, mode, program)
    BY <1>1, <2>1 DEF Fits
  <2> QED
    BY <2>1, <2>2, KeptSound
<1> HIDE DEF ask, lost
<1>4. /\ SoundProposal(SafeLocked) /\ SoundProposal(Stay)
      /\ SoundProposal(Permitted("Blocked", "ProductFailureBlock"))
      /\ SoundProposal(Permitted("Allowed", "RecoveryRevalidation"))
  BY SafeLockedSound, StaySound, PermittedSound
<1> QED
  BY <1>1, <1>2, <1>3, <1>4 DEF EvaluateNormalProduct, Policies, ask, lost

\* The air sensor leads (evaluateNormalAir).
LEMMA NormalAirSound ==
  ASSUME Deciding
  PROVE  SoundProposal(EvaluateNormalAir)
BY StaySound, PermittedSound DEF EvaluateNormalAir

\* The product sensor is lost and the delay runs
\* (evaluateProductFailureDetected).
LEMMA ProductFailureSound ==
  ASSUME Deciding, rt.phase = "ProductFailureDetected"
  PROVE  SoundProposal(EvaluateProductFailureDetected)
<1>1. mode = "Product" /\ program.preference # "ProductRequired"
  BY PhaseFits, ProgramFits
<1>2. /\ SoundProposal(SafeLocked) /\ SoundProposal(Stay)
      /\ SoundProposal(BackToProduct("RecoveryRevalidation"))
      /\ SoundProposal(OntoAir("FallbackToAir"))
  BY <1>1, SafeLockedSound, StaySound, BackToProductSound, OntoAirSound
<1> QED
  BY <1>2 DEF EvaluateProductFailureDetected

\* The product sensor is lost and the user decides
\* (evaluateUserDecisionRequired).
LEMMA UserDecisionSound ==
  ASSUME Deciding, rt.phase = "UserDecisionRequired"
  PROVE  SoundProposal(EvaluateUserDecisionRequired)
<1>1. mode = "Product"
  BY PhaseFits
<1>2. /\ SoundProposal(SafeLocked) /\ SoundProposal(Stay)
      /\ SoundProposal(BackToProduct("RecoveryRevalidation"))
  BY <1>1, SafeLockedSound, StaySound, BackToProductSound
<1> QED
  BY <1>2 DEF EvaluateUserDecisionRequired

\* A validation is opened only under the strategy that returns by itself.
LEMMA ReturnValidationSound ==
  ASSUME Deciding, NEW profile \in ProfileRevisions, NEW rearm \in BOOLEAN,
         program.strategy = "AutomaticValidatedReturnToProduct"
  PROVE  /\ SoundProposal(ReturnValidation(profile))
         /\ SoundProposal([ReturnValidation(profile) EXCEPT !.rt.rearm = rearm])
<1> DEFINE r == [Runtime("ReturnValidationPending", rt.perm) EXCEPT
                   !.entered = TRUE, !.profile = profile]
           q == [r EXCEPT !.rearm = rearm]
<1>1. rt.perm \in {"Allowed", "Blocked"}
  BY PhaseFits DEF Runtimes
<1>2. /\ r \in Runtimes /\ r.phase = "ReturnValidationPending"
      /\ q \in Runtimes /\ q.phase = "ReturnValidationPending"
  BY <1>1 DEF Runtime, Runtimes, Phases
<1>3. ReturnValidation(profile) = Proposal(r, mode, None)
  BY DEF ReturnValidation
<1>4. [ReturnValidation(profile) EXCEPT !.rt.rearm = rearm] =
        Proposal(q, mode, None)
  BY <1>3 DEF Proposal
<1> HIDE DEF r, q
<1>5. Fits(r, mode, program) /\ Fits(q, mode, program)
  BY <1>2 DEF Fits
<1> QED
  BY <1>2, <1>3, <1>4, <1>5, KeptSound

\* On air as a substitute (evaluateAirFallbackActive).
LEMMA AirFallbackSound ==
  ASSUME Deciding, rt.phase = "AirFallbackActive",
         NEW thermal \in Thermal, NEW profile \in ProfileRevisions
  PROVE  SoundProposal(EvaluateAirFallbackActive(thermal, profile))
<1> DEFINE r == [rt EXCEPT !.rearm = TRUE]
<1>1. r \in Runtimes /\ r.phase = "AirFallbackActive"
  BY PhaseFits DEF Runtimes
<1> HIDE DEF r
<1>2. Fits(r, mode, program)
  BY <1>1 DEF Fits
<1>3. SoundProposal(Proposal(r, mode, None))
  BY <1>1, <1>2, KeptSound
<1>4. SoundProposal(SafeLocked) /\ SoundProposal(Stay)
  BY SafeLockedSound, StaySound
<1>5. program.strategy = "AutomaticValidatedReturnToProduct" =>
        SoundProposal(ReturnValidation(profile))
  BY ReturnValidationSound
<1> QED
  BY <1>3, <1>4, <1>5 DEF EvaluateAirFallbackActive, r

\* The way back is being validated (evaluateReturnValidationPending).
LEMMA ReturnPendingSound ==
  ASSUME Deciding, rt.phase = "ReturnValidationPending", NEW thermal \in Thermal
  PROVE  SoundProposal(EvaluateReturnValidationPending(thermal))
<1> DEFINE r == [Runtime("AirFallbackActive", rt.perm) EXCEPT
                   !.profile = rt.profile, !.rearm = ~valid["product"]]
<1>1. rt.perm \in {"Allowed", "Blocked"}
      /\ rt.profile \in ProfileRevisions \cup {None}
  BY PhaseFits DEF Runtimes
<1>2. r \in Runtimes /\ r.phase = "AirFallbackActive"
  <2>1. (~valid["product"]) \in BOOLEAN
    OBVIOUS
  <2> QED
    BY <1>1, <2>1 DEF Runtime, Runtimes, Phases
<1> HIDE DEF r
<1>3. Fits(r, mode, program)
  BY <1>2 DEF Fits
<1>4. SoundProposal(Proposal(r, mode, "ReturnValidationAborted"))
  BY <1>2, <1>3, KeptSound
<1>5. SoundProposal(BackToProduct("AutomaticValidatedReturn"))
  BY PhaseFits, ProgramFits, BackToProductSound
<1>6. SoundProposal(SafeLocked) /\ SoundProposal(Stay)
  BY SafeLockedSound, StaySound
<1> QED
  BY <1>4, <1>5, <1>6 DEF EvaluateReturnValidationPending, r

\* A control cycle decides soundly in every phase.
LEMMA EvaluatedSound ==
  ASSUME Deciding, NEW thermal \in Thermal, NEW profile \in ProfileRevisions
  PROVE  SoundProposal(Evaluated(thermal, profile))
BY NormalProductSound, NormalAirSound, ProductFailureSound, UserDecisionSound,
   AirFallbackSound, ReturnPendingSound, StaySound DEF Evaluated

\* So does the user.
LEMMA UserEvaluatedSound ==
  ASSUME Deciding, NEW action \in Actions, NEW thermal \in Thermal,
         NEW profile \in ProfileRevisions
  PROVE  SoundProposal(UserEvaluated(action, thermal, profile))
<1>1. /\ SoundProposal(SafeLocked) /\ SoundProposal(Stay)
      /\ SoundProposal(ContinueWithAir)
  BY SafeLockedSound, StaySound, OntoAirSound DEF ContinueWithAir
<1>2. rt.phase \in {"ProductFailureDetected", "UserDecisionRequired"} =>
        SoundProposal(BackToProduct("RecoveryRevalidation"))
  BY PhaseFits, BackToProductSound
<1>3. program.strategy = "ManualReturnToProduct" =>
        SoundProposal(BackToProduct("ManualUserReturn"))
  BY PhaseFits, ProgramFits, BackToProductSound
<1>4. SoundProposal(RecheckOnAir(thermal, profile))
  <2>1. rt.rearm \in BOOLEAN
    BY PhaseFits DEF Runtimes
  <2>2. program.strategy = "AutomaticValidatedReturnToProduct" =>
          /\ SoundProposal(BackToProduct("AutomaticValidatedReturn"))
          /\ SoundProposal([ReturnValidation(profile)
                              EXCEPT !.rt.rearm = rt.rearm])
    BY <2>1, PhaseFits, ProgramFits, BackToProductSound, ReturnValidationSound
  <2> QED
    BY <1>1, <2>2 DEF RecheckOnAir
<1> QED
  BY <1>1, <1>2, <1>3, <1>4 DEF UserEvaluated

-----------------------------------------------------------------------------
(* The steps.                                                              *)

\* A run that is decided on can decide.
LEMMA RunDecides ==
  ASSUME SelectionInv, life \in {"Running", "Blocked"}
  PROVE  Deciding
BY DEF SelectionInv, RunSensible, Deciding

\* What is written of a sound proposal can be resumed.
LEMMA MutationKnown ==
  ASSUME SelectionInv, Deciding, NEW p, SoundProposal(p)
  PROVE  /\ Mutation(p) \in Mutations
         /\ Sensible(Mutation(p).rt, Mutation(p).mode, Mutation(p).origin,
                     program)
BY DEF SelectionInv, SoundProposal, Sensible, Mutation, Mutations

\* A control cycle decides.
LEMMA DecideKept ==
  ASSUME SelectionInv, NEW t \in Thermal, NEW f \in ProfileRevisions,
         Decide(t, f)
  PROVE  SelectionInv'
<1> PICK p : p = Evaluated(t, f)
  OBVIOUS
<1>1. /\ life \in {"Running", "Blocked"}
      /\ IF p.cause = None THEN rt' = p.rt /\ UNCHANGED pending
         ELSE pending' = Mutation(p) /\ UNCHANGED rt
      /\ UNCHANGED <<valid, program, life, mode, origin, revision, flash,
                     trouble>>
  BY DEF Decide
<1>2. Deciding /\ SoundProposal(p)
  BY <1>1, RunDecides, EvaluatedSound
<1>3. CASE p.cause = None
  <2>1. Sensible(p.rt, mode, origin, program)
    BY <1>2, <1>3, OriginKept DEF SoundProposal
  <2>2. rt' = p.rt /\ pending' = pending
    BY <1>1, <1>3
  <2>3. RunSensible'
    BY <1>1, <1>2, <2>1, <2>2 DEF RunSensible, Deciding, Sensible, Agree, Fits
  <2> QED
    BY <1>1, <2>2, <2>3
    DEF SelectionInv, DecisionSensible, CheckpointSensible, Sensible, Agree,
        Fits
<1>4. CASE p.cause # None
  <2>1. pending' = Mutation(p) /\ rt' = rt
    BY <1>1, <1>4
  <2>2. /\ pending' \in Mutations
        /\ Sensible(pending'.rt, pending'.mode, pending'.origin, program)
    BY <1>2, <2>1, MutationKnown
  <2>3. DecisionSensible'
    BY <1>1, <2>2 DEF DecisionSensible, Sensible, Agree, Fits
  <2> QED
    BY <1>1, <2>1, <2>3
    DEF SelectionInv, RunSensible, CheckpointSensible, Sensible, Agree,
        Fits
<1> QED
  BY <1>3, <1>4

\* Whatever becomes of a write, checkpoint and runtime state stay sensible.
LEMMA WrittenKept ==
  ASSUME SelectionInv, life = "Running", NEW m \in Mutations,
         Sensible(m.rt, m.mode, m.origin, program),
         Written(m), UNCHANGED program
  PROVE  /\ life' \in {"Running", "Blocked"} /\ revision' \in Nat
         /\ RunSensible' /\ CheckpointSensible'
<1>1. Deciding
  BY RunDecides
<1>2. /\ Stored(m) \in Checkpoints
      /\ Agree(Stored(m).mode, Stored(m).origin, Stored(m).program)
  BY <1>1 DEF Stored, Checkpoints, Mutations, Deciding, Sensible
<1>3. flash' \in {flash, Stored(m)} /\ life' \in {"Running", "Blocked"}
  BY DEF Written
<1>4. CheckpointSensible'
  BY <1>2, <1>3 DEF SelectionInv, CheckpointSensible, Agree
<1>5. \/ rt' = m.rt /\ mode' = m.mode /\ origin' = m.origin
         /\ revision' = m.revision
      \/ rt' = rt /\ mode' = mode /\ origin' = origin /\ revision' = revision
  BY DEF Written, Apply
<1>6. Sensible(rt', mode', origin', program) /\ revision' \in Nat
  BY <1>1, <1>5 DEF Deciding, Mutations, SelectionInv
<1>7. RunSensible'
  BY <1>1, <1>6 DEF RunSensible, Deciding, Sensible, Agree, Fits
<1> QED
  BY <1>3, <1>4, <1>6, <1>7

\* A decision is written, or dropped.
LEMMA PersistKept ==
  ASSUME SelectionInv, Persist
  PROVE  SelectionInv'
<1>1. /\ pending # None /\ pending' = None /\ UNCHANGED <<valid, program>>
      /\ IF life = "Running" /\ Fresh(pending) THEN Written(pending)
         ELSE UNCHANGED <<flash, rt, mode, origin, revision, life, trouble>>
  BY DEF Persist
<1>2. /\ pending \in Mutations
      /\ Sensible(pending.rt, pending.mode, pending.origin, program)
  BY <1>1 DEF SelectionInv, DecisionSensible
<1>3. CASE life = "Running" /\ Fresh(pending)
  <2>1. Written(pending) /\ UNCHANGED program
    BY <1>1, <1>3
  <2>2. /\ life' \in {"Running", "Blocked"} /\ revision' \in Nat
        /\ RunSensible' /\ CheckpointSensible'
    BY <1>2, <1>3, <2>1, WrittenKept
  <2> QED
    BY <1>1, <2>2 DEF SelectionInv, DecisionSensible
<1>4. CASE ~(life = "Running" /\ Fresh(pending))
  <2>1. UNCHANGED <<program, flash, rt, mode, origin, revision, life>>
    BY <1>1, <1>4
  <2> QED
    BY <1>1, <2>1
    DEF SelectionInv, DecisionSensible, RunSensible, CheckpointSensible,
        Sensible, Agree, Fits
<1> QED
  BY <1>3, <1>4

\* The user decides, perhaps while a decision waits.
LEMMA UserActKept ==
  ASSUME SelectionInv, NEW a \in Actions, NEW t \in Thermal,
         NEW f \in ProfileRevisions, UserAct(a, t, f)
  PROVE  SelectionInv'
<1> PICK p : p = UserEvaluated(a, t, f)
  OBVIOUS
<1>0. PICK m : m = IF p.cause = None
                   THEN [Mutation(p) EXCEPT !.revision = revision,
                                            !.origin = origin]
                   ELSE Mutation(p)
  OBVIOUS
<1>1. life = "Running" /\ Written(m) /\ UNCHANGED <<valid, program, pending>>
  BY <1>0 DEF UserAct
<1>2. Deciding /\ SoundProposal(p)
  BY <1>1, RunDecides, UserEvaluatedSound
<1>3. m \in Mutations /\ Sensible(m.rt, m.mode, m.origin, program)
  <2>1. CASE p.cause = None
    <3>1. m = [rt |-> p.rt, mode |-> p.mode, origin |-> origin,
               revision |-> revision]
      BY <1>0, <2>1 DEF Mutation
    <3>2. Sensible(p.rt, p.mode, origin, program)
      BY <1>2, <2>1, OriginKept DEF SoundProposal
    <3>3. /\ m.rt = p.rt /\ m.mode = p.mode /\ m.origin = origin
          /\ m.revision = revision
      BY <3>1
    <3>4. p.rt \in Runtimes /\ p.mode \in Modes /\ origin \in Provenances
      BY <3>2 DEF Sensible
    <3>5. m \in Mutations
      BY <3>1, <3>4 DEF Mutations, SelectionInv
    <3> QED
      BY <3>2, <3>3, <3>5
  <2>2. CASE p.cause # None
    BY <1>0, <1>2, <2>2, MutationKnown
  <2> QED
    BY <2>1, <2>2
<1>4. /\ life' \in {"Running", "Blocked"} /\ revision' \in Nat
      /\ RunSensible' /\ CheckpointSensible'
  BY <1>1, <1>3, WrittenKept
<1>5. DecisionSensible'
  BY <1>1, <1>4
  DEF SelectionInv, DecisionSensible, Sensible, Agree, Fits
<1> QED
  BY <1>4, <1>5 DEF SelectionInv

\* A run starts in a mode its program allows.
LEMMA StartKept ==
  ASSUME SelectionInv, NEW p \in Programs, NEW requested \in Modes,
         Start(p, requested)
  PROVE  SelectionInv'
<1> PICK m : m = StartMode(p, requested)
  OBVIOUS
<1> PICK substituted \in BOOLEAN :
           substituted <=> (m = "Air" /\ requested = "Product")
  OBVIOUS
<1> DEFINE begun == CASE m = "Product" -> "NormalProduct"
                      [] substituted -> "AirFallbackActive"
                      [] OTHER -> "NormalAir"
           from == IF substituted THEN "FallbackActive" ELSE "InitialSelection"
<1>1. /\ life = "NoRun" /\ m # None
      /\ life' = "Running" /\ program' = p
      /\ rt' = Runtime(begun, "Allowed") /\ mode' = m /\ origin' = from
      /\ revision' = revision + 1
      /\ flash' = [mode |-> m, origin |-> from, revision |-> revision + 1,
                   program |-> p]
      /\ UNCHANGED <<valid, pending, trouble>>
  BY DEF Start
<1>2. /\ m \in Modes
      /\ p.preference = "ProductRequired" => m = "Product"
      /\ p.preference = "AirOnly" => m = "Air"
  BY <1>1 DEF StartMode, Modes
<1>3. begun \in {"NormalProduct", "AirFallbackActive", "NormalAir"}
      /\ (begun = "NormalProduct" => m = "Product")
  OBVIOUS
<1>4. from \in Provenances /\ Agree(m, from, p)
  BY <1>2 DEF Provenances, Agree
<1> HIDE DEF begun, from
<1>5. rt' \in Runtimes /\ rt'.phase = begun
  BY <1>1, <1>3, RuntimeKnown DEF Phases
<1>6. Fits(rt', m, p)
  BY <1>3, <1>5 DEF Fits
<1>7. revision' \in Nat /\ flash' \in Checkpoints
      /\ Agree(flash'.mode, flash'.origin, flash'.program)
  BY <1>1, <1>2, <1>4 DEF SelectionInv, Checkpoints
<1>8. pending' = None
  BY <1>1 DEF SelectionInv, DecisionSensible
<1>9. RunSensible'
  BY <1>1, <1>2, <1>4, <1>5, <1>6 DEF RunSensible, Sensible, Agree, Fits
<1> QED
  BY <1>1, <1>7, <1>8, <1>9
  DEF SelectionInv, DecisionSensible, CheckpointSensible, Agree

\* Without a run there is nothing to keep.
LEMMA NoRunKept ==
  ASSUME SelectionInv, life \in {"Running", "Recovering"}, pending = None,
         NoRun, UNCHANGED revision
  PROVE  SelectionInv'
<1>1. /\ life' = "NoRun" /\ rt' = Idle /\ flash' = None /\ pending' = None
      /\ revision' = revision
  BY DEF NoRun
<1>2. Idle \in Runtimes
  BY RuntimeKnown DEF Idle, Phases
<1> QED
  BY <1>1, <1>2
  DEF SelectionInv, RunSensible, DecisionSensible, CheckpointSensible

\* The power goes: the checkpoint stays.
LEMMA PowerLossKept ==
  ASSUME SelectionInv, PowerLoss
  PROVE  SelectionInv'
<1>1. /\ life' = "Off" /\ rt' = Idle /\ flash' = flash /\ pending' = None
      /\ revision' = revision
  BY DEF PowerLoss
<1>2. Idle \in Runtimes
  BY RuntimeKnown DEF Idle, Phases
<1> QED
  BY <1>1, <1>2
  DEF SelectionInv, RunSensible, DecisionSensible, CheckpointSensible, Agree

\* The run is taken from the checkpoint.
LEMMA BootKept ==
  ASSUME SelectionInv, Boot
  PROVE  SelectionInv'
<1>1. life = "Off" /\ UNCHANGED <<valid, pending, flash, trouble>>
  BY DEF Boot
<1>2. pending' = None
  BY <1>1 DEF SelectionInv, DecisionSensible
<1>3. CASE flash = None
  <2>1. life' = "NoRun" /\ UNCHANGED <<rt, mode, origin, program, revision>>
    BY <1>3 DEF Boot
  <2> QED
    BY <1>1, <1>2, <1>3, <2>1
    DEF SelectionInv, RunSensible, DecisionSensible, CheckpointSensible
<1>4. CASE flash # None
  <2>1. /\ life' = "Recovering"
        /\ rt' = Runtime("RestartRevalidationPending", "Blocked")
        /\ mode' = flash.mode /\ origin' = flash.origin
        /\ program' = flash.program /\ revision' = flash.revision
    BY <1>4 DEF Boot
  <2>2. /\ flash \in Checkpoints
        /\ Agree(flash.mode, flash.origin, flash.program)
    BY <1>4 DEF SelectionInv, CheckpointSensible
  <2>3. rt' \in Runtimes /\ rt'.phase = "RestartRevalidationPending"
    BY <2>1, RuntimeKnown DEF Phases
  <2>4. RunSensible'
    BY <2>1, <2>2, <2>3
    DEF RunSensible, Sensible, Agree, Fits, Checkpoints
  <2> QED
    BY <1>1, <1>2, <1>4, <2>1, <2>2, <2>4
    DEF SelectionInv, DecisionSensible, CheckpointSensible, Checkpoints, Agree
<1> QED
  BY <1>3, <1>4

\* The run is resumed, or over.
LEMMA RecoverKept ==
  ASSUME SelectionInv, Recover
  PROVE  SelectionInv'
<1>1. life = "Recovering" /\ UNCHANGED <<valid, revision, trouble>>
  BY DEF Recover
<1>2. pending = None /\ flash # None /\ mode = flash.mode /\ Deciding
  BY <1>1 DEF SelectionInv, DecisionSensible, RunSensible, Deciding
<1>3. CASE RestartAllowed(flash, valid)
  <2>1. /\ life' = "Running" /\ rt' = Runtime(RestartPhase(flash), "Allowed")
        /\ UNCHANGED <<mode, origin, flash, program, pending>>
    BY <1>3 DEF Recover
  <2>2. /\ RestartPhase(flash) \in {"NormalProduct", "AirFallbackActive",
                                    "NormalAir"}
        /\ RestartPhase(flash) = "NormalProduct" => mode = "Product"
    BY <1>2 DEF RestartPhase
  <2>3. rt' \in Runtimes /\ rt'.phase = RestartPhase(flash)
    BY <2>1, <2>2, RuntimeKnown DEF Phases
  <2>4. RunSensible'
    BY <1>2, <2>1, <2>2, <2>3
    DEF RunSensible, Deciding, Sensible, Agree, Fits
  <2> QED
    BY <1>1, <1>2, <2>1, <2>4
    DEF SelectionInv, DecisionSensible, CheckpointSensible, Agree
<1>4. CASE ~RestartAllowed(flash, valid)
  <2>1. NoRun
    BY <1>4 DEF Recover
  <2> QED
    BY <1>1, <1>2, <2>1, NoRunKept
<1> QED
  BY <1>3, <1>4

\* The delay runs.
LEMMA TickKept ==
  ASSUME SelectionInv, Tick
  PROVE  SelectionInv'
<1>1. /\ rt.wait # None /\ rt' = [rt EXCEPT !.wait = @ + 1]
      /\ pending' = IF pending = None \/ pending.rt.wait = None THEN pending
                    ELSE [pending EXCEPT !.rt.wait =
                            IF @ < FallbackDelay THEN @ + 1 ELSE @]
      /\ UNCHANGED <<valid, program, life, mode, origin, revision, flash,
                     trouble>>
  BY DEF Tick
<1>2. rt' \in Runtimes /\ rt'.phase = rt.phase
  BY <1>1 DEF SelectionInv, RunSensible, Runtimes
<1>3. RunSensible'
  BY <1>1, <1>2 DEF SelectionInv, RunSensible, Sensible, Agree, Fits
<1>4. DecisionSensible'
  <2>1. CASE pending = None \/ pending.rt.wait = None
    BY <1>1, <2>1 DEF SelectionInv, DecisionSensible, Sensible, Agree, Fits
  <2>2. CASE pending # None /\ pending.rt.wait # None
    <3> DEFINE w == IF pending.rt.wait < FallbackDelay
                    THEN pending.rt.wait + 1 ELSE pending.rt.wait
               r == [pending.rt EXCEPT !.wait = w]
    <3>1. /\ life \in {"Running", "Blocked"} /\ pending \in Mutations
          /\ Sensible(pending.rt, pending.mode, pending.origin, program)
      BY <2>2 DEF SelectionInv, DecisionSensible
    <3>2. pending.rt \in Runtimes /\ pending.rt.wait \in Nat
      BY <2>2, <3>1 DEF Sensible, Runtimes
    <3>3. w \in Nat
      BY <3>2
    <3>4. pending' = [pending EXCEPT !.rt = r]
      BY <1>1, <2>2, <3>1
    <3> HIDE DEF w
    <3>5. r \in Runtimes /\ r.phase = pending.rt.phase
      BY <3>2, <3>3 DEF Runtimes
    <3> HIDE DEF r
    <3>6. /\ pending' \in Mutations /\ pending'.rt = r
          /\ pending'.mode = pending.mode /\ pending'.origin = pending.origin
      BY <3>1, <3>4, <3>5 DEF Mutations
    <3> QED
      BY <1>1, <3>1, <3>5, <3>6 DEF DecisionSensible, Sensible, Agree, Fits
  <2> QED
    BY <2>1, <2>2
<1> QED
  BY <1>1, <1>3, <1>4 DEF SelectionInv, CheckpointSensible, Agree

\* A sensor that comes or goes touches none of the three.
LEMMA UnchangedKept ==
  ASSUME SelectionInv,
         UNCHANGED <<program, life, rt, mode, origin, revision, pending, flash>>
  PROVE  SelectionInv'
BY DEF SelectionInv, RunSensible, DecisionSensible, CheckpointSensible,
       Sensible, Agree, Fits

-----------------------------------------------------------------------------

\* The inductive invariant: mode, provenance, program and phase agree in the
\* runtime state, in the decision that waits and in the checkpoint.
THEOREM SelectionInvariant == Spec => []SelectionInv
<1>1. Init => SelectionInv
  <2> SUFFICES ASSUME Init
               PROVE  SelectionInv
    OBVIOUS
  <2>1. Idle \in Runtimes
    BY RuntimeKnown DEF Idle, Phases
  <2> QED
    BY <2>1 DEF Init, SelectionInv, RunSensible, DecisionSensible,
                CheckpointSensible
<1>2. SelectionInv /\ [Next]_vars => SelectionInv'
  <2> SUFFICES ASSUME SelectionInv, [Next]_vars
               PROVE  SelectionInv'
    OBVIOUS
  <2>1. CASE \E t \in Thermal, p \in ProfileRevisions : Decide(t, p)
    BY <2>1, DecideKept
  <2>2. CASE Persist
    BY <2>2, PersistKept
  <2>3. CASE \E a \in Actions, t \in Thermal, p \in ProfileRevisions :
               UserAct(a, t, p)
    BY <2>3, UserActKept
  <2>4. CASE \E p \in Programs, m \in Modes : Start(p, m)
    BY <2>4, StartKept
  <2>5. CASE End
    <3>1. life = "Running" /\ pending = None /\ NoRun /\ UNCHANGED revision
      BY <2>5 DEF End
    <3> QED
      BY <3>1, NoRunKept
  <2>6. CASE PowerLoss
    BY <2>6, PowerLossKept
  <2>7. CASE Boot
    BY <2>7, BootKept
  <2>8. CASE Recover
    BY <2>8, RecoverKept
  <2>9. CASE SensorChanges
    BY <2>9, UnchangedKept DEF SensorChanges
  <2>10. CASE Tick
    BY <2>10, TickKept
  <2>11. CASE UNCHANGED vars
    BY <2>11, UnchangedKept DEF vars
  <2> QED
    BY <2>1, <2>2, <2>3, <2>4, <2>5, <2>6, <2>7, <2>8, <2>9, <2>10, <2>11
    DEF Next
<1> QED
  BY <1>1, <1>2, PTL DEF Spec

\* No sequence of fallbacks, returns, failed writes and power losses stores a
\* mode its own provenance or program contradicts: what the checkpoint holds
\* can be resumed once every sensor is usable (computeRestartSensorSelection).
THEOREM SelectionRestartResumable == Spec => []RestartResumable
<1>1. SelectionInv => RestartResumable
  BY DEF SelectionInv, CheckpointSensible, Agree, RestartResumable,
         RestartAllowed, Roles
<1> QED
  BY <1>1, SelectionInvariant, PTL

-----------------------------------------------------------------------------
(* The sampling cycle *)

\* The longest way from the begin of a cycle to when the next one is due
Longest == MaxOf(CyclePeriod, ConversionWait + LateMax)

EngineType ==
  /\ plugged \subseteq Probes /\ temp \in Temps
  /\ phase \in {"Idle", "Waiting"} /\ cycleIn \in Int /\ readIn \in Int
  /\ plan \in [Channels -> Roms \cup {Nothing}]
  /\ lastSeen \in Roms \cup {Nothing}
  /\ readings \in [Channels -> ReadingValues]

\* What is published as good names its ROM.
Named == \A ch \in Channels : readings[ch].ok => readings[ch].rom # Nothing

\* A cycle that waits publishes what it has planned when it reads; what it
\* has not planned was published when it began.
Timed ==
  /\ -LateMax <= cycleIn
  /\ phase = "Idle" =>
       \A ch \in Channels : readings[ch].age + cycleIn <= Longest
  /\ phase = "Waiting" =>
       /\ -LateMax <= readIn
       /\ cycleIn > 0 => cycleIn + ConversionWait - readIn <= CyclePeriod
       /\ \A ch \in Channels :
            readings[ch].age + readIn <=
              ConversionWait
                + IF plan[ch] = Nothing THEN 0 ELSE Longest + LateMax

Sampling == EngineType /\ Named /\ Timed

\* What the constants of the cycle say about its times.
LEMMA LongestFacts ==
  /\ Longest \in Nat /\ CyclePeriod <= Longest
  /\ ConversionWait + LateMax <= Longest
  /\ ReadingAgeMax = Longest + ConversionWait + 2 * LateMax
  /\ ConversionWait \in Nat /\ LateMax \in Nat /\ CyclePeriod \in Nat
  /\ AgeCap \in Nat
<1>1. /\ ConversionWait \in Nat /\ LateMax \in Nat /\ CyclePeriod \in Nat
  BY SensorChainConstants
<1>2. /\ Longest \in Nat /\ CyclePeriod <= Longest
      /\ ConversionWait + LateMax <= Longest
  BY <1>1 DEF Longest, MaxOf
<1>3. ReadingAgeMax = Longest + ConversionWait + 2 * LateMax
  BY DEF ReadingAgeMax, Longest
<1>4. AgeCap \in Nat
  BY <1>1, <1>2, <1>3 DEF AgeCap
<1> QED
  BY <1>1, <1>2, <1>3, <1>4

\* A reading that failed is fresh and names nothing as good.
LEMMA FailedType ==
  ASSUME NEW rom \in Roms \cup {Nothing}
  PROVE  /\ Failed(rom) \in ReadingValues /\ Failed(rom).age = 0
         /\ ~Failed(rom).ok
BY DEF Failed, Reading, ReadingValues

\* A channel of the fixed bus is published as failed, or planned.
LEMMA ExpectedPlanned ==
  ASSUME EngineType, NEW f, NEW found, NEW e, e = PlanExpectedRomBus(f, found)
  PROVE  \A ch \in Fixed :
           /\ e.plan[ch] \in Roms \cup {Nothing}
           /\ IF e.plan[ch] = Nothing
              THEN \E rom \in Roms \cup {Nothing} : e.readings[ch] = Failed(rom)
              ELSE e.readings[ch] = readings[ch]
<1> DEFINE none == [ch \in Fixed |-> Nothing]
           closed == [ch \in Fixed |-> Failed(ExpectedRom(ch))]
           known == resolution["expected"] \cap found
           ready(ch) == /\ ExpectedRom(ch) \in found
                        /\ ExpectedRom(ch) \in known \/ f # "resolution"
           planned == [ch \in Fixed |->
                         IF ready(ch) THEN ExpectedRom(ch) ELSE Nothing]
           marked == known \cup ({planned[ch] : ch \in Fixed} \ {Nothing})
           missed == [ch \in Fixed |->
                        IF planned[ch] = Nothing THEN Failed(ExpectedRom(ch))
                        ELSE readings[ch]]
<1>1. \A ch \in Fixed : ExpectedRom(ch) \in Roms \cup {Nothing}
  BY DEF ExpectedRom, Roms
<1>2. e = IF ~bound \/ Dead(f) THEN BusPlan(none, closed, {})
          ELSE IF found \ {Air, Heatsink} # {} THEN BusPlan(none, closed, known)
          ELSE IF planned = none THEN BusPlan(none, missed, marked)
          ELSE IF f = "start" THEN BusPlan(none, closed, {})
          ELSE BusPlan(planned, missed, marked)
  BY DEF PlanExpectedRomBus
<1>3. \/ e.plan = none /\ e.readings = closed
      \/ e.plan = planned /\ e.readings = missed
  <2> HIDE DEF none, closed, known, planned, marked, missed
  <2> QED
    BY <1>2 DEF BusPlan
<1>4. \A ch \in Fixed :
        /\ none[ch] = Nothing /\ closed[ch] = Failed(ExpectedRom(ch))
        /\ planned[ch] \in {ExpectedRom(ch), Nothing}
        /\ planned[ch] = Nothing => missed[ch] = Failed(ExpectedRom(ch))
        /\ planned[ch] # Nothing => missed[ch] = readings[ch]
  OBVIOUS
<1> HIDE DEF none, closed, known, planned, marked, missed
<1> QED
  BY <1>1, <1>3, <1>4

\* So is the channel of the product bus.
LEMMA SinglePlanned ==
  ASSUME EngineType, NEW f, NEW s, s = PlanSingleDeviceBus(f)
  PROVE  /\ s.plan \in Roms \cup {Nothing}
         /\ IF s.plan = Nothing
            THEN \E rom \in Roms \cup {Nothing} : s.readings = Failed(rom)
            ELSE s.readings = readings["product"]
         /\ SeenProbe(f) \in Roms \cup {Nothing}
<1> DEFINE rom == CHOOSE r \in plugged : TRUE
           known == resolution["single"] \cap plugged
<1>1. Cardinality(plugged) = 1 => rom \in Roms
  <2>1. Cardinality(plugged) = 1 => plugged # {}
    BY FS_EmptySet
  <2> QED
    BY <2>1 DEF EngineType, Roms
<1>2. s = IF Dead(f) \/ Cardinality(plugged) # 1
          THEN BusPlan(Nothing, Failed(lastSeen), {})
          ELSE IF rom \notin known /\ f = "resolution"
          THEN BusPlan(Nothing, Failed(rom), known)
          ELSE IF f = "start" THEN BusPlan(Nothing, Failed(rom), {})
          ELSE BusPlan(rom, readings["product"], known \cup {rom})
  BY DEF PlanSingleDeviceBus
<1>3. SeenProbe(f) = IF ~Dead(f) /\ Cardinality(plugged) = 1 THEN rom
                     ELSE lastSeen
  BY DEF SeenProbe
<1> HIDE DEF rom, known
<1>4. SeenProbe(f) \in Roms \cup {Nothing}
  BY <1>1, <1>3 DEF EngineType
<1>5. \/ /\ s.plan = Nothing
         /\ \E r \in {lastSeen, rom} :
              r \in Roms \cup {Nothing} /\ s.readings = Failed(r)
      \/ s.plan = rom /\ rom \in Roms /\ s.readings = readings["product"]
  BY <1>1, <1>2 DEF BusPlan, EngineType
<1>6. Nothing \notin Roms
  BY SensorChainNothing
<1> QED
  BY <1>4, <1>5, <1>6

\* The begin of a cycle publishes what it does not plan to read.
LEMMA BeginSampling ==
  ASSUME Sampling, BeginCycle
  PROVE  Sampling'
<1>1. PICK f, g \in Faults, found \in FixedBus :
        LET e == PlanExpectedRomBus(f, found)
            s == PlanSingleDeviceBus(g)
            planned == [ch \in Channels |->
                          IF ch \in Fixed THEN e.plan[ch] ELSE s.plan]
        IN /\ plan' = planned
           /\ readings' = [ch \in Channels |->
                             IF ch \in Fixed THEN e.readings[ch] ELSE s.readings]
           /\ lastSeen' = SeenProbe(g)
           /\ phase' = IF planned = NothingPlanned THEN "Idle" ELSE "Waiting"
  BY DEF BeginCycle
<1> DEFINE e == PlanExpectedRomBus(f, found)
           s == PlanSingleDeviceBus(g)
<1>2. /\ phase = "Idle" /\ cycleIn <= 0 /\ cycleIn' = CyclePeriod
      /\ readIn' = ConversionWait /\ UNCHANGED world
  BY DEF BeginCycle
<1>3. /\ plan' = [ch \in Channels |-> IF ch \in Fixed THEN e.plan[ch] ELSE s.plan]
      /\ readings' = [ch \in Channels |->
                        IF ch \in Fixed THEN e.readings[ch] ELSE s.readings]
      /\ lastSeen' = SeenProbe(g)
      /\ phase' = IF plan' = NothingPlanned THEN "Idle" ELSE "Waiting"
  BY <1>1
<1>4. \A ch \in Fixed :
        /\ e.plan[ch] \in Roms \cup {Nothing}
        /\ IF e.plan[ch] = Nothing
           THEN \E rom \in Roms \cup {Nothing} : e.readings[ch] = Failed(rom)
           ELSE e.readings[ch] = readings[ch]
  BY ExpectedPlanned DEF Sampling
<1>5. /\ s.plan \in Roms \cup {Nothing}
      /\ IF s.plan = Nothing
         THEN \E rom \in Roms \cup {Nothing} : s.readings = Failed(rom)
         ELSE s.readings = readings["product"]
      /\ SeenProbe(g) \in Roms \cup {Nothing}
  BY SinglePlanned DEF Sampling
<1> HIDE DEF e, s
<1>6. \A ch \in Channels :
        /\ plan'[ch] \in Roms \cup {Nothing}
        /\ IF plan'[ch] = Nothing
           THEN \E rom \in Roms \cup {Nothing} : readings'[ch] = Failed(rom)
           ELSE readings'[ch] = readings[ch]
  BY <1>3, <1>4, <1>5 DEF Channels, Fixed
<1>7. \A ch \in Channels :
        /\ readings'[ch] \in ReadingValues
        /\ readings'[ch].ok => readings'[ch].rom # Nothing
        /\ IF plan'[ch] = Nothing THEN readings'[ch].age = 0
           ELSE readings'[ch].age = readings[ch].age
  BY <1>6, FailedType DEF Sampling, EngineType, Named
<1>8. EngineType'
  <2>1. readings' \in [Channels -> ReadingValues]
    BY <1>3, <1>7
  <2>2. plan' \in [Channels -> Roms \cup {Nothing}]
    BY <1>3, <1>6
  <2>3. phase' \in {"Idle", "Waiting"} /\ lastSeen' \in Roms \cup {Nothing}
    BY <1>3, <1>5
  <2>4. plugged' = plugged /\ temp' = temp
    BY <1>2 DEF world
  <2> QED
    BY <1>2, <2>1, <2>2, <2>3, <2>4, LongestFacts DEF Sampling, EngineType
<1>9. Named'
  BY <1>7 DEF Named
<1>10. Timed'
  <2>1. \A ch \in Channels :
          /\ readings[ch].age \in Nat
          /\ readings[ch].age <= Longest + LateMax
    <3>1. /\ -LateMax <= cycleIn /\ cycleIn \in Int
          /\ \A ch \in Channels : readings[ch].age + cycleIn <= Longest
      BY <1>2 DEF Sampling, Timed, EngineType
    <3>2. \A ch \in Channels : readings[ch].age \in Nat
      BY DEF Sampling, EngineType, ReadingValues
    <3> QED
      BY <3>1, <3>2, LongestFacts
  <2>2. CASE phase' = "Idle"
    <3>1. \A ch \in Channels : plan'[ch] = Nothing
      BY <1>3, <2>2 DEF NothingPlanned
    <3>2. \A ch \in Channels : readings'[ch].age = 0
      BY <1>7, <3>1
    <3> QED
      BY <1>2, <2>2, <3>2, LongestFacts DEF Timed
  <2>3. CASE phase' = "Waiting"
    <3>1. \A ch \in Channels :
            readings'[ch].age + readIn' <=
              ConversionWait
                + IF plan'[ch] = Nothing THEN 0 ELSE Longest + LateMax
      BY <1>2, <1>7, <2>1, LongestFacts
    <3> QED
      BY <1>2, <2>3, <3>1, LongestFacts DEF Timed
  <2> QED
    BY <1>3, <2>2, <2>3
<1> QED
  BY <1>8, <1>9, <1>10 DEF Sampling

\* The end of a cycle publishes what was planned.
LEMMA FinishSampling ==
  ASSUME Sampling, FinishCycle
  PROVE  Sampling'
<1>1. PICK good \in SUBSET {ch \in Channels : plan[ch] # Nothing} :
        readings' = [ch \in Channels |->
                       CASE plan[ch] = Nothing -> readings[ch]
                         [] ch \in good -> Reading(plan[ch], TRUE, temp)
                         [] OTHER -> Failed(plan[ch])]
  BY DEF FinishCycle
<1>2. /\ phase = "Waiting" /\ readIn <= 0 /\ cycleIn' = MaxOf(cycleIn, 0)
      /\ phase' = "Idle" /\ readIn' = 0 /\ plan' = NothingPlanned
      /\ UNCHANGED <<world, lastSeen>>
  BY DEF FinishCycle
<1>3. EngineType /\ Named /\ Timed
  BY DEF Sampling
<1>4. \A ch \in Channels :
        \/ plan[ch] = Nothing /\ readings'[ch] = readings[ch]
        \/ plan[ch] # Nothing /\ readings'[ch] \in
             {Reading(plan[ch], TRUE, temp), Failed(plan[ch])}
  BY <1>1
<1>5. \A ch \in Channels :
        /\ readings'[ch] \in ReadingValues
        /\ readings'[ch].ok => readings'[ch].rom # Nothing
        /\ readings'[ch].age = IF plan[ch] = Nothing THEN readings[ch].age
                               ELSE 0
  <2> SUFFICES ASSUME NEW ch \in Channels
               PROVE  /\ readings'[ch] \in ReadingValues
                      /\ readings'[ch].ok => readings'[ch].rom # Nothing
                      /\ readings'[ch].age =
                           IF plan[ch] = Nothing THEN readings[ch].age ELSE 0
    OBVIOUS
  <2>1. plan[ch] \in Roms \cup {Nothing} /\ temp \in Temps
    BY <1>3 DEF EngineType
  <2>2. CASE plan[ch] = Nothing
    BY <1>3, <1>4, <2>2 DEF EngineType, Named
  <2>3. CASE plan[ch] # Nothing
    <3> DEFINE rom == plan[ch]
               read == Reading(rom, TRUE, temp)
    <3>1. rom \in Roms
      BY <2>1, <2>3
    <3> HIDE DEF rom
    <3>2. /\ read \in ReadingValues /\ read.age = 0
          /\ read.rom # Nothing
      BY <2>1, <3>1, SensorChainNothing DEF Reading, ReadingValues
    <3>3. /\ Failed(rom) \in ReadingValues /\ Failed(rom).age = 0
          /\ ~Failed(rom).ok
      BY <3>1, FailedType
    <3> HIDE DEF read
    <3>4. readings'[ch] \in {read, Failed(rom)}
      BY <1>4, <2>3 DEF rom, read
    <3> QED
      BY <2>3, <3>2, <3>3, <3>4
  <2> QED
    BY <2>2, <2>3
<1>6. EngineType'
  <2>1. readings' \in [Channels -> ReadingValues]
    BY <1>1, <1>5
  <2>2. plan' \in [Channels -> Roms \cup {Nothing}]
    BY <1>2 DEF NothingPlanned
  <2>3. cycleIn' \in Int
    BY <1>2, <1>3 DEF EngineType, MaxOf
  <2> QED
    BY <1>2, <1>3, <2>1, <2>2, <2>3 DEF EngineType, world
<1>7. Named'
  BY <1>5 DEF Named
<1>8. Timed'
  <2>1. /\ cycleIn \in Int /\ readIn \in Int /\ -LateMax <= readIn
        /\ cycleIn > 0 => cycleIn + ConversionWait - readIn <= CyclePeriod
    BY <1>2, <1>3 DEF EngineType, Timed
  <2>2. \A ch \in Channels :
          /\ readings[ch].age \in Nat
          /\ plan[ch] = Nothing => readings[ch].age + readIn <= ConversionWait
    BY <1>2, <1>3, LongestFacts DEF EngineType, Timed, ReadingValues
  <2>3. \A ch \in Channels : readings'[ch].age + cycleIn' <= Longest
    <3> SUFFICES ASSUME NEW ch \in Channels
                 PROVE  readings'[ch].age + cycleIn' <= Longest
      OBVIOUS
    <3> DEFINE age == readings'[ch].age
    <3>1. /\ age \in Int /\ age <= ConversionWait - readIn
      BY <1>2, <1>5, <2>1, <2>2, LongestFacts
    <3>2. CASE cycleIn > 0
      BY <1>2, <2>1, <3>1, <3>2, LongestFacts DEF MaxOf
    <3>3. CASE ~(cycleIn > 0)
      BY <1>2, <2>1, <3>1, <3>3, LongestFacts DEF MaxOf
    <3> QED
      BY <3>2, <3>3
  <2>4. -LateMax <= cycleIn'
    BY <1>2, <2>1, LongestFacts DEF MaxOf
  <2> QED
    BY <1>2, <2>3, <2>4 DEF Timed
<1> QED
  BY <1>6, <1>7, <1>8 DEF Sampling

\* A tick makes every reading one older.
LEMMA AgedReading ==
  ASSUME NEW r \in ReadingValues
  PROVE  LET a == OlderReading(r)
         IN /\ a \in ReadingValues /\ a.rom = r.rom /\ a.ok = r.ok
            /\ a.temp = r.temp /\ a.age <= r.age + 1
<1>1. r.age \in Nat
  BY DEF ReadingValues
<1>2. Older(r.age, AgeCap) \in Nat /\ Older(r.age, AgeCap) <= r.age + 1
  BY <1>1, LongestFacts DEF Older, MinOf
<1> HIDE DEF Older
<1> QED
  BY <1>2 DEF ReadingValues, OlderReading

\* A tick ages the readings and brings the cycle on.
LEMMA TickSampling ==
  ASSUME Sampling, ChainTick
  PROVE  Sampling'
<1>1. /\ Due > -LateMax /\ cycleIn' = MaxOf(cycleIn - 1, -LateMax)
      /\ readIn' = IF phase = "Waiting" THEN readIn - 1 ELSE 0
      /\ readings' = [ch \in Channels |-> OlderReading(readings[ch])]
      /\ UNCHANGED <<world, phase, plan, lastSeen>>
  BY DEF ChainTick
<1>2. EngineType /\ Named /\ Timed
  BY DEF Sampling
<1>3. \A ch \in Channels :
        /\ readings'[ch] \in ReadingValues
        /\ readings'[ch].rom = readings[ch].rom
        /\ readings'[ch].ok = readings[ch].ok
        /\ readings'[ch].age <= readings[ch].age + 1
        /\ readings'[ch].age \in Nat /\ readings[ch].age \in Nat
  <2> SUFFICES ASSUME NEW ch \in Channels
               PROVE  /\ readings'[ch] \in ReadingValues
                      /\ readings'[ch].rom = readings[ch].rom
                      /\ readings'[ch].ok = readings[ch].ok
                      /\ readings'[ch].age <= readings[ch].age + 1
                      /\ readings'[ch].age \in Nat /\ readings[ch].age \in Nat
    OBVIOUS
  <2>1. readings[ch] \in ReadingValues
    BY <1>2 DEF EngineType
  <2>2. readings'[ch] = OlderReading(readings[ch])
    BY <1>1
  <2>3. /\ readings'[ch] \in ReadingValues
        /\ readings'[ch].rom = readings[ch].rom
        /\ readings'[ch].ok = readings[ch].ok
        /\ readings'[ch].age <= readings[ch].age + 1
    BY <2>1, <2>2, AgedReading
  <2> QED
    BY <2>1, <2>3 DEF ReadingValues
<1>4. /\ cycleIn \in Int /\ readIn \in Int /\ cycleIn' \in Int
      /\ readIn' \in Int /\ -LateMax <= cycleIn' /\ phase' = phase
      /\ plan' = plan
      /\ cycleIn' = cycleIn - 1 \/ cycleIn' = -LateMax
  BY <1>1, <1>2, LongestFacts DEF EngineType, MaxOf
<1>5. EngineType'
  <2>1. readings' \in [Channels -> ReadingValues]
    BY <1>1, <1>3
  <2> QED
    BY <1>1, <1>2, <1>4, <2>1 DEF EngineType, world
<1>6. Named'
  BY <1>2, <1>3 DEF Named
<1>7. Timed'
  <2>1. CASE phase = "Idle"
    <3>1. cycleIn' = cycleIn - 1
      BY <1>1, <1>4, <2>1, LongestFacts DEF Due, MaxOf
    <3>2. \A ch \in Channels : readings[ch].age + cycleIn <= Longest
      BY <1>2, <2>1 DEF Timed
    <3>3. \A ch \in Channels : readings'[ch].age + cycleIn' <= Longest
      BY <1>3, <1>4, <3>1, <3>2, LongestFacts
    <3> QED
      BY <1>4, <2>1, <3>3 DEF Timed
  <2>2. CASE phase = "Waiting"
    <3>1. readIn' = readIn - 1 /\ readIn > -LateMax
      BY <1>1, <2>2 DEF Due
    <3>2. /\ cycleIn > 0 => cycleIn + ConversionWait - readIn <= CyclePeriod
          /\ \A ch \in Channels :
               readings[ch].age + readIn <=
                 ConversionWait
                   + IF plan[ch] = Nothing THEN 0 ELSE Longest + LateMax
      BY <1>2, <2>2 DEF Timed
    <3>3. \A ch \in Channels :
            readings'[ch].age + readIn' <=
              ConversionWait
                + IF plan'[ch] = Nothing THEN 0 ELSE Longest + LateMax
      <4> SUFFICES ASSUME NEW ch \in Channels
                   PROVE  readings'[ch].age + readIn' <=
                            ConversionWait
                              + IF plan[ch] = Nothing THEN 0
                                ELSE Longest + LateMax
        BY <1>4
      <4> DEFINE new == readings'[ch].age
                 old == readings[ch].age
                 most == IF plan[ch] = Nothing THEN 0 ELSE Longest + LateMax
      <4>1. new \in Nat /\ old \in Nat /\ new <= old + 1 /\ most \in Nat
        BY <1>3, LongestFacts
      <4>2. old + readIn <= ConversionWait + most
        BY <3>2
      <4> HIDE DEF new, old, most
      <4>3. new + readIn' <= ConversionWait + most
        BY <1>4, <3>1, <4>1, <4>2, LongestFacts
      <4> QED
        BY <4>3 DEF new, most
    <3>4. cycleIn' > 0 => cycleIn' + ConversionWait - readIn' <= CyclePeriod
      <4>1. CASE cycleIn' = cycleIn - 1
        BY <1>4, <3>1, <3>2, <4>1, LongestFacts
      <4>2. CASE cycleIn' = -LateMax
        BY <4>2, LongestFacts
      <4> QED
        BY <1>4, <4>1, <4>2
    <3>5. -LateMax <= readIn'
      BY <1>4, <3>1, LongestFacts
    <3>6. phase' = "Waiting"
      BY <1>4, <2>2
    <3> QED
      BY <1>4, <3>3, <3>4, <3>5, <3>6 DEF Timed
  <2> QED
    BY <1>2, <2>1, <2>2 DEF EngineType
<1> QED
  BY <1>5, <1>6, <1>7 DEF Sampling

\* No reading is older than a late cycle and the conversion after it.
LEMMA SamplingYoung ==
  ASSUME Sampling
  PROVE  ReadingNeverOld
<1> SUFFICES ASSUME NEW ch \in Channels
             PROVE  readings[ch].age <= ReadingAgeMax
  BY DEF ReadingNeverOld
<1>1. /\ readings[ch].age \in Nat /\ cycleIn \in Int /\ readIn \in Int
      /\ phase \in {"Idle", "Waiting"}
  BY DEF Sampling, EngineType, ReadingValues
<1>2. CASE phase = "Idle"
  BY <1>1, <1>2, LongestFacts DEF Sampling, Timed
<1>3. CASE phase = "Waiting"
  BY <1>1, <1>3, LongestFacts DEF Sampling, Timed
<1> QED
  BY <1>1, <1>2, <1>3

-----------------------------------------------------------------------------
(* The quality pipeline *)

Pipes ==
  [acc : ReadingValues \cup {Nothing}, validAge : Nat \cup {Nothing},
   bad : Nat, good : Nat, span : Int, latched : BOOLEAN,
   rate : Temps \cup {Nothing}, filter : SUBSET (Roms \cup {Nothing})]

Streaks ==
  [rom : Roms \cup {Nothing}, count : Nat, time : Int, age : Nat]

\* A recovery streak of the pipeline is part of a streak of good samples:
\* of the probe accepted last, as long, and as old.
Earned(p, k) ==
  p.good > 0 =>
    /\ p.acc # Nothing /\ p.acc.rom # Nothing /\ p.acc.rom = k.rom
    /\ k.count >= p.good /\ k.time >= p.span
    /\ p.validAge # Nothing /\ k.age = p.validAge

\* A streak that may go on is no younger than the sample accepted last.
Dated(p, k) ==
  /\ k.time >= 0
  /\ k.count > 0 /\ k.age <= MaxStaleAge =>
       p.acc # Nothing /\ p.acc.age <= k.age

\* What the pipelines owe to the samples they were given
Recovered ==
  /\ pipe \in [Watched -> Pipes] /\ streak \in [Watched -> Streaks]
  /\ \A ch \in Watched :
       Earned(pipe[ch], streak[ch]) /\ Dated(pipe[ch], streak[ch])

\* An invalid sample ends the recovery streak.
LEMMA InvalidSample ==
  ASSUME NEW p \in Pipes, NEW mismatch
  PROVE  /\ RecordInvalid(p, mismatch) \in Pipes
         /\ RecordInvalid(p, mismatch).good = 0
         /\ RecordInvalid(p, mismatch).acc = p.acc
<1> DEFINE bad == MinOf(p.bad + 1, MaxInvalid + 1)
           filter == IF bad > MaxInvalid \/ p.latched \/ mismatch THEN {}
                     ELSE p.filter
           latched == p.latched \/ bad > MaxInvalid
<1>1. bad \in Nat
  BY SensorChainConstants DEF Pipes, MinOf
<1>2. filter \in SUBSET (Roms \cup {Nothing}) /\ latched \in BOOLEAN
  BY DEF Pipes
<1>3. RecordInvalid(p, mismatch) =
        [p EXCEPT !.bad = bad, !.good = 0, !.span = 0, !.rate = Nothing,
                  !.filter = filter, !.latched = latched]
  BY DEF RecordInvalid, Pipes
<1> HIDE DEF bad, filter, latched
<1>4. RecordInvalid(p, mismatch) =
        [acc |-> p.acc, validAge |-> p.validAge, bad |-> bad, good |-> 0,
         span |-> 0, latched |-> latched, rate |-> Nothing,
         filter |-> filter]
  BY <1>3 DEF Pipes
<1> QED
  BY <1>1, <1>2, <1>4 DEF Pipes

\* A valid sample makes the recovery streak longer by one sample and by the
\* time since the valid sample before.
LEMMA ValidSample ==
  ASSUME NEW p \in Pipes, NEW s \in ReadingValues, s.temp \in Temps,
         p.good > 0 => p.validAge # Nothing,
         NEW q, q = RecordValid(p, s)
  PROVE  /\ q \in Pipes /\ q.acc = p.acc /\ q.validAge = s.age
         /\ q.good = MinOf(p.good + 1, MinValid)
         /\ q.span = IF p.good = 0 THEN 0
                     ELSE MinOf(p.span + p.validAge - s.age, MinStable)
<1> DEFINE span == IF p.good = 0 THEN 0
                   ELSE MinOf(p.span + p.validAge - s.age, MinStable)
           good == MinOf(p.good + 1, MinValid)
           filter == p.filter \cup {s.rom}
           r == [p EXCEPT !.validAge = s.age, !.bad = 0, !.good = good,
                          !.span = span, !.rate = s.temp, !.filter = filter]
           latched == p.latched /\ ~RecoveryComplete(r)
<1>1. /\ p.good \in Nat /\ p.span \in Int /\ s.age \in Nat
      /\ p.validAge \in Nat \cup {Nothing} /\ p.latched \in BOOLEAN
  BY DEF Pipes, ReadingValues
<1>2. good \in Nat
  BY <1>1, SensorChainConstants DEF MinOf
<1>3. span \in Int
  <2>1. CASE p.good = 0
    BY <2>1
  <2>2. CASE p.good > 0
    <3>1. p.validAge \in Nat
      BY <1>1, <2>2
    <3> QED
      BY <1>1, <2>2, <3>1, SensorChainConstants DEF MinOf
  <2> QED
    BY <1>1, <2>1, <2>2
<1>4. filter \in SUBSET (Roms \cup {Nothing})
  BY DEF Pipes, ReadingValues
<1>5. latched \in BOOLEAN
  BY <1>1
<1>6. q = [r EXCEPT !.latched = latched]
  BY <1>1 DEF RecordValid, Pipes
<1> HIDE DEF span, good, filter, latched
<1>7. r \in Pipes
  BY <1>1, <1>2, <1>3, <1>4 DEF Pipes
<1>8. /\ r.acc = p.acc /\ r.validAge = s.age /\ r.good = good
      /\ r.span = span
  BY DEF Pipes
<1> HIDE DEF r
<1>9. /\ q \in Pipes /\ q.acc = r.acc /\ q.validAge = r.validAge
      /\ q.good = r.good /\ q.span = r.span
  BY <1>5, <1>6, <1>7 DEF Pipes
<1> QED
  BY <1>8, <1>9 DEF good, span

\* The state a sample meets has no recovery streak left when the last valid
\* sample was too long ago.
LEMMA EnteredPipe ==
  ASSUME NEW p \in Pipes, NEW s \in ReadingValues
  PROVE  LET e == [Entered(p) EXCEPT !.acc = s]
         IN /\ e \in Pipes /\ e.acc = s /\ e.validAge = p.validAge
            /\ \/ e.good = 0
               \/ /\ e.good = p.good /\ e.span = p.span
                  /\ ~(p.validAge # Nothing /\ p.validAge > MaxStaleAge)
<1> DEFINE e == [Entered(p) EXCEPT !.acc = s]
<1> SUFFICES /\ e \in Pipes /\ e.acc = s /\ e.validAge = p.validAge
             /\ \/ e.good = 0
                \/ /\ e.good = p.good /\ e.span = p.span
                   /\ ~(p.validAge # Nothing /\ p.validAge > MaxStaleAge)
  OBVIOUS
<1>1. CASE RawFailure(p)
  <2>1. e = [p EXCEPT !.good = 0, !.span = 0, !.latched = TRUE,
                      !.filter = {}, !.rate = Nothing, !.acc = s]
    BY <1>1 DEF Entered, Pipes
  <2> HIDE DEF e
  <2>2. e = [acc |-> s, validAge |-> p.validAge, bad |-> p.bad, good |-> 0,
             span |-> 0, latched |-> TRUE, rate |-> Nothing, filter |-> {}]
    BY <2>1 DEF Pipes
  <2>3. p.validAge \in Nat \cup {Nothing} /\ p.bad \in Nat
    BY DEF Pipes
  <2>4. e \in Pipes
    BY <2>2, <2>3 DEF Pipes
  <2>5. e.acc = s /\ e.validAge = p.validAge /\ e.good = 0
    BY <2>2
  <2> QED
    BY <2>4, <2>5
<1>2. CASE ~RawFailure(p)
  <2>1. e = [p EXCEPT !.acc = s]
    BY <1>2 DEF Entered
  <2>2. ~(p.validAge # Nothing /\ p.validAge > MaxStaleAge)
    BY <1>2 DEF RawFailure
  <2>3. /\ e \in Pipes /\ e.acc = s /\ e.validAge = p.validAge
        /\ e.good = p.good /\ e.span = p.span
    BY <2>1 DEF Pipes
  <2> QED
    BY <2>2, <2>3
<1> QED
  BY <1>1, <1>2

\* The streak of the samples a pipeline accepts
Followed(p, k, s) ==
  IF p.acc = Nothing \/ s.age < p.acc.age THEN Longer(k, s) ELSE k

\* A streak that goes on, begins or ends is a streak.
LEMMA LongerType ==
  ASSUME NEW k \in Streaks, NEW s \in ReadingValues
  PROVE  Longer(k, s) \in Streaks
<1>1. /\ k.count \in Nat /\ k.time \in Int /\ k.age \in Nat
      /\ s.age \in Nat /\ s.rom \in Roms \cup {Nothing}
  BY DEF Streaks, ReadingValues
<1> DEFINE count == MinOf(k.count + 1, MinValid)
           time == MinOf(k.time + k.age - s.age, MinStable)
<1>2. count \in Nat /\ time \in Int
  BY <1>1, SensorChainConstants DEF MinOf
<1>3. Longer(k, s) \in
        {NoStreak, [k EXCEPT !.count = count, !.time = time, !.age = s.age],
         [rom |-> s.rom, count |-> 1, time |-> 0, age |-> s.age]}
  <2>1. [k EXCEPT !.count = MinOf(@ + 1, MinValid),
                  !.time = MinOf(@ + k.age - s.age, MinStable),
                  !.age = s.age] =
          [k EXCEPT !.count = count, !.time = time, !.age = s.age]
    BY DEF Streaks
  <2> HIDE DEF count, time
  <2> QED
    BY <2>1 DEF Longer
<1> HIDE DEF count, time
<1>4. NoStreak \in Streaks
  BY DEF NoStreak, Streaks
<1>5. [k EXCEPT !.count = count, !.time = time, !.age = s.age] \in Streaks
  BY <1>1, <1>2 DEF Streaks
<1>6. [rom |-> s.rom, count |-> 1, time |-> 0, age |-> s.age] \in Streaks
  BY <1>1 DEF Streaks
<1> QED
  BY <1>3, <1>4, <1>5, <1>6

\* A sample that goes on with a streak, and one that begins a new one
LEMMA LongerSample ==
  ASSUME NEW k \in Streaks, NEW s \in ReadingValues, NEW l,
         l = Longer(k, s), s.ok, s.temp \in Plausible
  PROVE  /\ l.rom = s.rom /\ l.age = s.age /\ l.count >= 1
         /\ k.count > 0 /\ k.rom = s.rom /\ k.age <= MaxStaleAge =>
              /\ l.count = MinOf(k.count + 1, MinValid)
              /\ l.time = MinOf(k.time + k.age - s.age, MinStable)
         /\ ~(k.count > 0 /\ k.rom = s.rom /\ k.age <= MaxStaleAge) =>
              l.count = 1 /\ l.time = 0
<1> DEFINE count == MinOf(k.count + 1, MinValid)
           time == MinOf(k.time + k.age - s.age, MinStable)
           goes == k.count > 0 /\ k.rom = s.rom /\ k.age <= MaxStaleAge
<1>1. k.count \in Nat
  BY DEF Streaks
<1>2. count >= 1
  BY <1>1, SensorChainConstants DEF MinOf
<1>3. [k EXCEPT !.count = MinOf(@ + 1, MinValid),
                !.time = MinOf(@ + k.age - s.age, MinStable),
                !.age = s.age] =
        [k EXCEPT !.count = count, !.time = time, !.age = s.age]
  BY DEF Streaks
<1>4. l = IF goes
          THEN [k EXCEPT !.count = count, !.time = time, !.age = s.age]
          ELSE [rom |-> s.rom, count |-> 1, time |-> 0, age |-> s.age]
  <2> HIDE DEF count, time
  <2>1. ~(~s.ok \/ s.temp \notin Plausible)
    OBVIOUS
  <2>2. CASE goes
    BY <1>3, <2>1, <2>2 DEF Longer
  <2>3. CASE ~goes
    BY <2>1, <2>3 DEF Longer
  <2> QED
    BY <2>2, <2>3
<1> HIDE DEF count, time
<1>5. CASE goes
  <2>1. l = [k EXCEPT !.count = count, !.time = time, !.age = s.age]
    BY <1>4, <1>5
  <2>2. /\ l.rom = k.rom /\ l.age = s.age /\ l.count = count
        /\ l.time = time
    BY <2>1 DEF Streaks
  <2> QED
    BY <1>2, <1>5, <2>2 DEF count, time
<1>6. CASE ~goes
  <2>1. l = [rom |-> s.rom, count |-> 1, time |-> 0, age |-> s.age]
    BY <1>4, <1>6
  <2>2. l.rom = s.rom /\ l.age = s.age /\ l.count = 1 /\ l.time = 0
    BY <2>1
  <2> QED
    BY <1>6, <2>2
<1> QED
  BY <1>5, <1>6

\* A streak is as old as its last sample, and never shrinks in time.
LEMMA LongerDated ==
  ASSUME NEW p \in Pipes, NEW k \in Streaks, NEW s \in ReadingValues,
         Dated(p, k), Accepted(p, s), NEW l, l = Longer(k, s)
  PROVE  l.time >= 0 /\ (l.count > 0 => l.age = s.age)
<1>1. CASE s.ok /\ s.temp \in Plausible
  <2> DEFINE goes == k.count > 0 /\ k.rom = s.rom /\ k.age <= MaxStaleAge
  <2>1. /\ l.age = s.age
        /\ goes => l.time = MinOf(k.time + k.age - s.age, MinStable)
        /\ ~goes => l.time = 0
    BY <1>1, LongerSample
  <2>2. CASE goes
    <3>1. p.acc # Nothing /\ p.acc.age <= k.age /\ k.time >= 0
      BY <2>2 DEF Dated
    <3>2. s.age < p.acc.age /\ p.acc \in ReadingValues
      BY <3>1 DEF Accepted, Pipes
    <3>3. /\ k.time \in Int /\ k.age \in Nat /\ s.age \in Nat
          /\ p.acc.age \in Nat
      BY <3>2 DEF Streaks, ReadingValues
    <3>4. k.time + k.age - s.age >= 0
      BY <3>1, <3>2, <3>3
    <3> QED
      BY <2>1, <2>2, <3>3, <3>4, SensorChainConstants DEF MinOf
  <2>3. CASE ~goes
    BY <2>1, <2>3
  <2> QED
    BY <2>2, <2>3
<1>2. CASE ~(s.ok /\ s.temp \in Plausible)
  <2>1. ~s.ok \/ s.temp \notin Plausible
    BY <1>2
  <2>2. l = NoStreak
    BY <2>1 DEF Longer
  <2> QED
    BY <2>2 DEF NoStreak
<1> QED
  BY <1>1, <1>2

\* A sample the pipeline counts is one the streak counts.
LEMMA IngestEarned ==
  ASSUME NEW p \in Pipes, NEW k \in Streaks, NEW s \in ReadingValues,
         s.ok => s.rom # Nothing, Earned(p, k), Dated(p, k)
  PROVE  /\ Ingest(p, s) \in Pipes /\ Followed(p, k, s) \in Streaks
         /\ Earned(Ingest(p, s), Followed(p, k, s))
         /\ Dated(Ingest(p, s), Followed(p, k, s))
<1> DEFINE e == [Entered(p) EXCEPT !.acc = s]
           l == Longer(k, s)
<1>1. /\ e \in Pipes /\ e.acc = s /\ e.validAge = p.validAge
      /\ \/ e.good = 0
         \/ /\ e.good = p.good /\ e.span = p.span
            /\ ~(p.validAge # Nothing /\ p.validAge > MaxStaleAge)
  BY EnteredPipe
<1>2. Ingest(p, s) =
        IF ~Accepted(p, s) THEN p
        ELSE IF Mismatch(p, s) THEN RecordInvalid(e, TRUE)
        ELSE IF ~s.ok \/ s.temp \notin Plausible \/ TooFast(e, s)
        THEN RecordInvalid(e, FALSE)
        ELSE RecordValid(e, s)
  BY DEF Ingest
<1>3. Followed(p, k, s) = IF Accepted(p, s) THEN l ELSE k
  BY DEF Followed, Accepted
<1>4. l \in Streaks
  BY LongerType
<1> HIDE DEF e
<1>5. CASE ~Accepted(p, s)
  BY <1>2, <1>3, <1>5
<1>8. ASSUME Accepted(p, s), NEW q, q.acc = s
      PROVE  Dated(q, l)
  <2>1. l.time >= 0 /\ (l.count > 0 => l.age = s.age)
    BY <1>8, LongerDated
  <2>2. s # Nothing /\ s.age \in Nat
    BY SensorChainNothing DEF ReadingValues
  <2> HIDE DEF l
  <2> QED
    BY <1>8, <2>1, <2>2 DEF Dated
<1>6. ASSUME Accepted(p, s), NEW m, Ingest(p, s) = RecordInvalid(e, m)
      PROVE  /\ Ingest(p, s) \in Pipes /\ Followed(p, k, s) \in Streaks
             /\ Earned(Ingest(p, s), Followed(p, k, s))
             /\ Dated(Ingest(p, s), Followed(p, k, s))
  <2>1. /\ Ingest(p, s) \in Pipes /\ Ingest(p, s).good = 0
        /\ Ingest(p, s).acc = s
    BY <1>1, <1>6, InvalidSample
  <2>2. Earned(Ingest(p, s), Followed(p, k, s))
    BY <2>1 DEF Earned
  <2>3. Followed(p, k, s) = l
    BY <1>3, <1>6
  <2>4. Dated(Ingest(p, s), l)
    BY <1>6, <1>8, <2>1
  <2> QED
    BY <1>4, <2>1, <2>2, <2>3, <2>4
<1>7. CASE /\ Accepted(p, s) /\ ~Mismatch(p, s)
           /\ s.ok /\ s.temp \in Plausible /\ ~TooFast(e, s)
  <2> DEFINE q == RecordValid(e, s)
             goes == k.count > 0 /\ k.rom = s.rom /\ k.age <= MaxStaleAge
  <2>1. Ingest(p, s) = q /\ Followed(p, k, s) = l
    BY <1>2, <1>3, <1>7
  <2>2. /\ p.good \in Nat /\ p.span \in Int /\ e.good \in Nat
        /\ e.span \in Int /\ k.count \in Nat /\ k.time \in Int
        /\ k.age \in Nat /\ s.age \in Nat
        /\ p.validAge \in Nat \cup {Nothing}
    BY <1>1 DEF Pipes, Streaks, ReadingValues
  <2>3. e.good > 0 => /\ e.good = p.good /\ e.span = p.span /\ goes
                      /\ e.validAge = k.age /\ e.validAge # Nothing
                      /\ k.count >= e.good /\ k.time >= e.span
    <3> SUFFICES ASSUME e.good > 0
                 PROVE  /\ e.good = p.good /\ e.span = p.span /\ goes
                        /\ e.validAge = k.age /\ e.validAge # Nothing
                        /\ k.count >= e.good /\ k.time >= e.span
      OBVIOUS
    <3>1. /\ e.good = p.good /\ e.span = p.span /\ p.good > 0
          /\ ~(p.validAge # Nothing /\ p.validAge > MaxStaleAge)
      BY <1>1, <2>2
    <3>2. /\ p.acc # Nothing /\ p.acc.rom # Nothing /\ p.acc.rom = k.rom
          /\ k.count >= p.good /\ k.time >= p.span
          /\ p.validAge # Nothing /\ k.age = p.validAge
      BY <3>1 DEF Earned
    <3>3. k.rom = s.rom
      BY <1>7, <3>2 DEF Mismatch
    <3>4. k.age <= MaxStaleAge
      BY <2>2, <3>1, <3>2, SensorChainConstants
    <3>5. k.count > 0
      BY <2>2, <3>1, <3>2
    <3> QED
      BY <1>1, <3>1, <3>2, <3>3, <3>4, <3>5
  <2>4. s.temp \in Temps
    BY <1>7, SensorChainConstants
  <2>5. /\ q \in Pipes /\ q.acc = e.acc /\ q.validAge = s.age
        /\ q.good = MinOf(e.good + 1, MinValid)
        /\ q.span = IF e.good = 0 THEN 0
                    ELSE MinOf(e.span + e.validAge - s.age, MinStable)
    <3>1. e.good > 0 => e.validAge # Nothing
      BY <2>3
    <3> QED
      BY <1>1, <2>4, <3>1, ValidSample
  <2>6. /\ l.rom = s.rom /\ l.age = s.age /\ l.count >= 1
        /\ goes => /\ l.count = MinOf(k.count + 1, MinValid)
                   /\ l.time = MinOf(k.time + k.age - s.age, MinStable)
        /\ ~goes => l.count = 1 /\ l.time = 0
    BY <1>7, LongerSample
  <2>7. s.rom # Nothing /\ s.age # Nothing /\ s # Nothing
    BY <1>7, <2>2, SensorChainNothing
  <2> HIDE DEF q, l
  <2>8. /\ l.count \in Nat /\ l.time \in Int
    BY <1>4 DEF Streaks
  <2>11. Dated(q, l)
    BY <1>1, <1>7, <1>8, <2>5
  <2>9. l.count >= q.good /\ l.time >= q.span
    <3> HIDE DEF goes
    <3>1. CASE e.good > 0
      <4>1. /\ l.count = MinOf(k.count + 1, MinValid)
            /\ l.time = MinOf(k.time + k.age - s.age, MinStable)
            /\ q.good = MinOf(e.good + 1, MinValid)
            /\ q.span = MinOf(e.span + k.age - s.age, MinStable)
            /\ k.count >= e.good /\ k.time >= e.span
        BY <2>2, <2>3, <2>5, <2>6, <3>1
      <4> QED
        BY <2>2, <4>1, SensorChainConstants DEF MinOf
    <3>2. CASE e.good = 0
      <4>1. q.good = MinOf(1, MinValid) /\ q.span = 0
        BY <2>5, <3>2
      <4>2. q.good = 1
        BY <4>1, SensorChainConstants DEF MinOf
      <4>3. l.time >= 0
        BY <2>11 DEF Dated
      <4> QED
        BY <2>6, <2>8, <4>1, <4>2, <4>3
    <3> QED
      BY <2>2, <3>1, <3>2
  <2>10. Earned(q, l)
    BY <1>1, <2>5, <2>6, <2>7, <2>9 DEF Earned
  <2> QED
    BY <1>4, <2>1, <2>5, <2>10, <2>11
<1> QED
  BY <1>2, <1>5, <1>6, <1>7

\* A poll feeds a pipeline and its streak the same reading.
LEMMA PollRecovered ==
  ASSUME Sampling, Recovered, NEW ch \in Watched, NEW inBand, NEW outcome,
         MCPoll(ch, inBand, outcome)
  PROVE  Recovered'
<1> DEFINE q == Ingest(pipe[ch], readings[ch])
           l == Followed(pipe[ch], streak[ch], readings[ch])
<1>1. /\ pipe[ch] \in Pipes /\ streak[ch] \in Streaks
      /\ Earned(pipe[ch], streak[ch]) /\ Dated(pipe[ch], streak[ch])
      /\ pipe \in [Watched -> Pipes] /\ streak \in [Watched -> Streaks]
  BY DEF Recovered
<1>2. /\ readings[ch] \in ReadingValues
      /\ readings[ch].ok => readings[ch].rom # Nothing
  BY SensorChainWatched DEF Sampling, EngineType, Named
<1>3. q \in Pipes /\ l \in Streaks /\ Earned(q, l) /\ Dated(q, l)
  BY <1>1, <1>2, IngestEarned
<1>4. pipe' = [pipe EXCEPT ![ch] = q]
  BY DEF MCPoll, Poll
<1>5. streak' = [streak EXCEPT ![ch] = l]
  <2>1. streak' = IF pipe[ch].acc = Nothing
                       \/ readings[ch].age < pipe[ch].acc.age
                  THEN [streak EXCEPT ![ch] = Longer(@, readings[ch])]
                  ELSE streak
    BY DEF MCPoll
  <2> QED
    BY <1>1, <2>1 DEF Followed
<1> HIDE DEF q, l
<1>6. pipe' \in [Watched -> Pipes] /\ streak' \in [Watched -> Streaks]
  BY <1>1, <1>3, <1>4, <1>5
<1>7. \A other \in Watched :
        Earned(pipe'[other], streak'[other])
          /\ Dated(pipe'[other], streak'[other])
  <2> SUFFICES ASSUME NEW other \in Watched
               PROVE  Earned(pipe'[other], streak'[other])
                        /\ Dated(pipe'[other], streak'[other])
    OBVIOUS
  <2>1. CASE other = ch
    BY <1>1, <1>3, <1>4, <1>5, <2>1
  <2>2. CASE other # ch
    <3>1. pipe'[other] = pipe[other] /\ streak'[other] = streak[other]
      BY <1>1, <1>4, <1>5, <2>2
    <3> QED
      BY <3>1 DEF Recovered
  <2> QED
    BY <2>1, <2>2
<1> QED
  BY <1>6, <1>7 DEF Recovered

\* A tick makes a pipeline and its streak one older.
LEMMA AgedEarned ==
  ASSUME NEW p \in Pipes, NEW k \in Streaks, Earned(p, k), Dated(p, k),
         NEW l, l = [k EXCEPT !.age = IF k.count = 0 THEN 0
                                      ELSE Older(@, MaxStaleAge + 1)]
  PROVE  /\ AgedPipe(p) \in Pipes /\ l \in Streaks
         /\ Earned(AgedPipe(p), l) /\ Dated(AgedPipe(p), l)
<1> DEFINE acc == IF p.acc = Nothing THEN Nothing
                  ELSE OlderReading(p.acc)
           validAge == IF p.validAge = Nothing THEN Nothing
                       ELSE Older(p.validAge, MaxStaleAge + 1)
           age == IF k.count = 0 THEN 0 ELSE Older(k.age, MaxStaleAge + 1)
           q == [p EXCEPT !.acc = acc, !.validAge = validAge]
<1>1. /\ k.age \in Nat /\ k.count \in Nat /\ p.good \in Nat
      /\ p.acc \in ReadingValues \cup {Nothing}
      /\ p.validAge \in Nat \cup {Nothing}
  BY DEF Pipes, Streaks
<1>2. \A n \in Nat :
        /\ Older(n, MaxStaleAge + 1) \in Nat
        /\ Older(n, MaxStaleAge + 1) <= MaxStaleAge =>
             Older(n, MaxStaleAge + 1) = n + 1 /\ n <= MaxStaleAge
  BY SensorChainConstants DEF Older, MinOf
<1>3. AgedPipe(p) = q
  BY DEF AgedPipe
<1>4. l = [k EXCEPT !.age = age]
  BY DEF Streaks
<1> HIDE DEF Older
<1>5. /\ p.acc = Nothing => acc = Nothing
      /\ p.acc # Nothing =>
           /\ acc \in ReadingValues /\ acc # Nothing
           /\ acc.rom = p.acc.rom /\ acc.age <= p.acc.age + 1
  <2>1. CASE p.acc = Nothing
    BY <2>1
  <2>2. CASE p.acc # Nothing
    <3>1. p.acc \in ReadingValues
      BY <1>1, <2>2
    <3>2. acc = OlderReading(p.acc)
      BY <2>2
    <3> HIDE DEF acc
    <3>3. /\ acc \in ReadingValues /\ acc.rom = p.acc.rom
          /\ acc.age <= p.acc.age + 1
      BY <3>1, <3>2, AgedReading
    <3> QED
      BY <2>2, <3>3, SensorChainNothing
  <2> QED
    BY <2>1, <2>2
<1>6. /\ p.validAge = Nothing => validAge = Nothing
      /\ p.validAge # Nothing =>
           /\ validAge \in Nat /\ validAge # Nothing
           /\ validAge = Older(p.validAge, MaxStaleAge + 1)
  BY <1>1, <1>2, SensorChainNothing
<1>7. /\ age \in Nat
      /\ k.count > 0 => age = Older(k.age, MaxStaleAge + 1)
  BY <1>1, <1>2
<1> HIDE DEF acc, validAge, age
<1>8. /\ q \in Pipes /\ q.acc = acc /\ q.validAge = validAge
      /\ q.good = p.good /\ q.span = p.span
  <2>1. acc \in ReadingValues \cup {Nothing} /\ validAge \in Nat \cup {Nothing}
    BY <1>5, <1>6
  <2> QED
    BY <2>1 DEF Pipes
<1>9. /\ l \in Streaks /\ l.rom = k.rom /\ l.count = k.count
      /\ l.time = k.time /\ l.age = age
  BY <1>4, <1>7 DEF Streaks
<1> HIDE DEF q
<1>10. Earned(q, l)
  <2> SUFFICES ASSUME q.good > 0
               PROVE  Earned(q, l)
    BY DEF Earned
  <2>1. /\ p.acc # Nothing /\ p.acc.rom # Nothing /\ p.acc.rom = k.rom
        /\ k.count >= p.good /\ k.time >= p.span
        /\ p.validAge # Nothing /\ k.age = p.validAge
    BY <1>8 DEF Earned
  <2>2. k.count > 0
    BY <1>1, <1>8, <2>1
  <2>3. age = validAge /\ validAge # Nothing
    BY <1>6, <1>7, <2>1, <2>2
  <2> QED
    BY <1>5, <1>8, <1>9, <2>1, <2>3 DEF Earned
<1>11. Dated(q, l)
  <2>1. l.time >= 0
    BY <1>9 DEF Dated
  <2>2. ASSUME l.count > 0, l.age <= MaxStaleAge
        PROVE  q.acc # Nothing /\ q.acc.age <= l.age
    <3>1. l.age = k.age + 1 /\ k.age <= MaxStaleAge /\ k.count > 0
      BY <1>1, <1>2, <1>7, <1>9, <2>2
    <3>2. p.acc # Nothing /\ p.acc.age <= k.age
      BY <3>1 DEF Dated
    <3>3. acc # Nothing /\ acc.age <= p.acc.age + 1
          /\ acc \in ReadingValues /\ p.acc \in ReadingValues
      BY <1>1, <1>5, <3>2
    <3>4. acc.age \in Nat /\ p.acc.age \in Nat
      BY <3>3 DEF ReadingValues
    <3> QED
      BY <1>1, <1>8, <3>1, <3>2, <3>3, <3>4
  <2> QED
    BY <2>1, <2>2 DEF Dated
<1> QED
  BY <1>3, <1>8, <1>9, <1>10, <1>11

\* A tick ages all pipelines and streaks together.
LEMMA TickRecovered ==
  ASSUME Recovered, MCTick
  PROVE  Recovered'
<1> DEFINE l(ch) == [streak[ch] EXCEPT !.age =
                       IF streak[ch].count = 0 THEN 0
                       ELSE Older(@, MaxStaleAge + 1)]
<1>1. /\ pipe' = [ch \in Watched |-> AgedPipe(pipe[ch])]
      /\ streak' = [ch \in Watched |-> l(ch)]
  BY DEF MCTick, ChainTick
<1>2. \A ch \in Watched :
        /\ AgedPipe(pipe[ch]) \in Pipes /\ l(ch) \in Streaks
        /\ Earned(AgedPipe(pipe[ch]), l(ch))
        /\ Dated(AgedPipe(pipe[ch]), l(ch))
  <2> SUFFICES ASSUME NEW ch \in Watched
               PROVE  /\ AgedPipe(pipe[ch]) \in Pipes /\ l(ch) \in Streaks
                      /\ Earned(AgedPipe(pipe[ch]), l(ch))
                      /\ Dated(AgedPipe(pipe[ch]), l(ch))
    OBVIOUS
  <2>1. /\ pipe[ch] \in Pipes /\ streak[ch] \in Streaks
        /\ Earned(pipe[ch], streak[ch]) /\ Dated(pipe[ch], streak[ch])
    BY DEF Recovered
  <2> QED
    BY <2>1, AgedEarned
<1> HIDE DEF l
<1> QED
  BY <1>1, <1>2 DEF Recovered

\* A channel is Valid on what it was given.
LEMMA RecoveredProven ==
  ASSUME Recovered
  PROVE  ValidProven
<1> SUFFICES ASSUME NEW ch \in Watched, Quality(pipe[ch]) = "Valid"
             PROVE  /\ streak[ch].count >= MinValid
                    /\ streak[ch].time >= MinStable
                    /\ streak[ch].age <= MaxStaleAge
                    /\ streak[ch].rom = SnapshotRom(pipe[ch])
  BY DEF ValidProven
<1> DEFINE p == pipe[ch]
           k == streak[ch]
<1>1. p \in Pipes /\ k \in Streaks /\ Earned(p, k)
  BY DEF Recovered
<1>2. RecoveryComplete(p) /\ ~RawFailure(p)
  BY DEF Quality
<1> HIDE DEF p, k
<1>3. /\ p.good \in Nat /\ p.span \in Int /\ k.count \in Nat
      /\ k.time \in Int /\ k.age \in Nat
  BY <1>1 DEF Pipes, Streaks
<1>4. p.good >= MinValid /\ p.span >= MinStable
  BY <1>2 DEF RecoveryComplete
<1>5. p.good > 0
  BY <1>3, <1>4, SensorChainConstants
<1>6. /\ p.acc.rom = k.rom /\ k.count >= p.good /\ k.time >= p.span
      /\ p.validAge # Nothing /\ k.age = p.validAge
  BY <1>1, <1>5 DEF Earned
<1>7. k.age <= MaxStaleAge
  BY <1>2, <1>3, <1>6, SensorChainConstants DEF RawFailure
<1>8. k.count >= MinValid /\ k.time >= MinStable
  BY <1>3, <1>4, <1>6, SensorChainConstants
<1> QED
  BY <1>6, <1>7, <1>8 DEF p, k, SnapshotRom

-----------------------------------------------------------------------------
(* The target qualification *)

Quals ==
  [active : BOOLEAN, credit : Nat, since : Nat \cup {Nothing},
   grace : Nat \cup {Nothing}]

Bands ==
  [proven : Nat, open : Nat \cup {Nothing}, dropped : BOOLEAN, spells : Nat]

\* What the spells of discarded evaluations excuse
Excused(b) == MaxGap * b.spells

\* The credit was earned in the band, or is excused.  So will be the time
\* since the last evaluation that was applied: with none discarded since, it
\* found the target in its band; otherwise there is room for it.
Credited(q, b) ==
  /\ q.credit <= QualifyTime /\ q.credit <= b.proven + Excused(b)
  /\ ~q.active => q.credit = 0 /\ q.grace = Nothing
  /\ q.active /\ q.grace = Nothing => q.since # Nothing
  /\ b.dropped =>
       b.spells > 0 /\ q.credit + MaxGap <= b.proven + Excused(b)
  /\ q.active /\ q.grace = Nothing /\ ~b.dropped =>
       /\ b.open # Nothing
       /\ q.since <= MaxGap => MinOf(q.since, QualifyTime) <= b.open

\* Each spell excuses MaxGap more.
LEMMA ExcusedFacts ==
  \A n \in Nat : /\ MaxGap * n \in Nat
                 /\ MaxGap * (n + 1) = MaxGap * n + MaxGap
                 /\ n > 0 => MaxGap * n >= MaxGap
<1> SUFFICES ASSUME NEW n \in Nat
             PROVE  /\ MaxGap * n \in Nat
                    /\ MaxGap * (n + 1) = MaxGap * n + MaxGap
                    /\ n > 0 => MaxGap * n >= MaxGap
  OBVIOUS
<1>1. MaxGap \in Nat
  BY SensorChainConstants
<1>2. MaxGap * n \in Nat /\ MaxGap * (n + 1) = MaxGap * n + MaxGap
  BY <1>1
<1>3. ASSUME n > 0
      PROVE  MaxGap * n >= MaxGap
  <2>1. /\ n - 1 \in Nat /\ n = (n - 1) + 1
    BY <1>3
  <2>2. MaxGap * (n - 1) \in Nat
    BY <1>1, <2>1
  <2>3. MaxGap * n = MaxGap * (n - 1) + MaxGap
    BY <1>1, <2>1
  <2> QED
    BY <1>1, <2>2, <2>3
<1> QED
  BY <1>2, <1>3

\* What the evaluator owes to the evaluations it made
Qualified == qual \in Quals /\ band \in Bands /\ Credited(qual, band)

\* A new episode has no credit.
LEMMA NewEpisode ==
  /\ NoEpisode \in Quals /\ ~NoEpisode.active /\ NoEpisode.credit = 0
  /\ NoEpisode.grace = Nothing
  /\ NoBand \in Bands /\ Credited(NoEpisode, NoBand)
<1>1. /\ NoEpisode \in Quals /\ ~NoEpisode.active /\ NoEpisode.credit = 0
      /\ NoEpisode.grace = Nothing
  BY DEF NoEpisode, Quals
<1>2. /\ NoBand \in Bands /\ NoBand.proven = 0 /\ NoBand.spells = 0
      /\ ~NoBand.dropped
  BY DEF NoBand, Bands
<1>3. Excused(NoBand) = 0
  BY <1>2, SensorChainConstants DEF Excused
<1>4. Credited(NoEpisode, NoBand)
  BY <1>1, <1>2, <1>3, SensorChainConstants DEF Credited
<1> QED
  BY <1>1, <1>2, <1>4

\* An evaluation in the band begins an episode, ends an excursion, or
\* credits the time since the last evaluation.
LEMMA InBandCases ==
  ASSUME NEW q \in Quals, q.active /\ q.grace = Nothing => q.since # Nothing
  PROVE  LET r == InBand(q)
         IN /\ r \in Quals /\ r.active /\ r.grace = Nothing /\ r.since = 0
            /\ \/ r.credit = 0
               \/ r.credit = q.credit
               \/ /\ q.active /\ q.grace = Nothing
                  /\ r.credit = MinOf(q.credit + q.since, QualifyTime)
<1> DEFINE r == InBand(q)
           new == [NoEpisode EXCEPT !.active = TRUE, !.since = 0]
           back == [q EXCEPT !.grace = Nothing, !.since = 0]
           sum == MinOf(q.credit + q.since, QualifyTime)
           more == [q EXCEPT !.credit = sum, !.since = 0]
<1>1. /\ q.credit \in Nat /\ q.since \in Nat \cup {Nothing}
      /\ q.grace \in Nat \cup {Nothing}
  BY DEF Quals
<1>2. /\ new \in Quals /\ new.active /\ new.grace = Nothing /\ new.since = 0
      /\ new.credit = 0
  BY DEF NoEpisode, Quals
<1>3. CASE ~q.active
  <2>1. r = new
    BY <1>3 DEF InBand
  <2> HIDE DEF r, new
  <2> QED
    BY <1>2, <2>1 DEF r
<1>4. CASE q.active /\ q.grace # Nothing /\ q.grace >= Grace
  <2>1. r = new
    BY <1>4 DEF InBand
  <2> HIDE DEF r, new
  <2> QED
    BY <1>2, <2>1 DEF r
<1>5. CASE q.active /\ q.grace # Nothing /\ ~(q.grace >= Grace)
  <2>1. r = back
    BY <1>5 DEF InBand
  <2>2. /\ back \in Quals /\ back.active = q.active
        /\ back.grace = Nothing /\ back.since = 0 /\ back.credit = q.credit
    BY DEF Quals
  <2> HIDE DEF r, back
  <2> QED
    BY <1>5, <2>1, <2>2 DEF r
<1>6. CASE q.active /\ q.grace = Nothing
  <2>1. r = more
    BY <1>6 DEF InBand, Quals
  <2>2. q.since \in Nat
    BY <1>1, <1>6
  <2>3. sum \in Nat
    BY <1>1, <2>2, SensorChainConstants DEF MinOf
  <2> HIDE DEF sum
  <2>4. /\ more \in Quals /\ more.active = q.active
        /\ more.grace = q.grace /\ more.since = 0 /\ more.credit = sum
    BY <2>3 DEF Quals
  <2> HIDE DEF r, more
  <2> QED
    BY <1>6, <2>1, <2>4 DEF r, sum
<1> QED
  BY <1>3, <1>4, <1>5, <1>6

\* One outside the band begins or goes on with an excursion, or ends the
\* episode.
LEMMA OutsideBandCases ==
  ASSUME NEW q \in Quals, ~q.active => q.grace = Nothing
  PROVE  LET r == OutsideBand(q)
         IN \/ r = NoEpisode
            \/ /\ r \in Quals /\ r.active /\ r.grace # Nothing
               /\ r.credit = q.credit
<1> DEFINE r == OutsideBand(q)
           on == [q EXCEPT !.since = 0]
           begun == [q EXCEPT !.grace = 0, !.since = 0]
<1>1. q.active \in BOOLEAN
  BY DEF Quals
<1>2. CASE q.grace # Nothing /\ q.grace < Grace
  <2>1. r = on
    BY <1>2 DEF OutsideBand
  <2>2. /\ on \in Quals /\ on.active = q.active /\ on.grace = q.grace
        /\ on.credit = q.credit
    BY DEF Quals
  <2> HIDE DEF r, on
  <2> QED
    BY <1>1, <1>2, <2>1, <2>2 DEF r
<1>3. CASE q.grace = Nothing /\ q.active /\ Grace > 0
  <2>1. r = begun
    BY <1>3 DEF OutsideBand
  <2>2. /\ begun \in Quals /\ begun.active = q.active /\ begun.grace = 0
        /\ begun.credit = q.credit
    BY DEF Quals
  <2>3. 0 # Nothing
    BY SensorChainNothing
  <2> HIDE DEF r, begun
  <2> QED
    BY <1>3, <2>1, <2>2, <2>3 DEF r
<1>4. CASE /\ ~(q.grace # Nothing /\ q.grace < Grace)
           /\ ~(q.grace = Nothing /\ q.active /\ Grace > 0)
  BY <1>4 DEF OutsideBand
<1> QED
  BY <1>2, <1>3, <1>4

\* The time in the band after an evaluation that leaves the evaluator in r
NextBand(b, r, seen, lost) == IF ~r.active THEN NoBand ELSE Judged(b, seen, lost)

\* The record of the band counts every evaluation; one that is discarded
\* after one that was not begins a spell.
LEMMA JudgedFacts ==
  ASSUME NEW b \in Bands, NEW seen \in BOOLEAN, NEW lost \in BOOLEAN
  PROVE  LET c == Judged(b, seen, lost)
             next == MinOf(b.proven + b.open, QualifyTime)
         IN /\ c \in Bands /\ c.dropped = lost
            /\ c.open = IF seen THEN 0 ELSE Nothing
            /\ \/ c.proven = b.proven
               \/ b.open # Nothing /\ c.proven = next
            /\ seen /\ b.open # Nothing => c.proven = next
            /\ ~seen => c.proven = b.proven
            /\ c.spells = IF lost /\ ~b.dropped THEN b.spells + 1 ELSE b.spells
<1> DEFINE next == MinOf(b.proven + b.open, QualifyTime)
           proven == IF seen /\ b.open # Nothing THEN next ELSE b.proven
           open == IF seen THEN 0 ELSE Nothing
           spells == IF lost /\ ~b.dropped THEN b.spells + 1 ELSE b.spells
           c == [proven |-> proven, open |-> open, dropped |-> lost,
                 spells |-> spells]
<1>1. /\ b.proven \in Nat /\ b.open \in Nat \cup {Nothing} /\ b.spells \in Nat
  BY DEF Bands
<1>2. proven \in Nat /\ spells \in Nat /\ open \in Nat \cup {Nothing}
  <2>1. b.open # Nothing => next \in Nat
    BY <1>1, SensorChainConstants DEF MinOf
  <2> QED
    BY <1>1, <2>1
<1>3. Judged(b, seen, lost) = c
  BY DEF Judged
<1> DEFINE e == Judged(b, seen, lost)
<1>4. /\ e \in Bands /\ e.proven = proven /\ e.open = open
      /\ e.dropped = lost /\ e.spells = spells
  <2> HIDE DEF proven, open, spells, e
  <2> QED
    BY <1>2, <1>3 DEF Bands, e
<1> HIDE DEF e
<1>5. /\ e \in Bands /\ e.dropped = lost
      /\ e.open = IF seen THEN 0 ELSE Nothing
      /\ \/ e.proven = b.proven
         \/ b.open # Nothing /\ e.proven = next
      /\ seen /\ b.open # Nothing => e.proven = next
      /\ ~seen => e.proven = b.proven
      /\ e.spells = IF lost /\ ~b.dropped THEN b.spells + 1 ELSE b.spells
  <2>1. e \in Bands /\ e.dropped = lost
    BY <1>4
  <2>2. e.open = IF seen THEN 0 ELSE Nothing
    BY <1>4
  <2>3. e.proven = IF seen /\ b.open # Nothing THEN next ELSE b.proven
    BY <1>4
  <2>4. e.spells = IF lost /\ ~b.dropped THEN b.spells + 1 ELSE b.spells
    BY <1>4
  <2> HIDE DEF next
  <2>5. /\ \/ e.proven = b.proven
           \/ b.open # Nothing /\ e.proven = next
        /\ seen /\ b.open # Nothing => e.proven = next
        /\ ~seen => e.proven = b.proven
    BY <2>3
  <2> QED
    BY <2>1, <2>2, <2>4, <2>5
<1> QED
  BY <1>5 DEF e

\* No record of an evaluation takes credit away that is covered already.
LEMMA StillCovered ==
  ASSUME NEW b \in Bands, NEW c \in Bands,
         \/ c.proven = b.proven
         \/ /\ b.open # Nothing
            /\ c.proven = MinOf(b.proven + b.open, QualifyTime),
         c.spells >= b.spells, NEW n \in Nat, n <= QualifyTime
  PROVE  /\ Excused(b) \in Nat /\ Excused(c) \in Nat
         /\ n <= b.proven + Excused(b) => n <= c.proven + Excused(c)
         /\ c.spells = b.spells /\ b.spells > 0
              /\ n + MaxGap <= b.proven + Excused(b)
            => n + MaxGap <= c.proven + Excused(c)
         /\ c.spells = b.spells + 1 /\ n <= b.proven + Excused(b)
            => n + MaxGap <= c.proven + Excused(c)
<1>1. /\ b.proven \in Nat /\ c.proven \in Nat /\ b.spells \in Nat
      /\ c.spells \in Nat /\ b.open \in Nat \cup {Nothing}
      /\ MaxGap \in Nat /\ QualifyTime \in Nat
  BY SensorChainConstants DEF Bands
<1>2. /\ Excused(b) \in Nat /\ Excused(c) \in Nat
      /\ c.spells = b.spells => Excused(c) = Excused(b)
      /\ c.spells = b.spells + 1 => Excused(c) = Excused(b) + MaxGap
      /\ b.spells > 0 => Excused(b) >= MaxGap
  BY <1>1, ExcusedFacts DEF Excused
<1>3. Excused(c) >= Excused(b)
  <2>1. PICK d \in Nat : c.spells = b.spells + d
    <3>1. c.spells - b.spells \in Nat
      BY <1>1
    <3> QED
      BY <1>1, <3>1
  <2>2. MaxGap * d \in Nat
    BY ExcusedFacts
  <2>3. Excused(c) = Excused(b) + MaxGap * d
    BY <1>1, <2>1 DEF Excused
  <2> QED
    BY <1>2, <2>2, <2>3
<1>4. c.proven >= b.proven \/ c.proven = QualifyTime
  BY <1>1 DEF MinOf
<1> QED
  BY <1>1, <1>2, <1>3, <1>4

\* An evaluation that is applied credits no more than the time proven in the
\* band, and what a spell of discarded ones before it excuses.
LEMMA AppliedCredited ==
  ASSUME NEW q \in Quals, NEW b \in Bands, Credited(q, b),
         NEW inBand \in BOOLEAN, NEW p,
         NEW r, r = EvaluatedTarget(q, p, inBand),
         NEW seen \in BOOLEAN, seen <=> inBand /\ Usable(p)
  PROVE  r \in Quals /\ NextBand(b, r, seen, FALSE) \in Bands
           /\ Credited(r, NextBand(b, r, seen, FALSE))
<1> DEFINE c == Judged(b, seen, FALSE)
<1>1. /\ q.credit \in Nat /\ q.since \in Nat \cup {Nothing}
      /\ b.proven \in Nat /\ b.open \in Nat \cup {Nothing}
      /\ q.credit <= QualifyTime /\ q.credit <= b.proven + Excused(b)
      /\ b.spells \in Nat /\ MaxGap \in Nat /\ QualifyTime \in Nat
  BY SensorChainConstants DEF Quals, Bands, Credited
<1>2. /\ c \in Bands /\ ~c.dropped /\ c.spells = b.spells
      /\ c.open = IF seen THEN 0 ELSE Nothing
      /\ \/ c.proven = b.proven
         \/ b.open # Nothing /\ c.proven = MinOf(b.proven + b.open, QualifyTime)
      /\ seen /\ b.open # Nothing =>
           c.proven = MinOf(b.proven + b.open, QualifyTime)
  BY JudgedFacts
<1> HIDE DEF c
<1>3. /\ Excused(b) \in Nat /\ Excused(c) = Excused(b) /\ c.proven \in Nat
      /\ \A n \in Nat : /\ n <= QualifyTime
                        /\ n <= b.proven + Excused(b)
                        => n <= c.proven + Excused(c)
  <2>1. Excused(b) \in Nat /\ Excused(c) = Excused(b) /\ c.proven \in Nat
    BY <1>1, <1>2, ExcusedFacts DEF Excused, Bands
  <2>2. ASSUME NEW n \in Nat, n <= QualifyTime, n <= b.proven + Excused(b)
        PROVE  n <= c.proven + Excused(c)
    BY <1>1, <1>2, <2>2, StillCovered
  <2> QED
    BY <2>1, <2>2
<1>4. CASE r = NoEpisode
  <2>1. NextBand(b, r, seen, FALSE) = NoBand
    BY <1>4, NewEpisode DEF NextBand
  <2> QED
    BY <1>4, <2>1, NewEpisode
<1>5. CASE /\ r = InBand(q) /\ seen
           /\ ~(q.since # Nothing /\ q.since > MaxGap)
  <2>1. /\ q.active /\ q.grace = Nothing => q.since # Nothing
        /\ q.active /\ q.grace = Nothing /\ ~b.dropped =>
             /\ b.open # Nothing
             /\ q.since <= MaxGap => MinOf(q.since, QualifyTime) <= b.open
        /\ b.dropped => q.credit + MaxGap <= b.proven + Excused(b)
    BY DEF Credited
  <2>2. /\ r \in Quals /\ r.active /\ r.grace = Nothing /\ r.since = 0
        /\ \/ r.credit = 0
           \/ r.credit = q.credit
           \/ /\ q.active /\ q.grace = Nothing
              /\ r.credit = MinOf(q.credit + q.since, QualifyTime)
    BY <1>5, <2>1, InBandCases
  <2>3. r.credit <= QualifyTime /\ r.credit <= c.proven + Excused(c)
    <3>1. CASE r.credit = 0
      BY <1>1, <1>3, <3>1
    <3>2. CASE r.credit = q.credit
      BY <1>1, <1>3, <3>2
    <3>3. CASE /\ q.active /\ q.grace = Nothing
               /\ r.credit = MinOf(q.credit + q.since, QualifyTime)
      <4>1. q.since \in Nat /\ q.since <= MaxGap
        BY <1>1, <1>5, <2>1, <3>3
      <4>2. CASE b.dropped
        <5>1. /\ r.credit \in Nat /\ r.credit <= QualifyTime
              /\ r.credit <= q.credit + MaxGap
          BY <1>1, <3>3, <4>1 DEF MinOf
        <5>2. r.credit <= b.proven + Excused(b)
          BY <1>1, <1>3, <2>1, <4>2, <5>1
        <5> QED
          BY <1>3, <5>1, <5>2
      <4>3. CASE ~b.dropped
        <5>1. /\ b.open \in Nat /\ MinOf(q.since, QualifyTime) <= b.open
              /\ c.proven = MinOf(b.proven + b.open, QualifyTime)
          BY <1>1, <1>2, <1>5, <2>1, <3>3, <4>1, <4>3
        <5> QED
          BY <1>1, <1>3, <3>3, <4>1, <5>1 DEF MinOf
      <4> QED
        BY <4>2, <4>3
    <3> QED
      BY <2>2, <3>1, <3>2, <3>3
  <2>4. 0 # Nothing /\ MinOf(0, QualifyTime) <= 0
    BY <1>1, SensorChainNothing DEF MinOf
  <2>5. Credited(r, c)
    BY <1>2, <1>5, <2>2, <2>3, <2>4 DEF Credited
  <2>6. NextBand(b, r, seen, FALSE) = c
    BY <2>2 DEF NextBand, c
  <2> QED
    BY <1>2, <2>2, <2>5, <2>6
<1>6. CASE r = OutsideBand(q) /\ r # NoEpisode
  <2>1. r \in Quals /\ r.active /\ r.grace # Nothing /\ r.credit = q.credit
    <3>1. ~q.active => q.grace = Nothing
      BY DEF Credited
    <3> QED
      BY <1>6, <3>1, OutsideBandCases
  <2>2. Credited(r, c)
    BY <1>1, <1>2, <1>3, <2>1 DEF Credited
  <2>3. NextBand(b, r, seen, FALSE) = c
    BY <2>1 DEF NextBand, c
  <2> QED
    BY <1>2, <2>1, <2>2, <2>3
<1>7. \/ r = NoEpisode
      \/ /\ ~(q.since # Nothing /\ q.since > MaxGap)
         /\ seen /\ r = InBand(q)
      \/ r = OutsideBand(q)
  BY DEF EvaluatedTarget
<1> QED
  BY <1>4, <1>5, <1>6, <1>7

\* A discarded evaluation leaves the evaluator alone, and room for the time
\* up to the next one that is applied.
LEMMA DiscardedCredited ==
  ASSUME NEW q \in Quals, NEW b \in Bands, Credited(q, b),
         NEW seen \in BOOLEAN
  PROVE  NextBand(b, q, seen, TRUE) \in Bands
           /\ Credited(q, NextBand(b, q, seen, TRUE))
<1> DEFINE c == Judged(b, seen, TRUE)
<1>1. CASE ~q.active
  <2>1. NextBand(b, q, seen, TRUE) = NoBand
    BY <1>1 DEF NextBand
  <2>2. /\ q.credit = 0 /\ NoBand.proven \in Nat /\ ~NoBand.dropped
        /\ Excused(NoBand) \in Nat
    BY <1>1, NewEpisode, ExcusedFacts DEF Credited, NoBand, Excused
  <2>3. Credited(q, NoBand)
    BY <1>1, <2>2, SensorChainConstants DEF Credited
  <2> QED
    BY <2>1, <2>3, NewEpisode
<1>2. CASE q.active
  <2>1. /\ c \in Bands /\ c.dropped
        /\ \/ c.proven = b.proven
           \/ /\ b.open # Nothing
              /\ c.proven = MinOf(b.proven + b.open, QualifyTime)
        /\ c.spells = IF ~b.dropped THEN b.spells + 1 ELSE b.spells
    <3>1. PICK lost \in BOOLEAN : lost = TRUE
      OBVIOUS
    <3> DEFINE d == Judged(b, seen, lost)
    <3>2. /\ d \in Bands /\ d.dropped = lost
          /\ \/ d.proven = b.proven
             \/ /\ b.open # Nothing
                /\ d.proven = MinOf(b.proven + b.open, QualifyTime)
          /\ d.spells = IF lost /\ ~b.dropped THEN b.spells + 1 ELSE b.spells
      BY JudgedFacts
    <3>3. d = c
      BY <3>1
    <3> HIDE DEF c, d
    <3> QED
      BY <3>1, <3>2, <3>3
  <2> HIDE DEF c
  <2>2. /\ q.credit \in Nat /\ q.credit <= QualifyTime
        /\ q.credit <= b.proven + Excused(b)
        /\ b.dropped => b.spells > 0 /\ q.credit + MaxGap <= b.proven + Excused(b)
        /\ q.active /\ q.grace = Nothing => q.since # Nothing
        /\ b.spells \in Nat /\ c.spells \in Nat /\ c.proven \in Nat
    BY <2>1 DEF Quals, Bands, Credited
  <2>3. c.spells >= b.spells
    BY <2>1, <2>2
  <2>4. /\ Excused(b) \in Nat /\ Excused(c) \in Nat
        /\ q.credit <= c.proven + Excused(c)
        /\ c.spells = b.spells /\ b.spells > 0
             /\ q.credit + MaxGap <= b.proven + Excused(b)
           => q.credit + MaxGap <= c.proven + Excused(c)
        /\ c.spells = b.spells + 1 => q.credit + MaxGap <= c.proven + Excused(c)
    BY <2>1, <2>2, <2>3, StillCovered
  <2>5. c.spells > 0 /\ q.credit + MaxGap <= c.proven + Excused(c)
    BY <2>1, <2>2, <2>4
  <2>6. Credited(q, c)
    BY <1>2, <2>1, <2>2, <2>4, <2>5 DEF Credited
  <2>7. NextBand(b, q, seen, TRUE) = c
    BY <1>2 DEF NextBand, c
  <2> QED
    BY <2>1, <2>6, <2>7
<1> QED
  BY <1>1, <1>2 DEF Quals

\* A poll of the target evaluates it; the others leave it alone.
LEMMA PollQualified ==
  ASSUME Qualified, NEW ch \in Watched, NEW inBand \in BOOLEAN,
         NEW outcome \in Outcomes, MCPoll(ch, inBand, outcome)
  PROVE  Qualified'
<1>1. qual \in Quals /\ band \in Bands /\ Credited(qual, band)
  BY DEF Qualified
<1>2. CASE ch # Target
  <2>1. qual' = qual /\ band' = band
    BY <1>2 DEF MCPoll, Poll
  <2> QED
    BY <1>1, <2>1 DEF Qualified
<1>3. CASE ch = Target
  <2> DEFINE p == pipe'[ch]
             seen == inBand /\ Usable(p)
  <2>1. /\ qual' = QualifiedBy(qual, p, inBand, outcome)
        /\ band' = NextBand(band, qual', seen, outcome = "discarded")
    BY <1>3 DEF MCPoll, Poll, NextBand
  <2>2. seen \in BOOLEAN /\ (seen <=> inBand /\ Usable(p))
    BY DEF Usable
  <2> HIDE DEF p, seen
  <2>3. CASE outcome = "applied"
    <3>1. /\ qual' = EvaluatedTarget(qual, p, inBand)
          /\ band' = NextBand(band, qual', seen, FALSE)
      BY <2>1, <2>3 DEF QualifiedBy
    <3> QED
      BY <1>1, <2>2, <3>1, AppliedCredited DEF Qualified
  <2>4. CASE outcome = "left"
    <3>1. qual' = NoEpisode
      BY <2>1, <2>4 DEF QualifiedBy
    <3>2. band' = NoBand
      BY <2>1, <3>1, NewEpisode DEF NextBand
    <3> QED
      BY <3>1, <3>2, NewEpisode DEF Qualified
  <2>5. CASE outcome = "discarded"
    <3>1. qual' = qual /\ band' = NextBand(band, qual, seen, TRUE)
      BY <2>1, <2>5 DEF QualifiedBy
    <3> QED
      BY <1>1, <2>2, <3>1, DiscardedCredited DEF Qualified
  <2> QED
    BY <2>3, <2>4, <2>5 DEF Outcomes
<1> QED
  BY <1>2, <1>3

\* A tick makes the time since the last evaluation one longer, in the
\* evaluator as in the band.
LEMMA TickQualified ==
  ASSUME Qualified, MCTick
  PROVE  Qualified'
<1> DEFINE since == IF qual.since = Nothing THEN Nothing
                    ELSE Older(qual.since, MaxGap + 1)
           grace == IF qual.grace = Nothing THEN Nothing
                    ELSE Older(qual.grace, Grace)
           open == IF band.open = Nothing THEN Nothing
                   ELSE Older(band.open, QualifyTime)
<1>1. qual \in Quals /\ band \in Bands /\ Credited(qual, band)
  BY DEF Qualified
<1>2. /\ qual.since \in Nat \cup {Nothing} /\ qual.credit \in Nat
      /\ qual.grace \in Nat \cup {Nothing} /\ qual.active \in BOOLEAN
      /\ band.open \in Nat \cup {Nothing} /\ band.proven \in Nat
  BY <1>1 DEF Quals, Bands
<1>3. /\ qual' = [qual EXCEPT !.since = since, !.grace = grace]
      /\ band' = [band EXCEPT !.open = open]
  BY DEF MCTick, ChainTick, AgedQual
<1>4. /\ since \in Nat \cup {Nothing} /\ grace \in Nat \cup {Nothing}
      /\ open \in Nat \cup {Nothing}
  BY <1>2, SensorChainConstants DEF Older, MinOf
<1>5. /\ qual.grace = Nothing <=> grace = Nothing
      /\ qual.since # Nothing => since # Nothing
      /\ band.open # Nothing => open # Nothing
  <2>1. \A n, cap \in Nat : Older(n, cap) \in Nat
    BY DEF Older, MinOf
  <2>2. Nothing \notin Nat
    BY SensorChainNothing
  <2>3. MaxGap + 1 \in Nat /\ Grace \in Nat /\ QualifyTime \in Nat
    BY SensorChainConstants
  <2> HIDE DEF Older
  <2>4. qual.grace = Nothing <=> grace = Nothing
    <3>1. CASE qual.grace = Nothing
      BY <3>1
    <3>2. CASE qual.grace # Nothing
      <4>1. grace = Older(qual.grace, Grace) /\ qual.grace \in Nat
        BY <1>2, <3>2
      <4> HIDE DEF grace
      <4> QED
        BY <2>1, <2>2, <2>3, <3>2, <4>1
    <3> QED
      BY <3>1, <3>2
  <2>5. qual.since # Nothing => since # Nothing
    <3> SUFFICES ASSUME qual.since # Nothing
                 PROVE  since # Nothing
      OBVIOUS
    <3>1. since = Older(qual.since, MaxGap + 1) /\ qual.since \in Nat
      BY <1>2
    <3> HIDE DEF since
    <3> QED
      BY <2>1, <2>2, <2>3, <3>1
  <2>6. band.open # Nothing => open # Nothing
    <3> SUFFICES ASSUME band.open # Nothing
                 PROVE  open # Nothing
      OBVIOUS
    <3>1. open = Older(band.open, QualifyTime) /\ band.open \in Nat
      BY <1>2
    <3> HIDE DEF open
    <3> QED
      BY <2>1, <2>2, <2>3, <3>1
  <2> QED
    BY <2>4, <2>5, <2>6
<1>6. ASSUME qual.since # Nothing, band.open # Nothing, since <= MaxGap,
             qual.since <= MaxGap =>
               MinOf(qual.since, QualifyTime) <= band.open
      PROVE  MinOf(since, QualifyTime) <= open
  <2>1. /\ qual.since \in Nat /\ band.open \in Nat
        /\ since = MinOf(qual.since + 1, MaxGap + 1)
        /\ open = MinOf(band.open + 1, QualifyTime)
    BY <1>2, <1>6 DEF Older
  <2> HIDE DEF since, open
  <2> QED
    BY <1>6, <2>1, SensorChainConstants DEF MinOf
<1> HIDE DEF since, grace, open
<1>7. /\ qual' \in Quals /\ qual'.active = qual.active
      /\ qual'.credit = qual.credit /\ qual'.since = since
      /\ qual'.grace = grace
      /\ band' \in Bands /\ band'.proven = band.proven /\ band'.open = open
      /\ band'.dropped = band.dropped /\ band'.spells = band.spells
  BY <1>1, <1>3, <1>4 DEF Quals, Bands
<1>8. Credited(qual', band')
  <2>1. Excused(band') = Excused(band)
    BY <1>7 DEF Excused
  <2>2. /\ qual'.credit <= QualifyTime
        /\ qual'.credit <= band'.proven + Excused(band')
    BY <1>1, <1>7, <2>1 DEF Credited
  <2>3. ~qual'.active => qual'.credit = 0 /\ qual'.grace = Nothing
    BY <1>1, <1>5, <1>7 DEF Credited
  <2>4. qual'.active /\ qual'.grace = Nothing => qual'.since # Nothing
    BY <1>1, <1>5, <1>7 DEF Credited
  <2>5. band'.dropped =>
          /\ band'.spells > 0
          /\ qual'.credit + MaxGap <= band'.proven + Excused(band')
    BY <1>1, <1>7, <2>1 DEF Credited
  <2>6. ASSUME qual'.active, qual'.grace = Nothing, ~band'.dropped
        PROVE  /\ band'.open # Nothing
               /\ qual'.since <= MaxGap =>
                    MinOf(qual'.since, QualifyTime) <= band'.open
    <3>1. /\ qual.since # Nothing /\ band.open # Nothing
          /\ qual.since <= MaxGap =>
               MinOf(qual.since, QualifyTime) <= band.open
      BY <1>1, <1>5, <1>7, <2>6 DEF Credited
    <3> QED
      BY <1>5, <1>6, <1>7, <3>1
  <2> QED
    BY <2>2, <2>3, <2>4, <2>5, <2>6 DEF Credited
<1> QED
  BY <1>7, <1>8 DEF Qualified

-----------------------------------------------------------------------------
(* The specification *)

\* The inductive invariant: the engine publishes in time, the pipelines and
\* the evaluator owe what they say to what they were given.
ChainInv == Sampling /\ Recovered /\ Qualified

\* The state before the first cycle: nothing was read and nothing accepted.
LEMMA ChainInitInv ==
  ASSUME MCInit
  PROVE  ChainInv
<1>1. /\ phase = "Idle" /\ cycleIn = 0 /\ readIn = 0
      /\ plan = NothingPlanned /\ lastSeen = Nothing
      /\ readings = [ch \in Channels |-> Failed(Nothing)]
      /\ plugged \subseteq Probes /\ temp \in Temps
  <2>1. \E p \in Probes : plugged = {p}
    BY DEF MCInit, ChainInit
  <2>2. temp = CHOOSE t \in Plausible : TRUE
    BY DEF MCInit, ChainInit
  <2>3. temp \in Temps
    BY <2>2, SensorChainConstants
  <2> QED
    BY <2>1, <2>3 DEF MCInit, ChainInit
<1>2. /\ Failed(Nothing) \in ReadingValues /\ Failed(Nothing).age = 0
      /\ ~Failed(Nothing).ok
  BY FailedType
<1>3. Sampling
  <2>1. EngineType
    BY <1>1, <1>2 DEF EngineType, NothingPlanned
  <2>2. Named
    BY <1>1, <1>2 DEF Named
  <2>3. \A ch \in Channels : readings[ch].age + cycleIn <= Longest
    BY <1>1, <1>2, LongestFacts
  <2>4. Timed
    BY <1>1, <2>3, LongestFacts DEF Timed
  <2> QED
    BY <2>1, <2>2, <2>4 DEF Sampling
<1>4. Recovered
  <2>1. /\ pipe = [ch \in Watched |-> EmptyPipe]
        /\ streak = [ch \in Watched |-> NoStreak]
    BY DEF MCInit, ChainInit
  <2>2. EmptyPipe \in Pipes /\ EmptyPipe.good = 0
    BY DEF EmptyPipe, Pipes
  <2>3. /\ NoStreak \in Streaks /\ NoStreak.count = 0
        /\ NoStreak.time = 0
    BY DEF NoStreak, Streaks
  <2>4. Earned(EmptyPipe, NoStreak) /\ Dated(EmptyPipe, NoStreak)
    BY <2>2, <2>3 DEF Earned, Dated
  <2> QED
    BY <2>1, <2>2, <2>3, <2>4 DEF Recovered
<1>5. Qualified
  BY NewEpisode DEF MCInit, ChainInit, Qualified
<1> QED
  BY <1>3, <1>4, <1>5 DEF ChainInv

\* Every step keeps the invariant.
LEMMA ChainNextInv ==
  ASSUME ChainInv, [MCNext]_mcvars
  PROVE  ChainInv'
<1>1. Sampling /\ Recovered /\ Qualified
  BY DEF ChainInv
<1>2. CASE BeginCycle /\ Same
  <2>1. Sampling'
    BY <1>1, <1>2, BeginSampling
  <2>2. UNCHANGED <<pipe, qual, streak, band>>
    BY <1>2 DEF BeginCycle, Same
  <2> QED
    BY <1>1, <2>1, <2>2 DEF ChainInv, Recovered, Qualified
<1>3. CASE FinishCycle /\ Same
  <2>1. Sampling'
    BY <1>1, <1>3, FinishSampling
  <2>2. UNCHANGED <<pipe, qual, streak, band>>
    BY <1>3 DEF FinishCycle, Same
  <2> QED
    BY <1>1, <2>1, <2>2 DEF ChainInv, Recovered, Qualified
<1>4. CASE (Plug \/ Jump) /\ Same
  <2>1. /\ UNCHANGED <<engine, pipe, qual, streak, band>>
        /\ plugged' \subseteq Probes /\ temp' \in Temps
    BY <1>1, <1>4 DEF Plug, Jump, Same, Sampling, EngineType
  <2>2. Sampling'
    BY <1>1, <2>1 DEF Sampling, EngineType, Named, Timed, engine
  <2> QED
    BY <1>1, <2>1, <2>2 DEF ChainInv, Recovered, Qualified
<1>5. ASSUME NEW ch \in Watched, NEW inBand \in BOOLEAN,
             NEW outcome \in Outcomes, MCPoll(ch, inBand, outcome)
      PROVE  ChainInv'
  <2>1. UNCHANGED <<world, engine>>
    BY <1>5 DEF MCPoll, Poll
  <2>2. Sampling'
    BY <1>1, <2>1 DEF Sampling, EngineType, Named, Timed, engine, world
  <2> QED
    BY <1>1, <1>5, <2>2, PollRecovered, PollQualified DEF ChainInv
<1>6. CASE ResetQualification /\ band' = NoBand /\ UNCHANGED streak
  <2>1. /\ qual' = NoEpisode /\ band' = NoBand
        /\ UNCHANGED <<world, engine, pipe, streak>>
    BY <1>6 DEF ResetQualification
  <2>2. Sampling'
    BY <1>1, <2>1 DEF Sampling, EngineType, Named, Timed, engine, world
  <2>3. Qualified'
    BY <2>1, NewEpisode DEF Qualified
  <2> QED
    BY <1>1, <2>1, <2>2, <2>3 DEF ChainInv, Recovered
<1>7. CASE MCTick
  <2>1. ChainTick
    BY <1>7 DEF MCTick
  <2> QED
    BY <1>1, <1>7, <2>1, TickSampling, TickRecovered, TickQualified
    DEF ChainInv
<1>8. CASE UNCHANGED mcvars
  BY <1>1, <1>8 DEF ChainInv, Sampling, EngineType, Named, Timed, Recovered,
                    Qualified, mcvars, chainVars, engine, world
<1> QED
  BY <1>2, <1>3, <1>4, <1>5, <1>6, <1>7, <1>8 DEF MCNext, Step

\* The invariant the properties of the chain from the buses to the
\* qualified target follow from.
THEOREM ChainInvariant == MCSpec => []ChainInv
<1>1. MCInit => ChainInv
  BY ChainInitInv
<1>2. ChainInv /\ [MCNext]_mcvars => ChainInv'
  BY ChainNextInv
<1> QED
  BY <1>1, <1>2, PTL DEF MCSpec

\* However late the sampler task runs and whatever fails on the buses, no
\* published reading outlives the cycle after it.
THEOREM ChainReadingNeverOld == MCSpec => []ReadingNeverOld
<1>1. ChainInv => ReadingNeverOld
  BY SamplingYoung DEF ChainInv
<1> QED
  BY <1>1, ChainInvariant, PTL

\* A channel is Valid only on enough plausible samples in a row, of one
\* probe, over the whole stability time and with the last one not stale.
THEOREM ChainValidProven == MCSpec => []ValidProven
<1>1. ChainInv => ValidProven
  BY RecoveredProven DEF ChainInv
<1> QED
  BY <1>1, ChainInvariant, PTL

\* The target is credited the time between two evaluations in the band, and
\* beyond it no more than MaxGap for a spell of evaluations whose transition
\* could not be stored.
THEOREM ChainCreditProven == MCSpec => []CreditProven
<1>1. ChainInv => CreditProven
  BY DEF ChainInv, Qualified, Credited, Excused, CreditProven
<1> QED
  BY <1>1, ChainInvariant, PTL

=============================================================================
