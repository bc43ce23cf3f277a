--------------------------- MODULE MCSensorChain ---------------------------
(***************************************************************************)
(* SensorChain on a small instance, with a record of the good samples a    *)
(* pipeline accepted in a row and of the time a target was in its band.    *)
(***************************************************************************)
EXTENDS SensorChain, TLC

\* The probes can be exchanged for one another.
ProbeSymmetry == Permutations(Probes)

VARIABLES
  streak, \* channel -> the plausible samples accepted in a row, of one ROM and
          \* with no silence between: how many, over which time, how long ago
  band    \* of the episode: proven: time between two evaluations that both
          \* found the target in its band; open: time since the last one, or
          \* Nothing when it did not; dropped: whether the last one was
          \* discarded; spells: how often discarded ones stood between

mcvars == <<chainVars, streak, band>>

NoBand == [proven |-> 0, open |-> Nothing, dropped |-> FALSE, spells |-> 0]

NoStreak == [rom |-> Nothing, count |-> 0, time |-> 0, age |-> 0]

MCInit == ChainInit /\ streak = [ch \in Watched |-> NoStreak] /\ band = NoBand

Longer(k, s) ==
  IF ~s.ok \/ s.temp \notin Plausible THEN NoStreak
  ELSE IF k.count > 0 /\ k.rom = s.rom /\ k.age <= MaxStaleAge
  THEN [k EXCEPT !.count = MinOf(@ + 1, MinValid),
                 !.time = MinOf(@ + k.age - s.age, MinStable), !.age = s.age]
  ELSE [rom |-> s.rom, count |-> 1, time |-> 0, age |-> s.age]

Same == UNCHANGED <<streak, band>>

\* An evaluation counts here whether the evaluator kept it or not.
Judged(b, seen, lost) ==
  [proven |-> IF seen /\ b.open # Nothing THEN MinOf(b.proven + b.open, QualifyTime)
              ELSE b.proven,
   open |-> IF seen THEN 0 ELSE Nothing,
   dropped |-> lost,
   spells |-> IF lost /\ ~b.dropped THEN b.spells + 1 ELSE b.spells]

MCPoll(ch, inBand, outcome) ==
  /\ Poll(ch, inBand, outcome)
  /\ streak' = IF pipe[ch].acc = Nothing \/ readings[ch].age < pipe[ch].acc.age
               THEN [streak EXCEPT ![ch] = Longer(@, readings[ch])] ELSE streak
  /\ band' = IF ch # Target THEN band
             ELSE IF ~qual'.active THEN NoBand
             ELSE Judged(band, inBand /\ Usable(pipe'[ch]), outcome = "discarded")

MCTick ==
  /\ ChainTick
  /\ streak' = [ch \in Watched |->
                  [streak[ch] EXCEPT !.age = IF streak[ch].count = 0 THEN 0
                                             ELSE Older(@, MaxStaleAge + 1)]]
  /\ band' = [band EXCEPT !.open = IF @ = Nothing THEN Nothing ELSE Older(@, QualifyTime)]

MCNext ==
  \/ Step /\ Same
  \/ (Plug \/ Jump) /\ Same
  \/ \E ch \in Watched, inBand \in BOOLEAN, outcome \in Outcomes :
       MCPoll(ch, inBand, outcome)
  \/ ResetQualification /\ band' = NoBand /\ UNCHANGED streak
  \/ MCTick

MCSpec == MCInit /\ [][MCNext]_mcvars

-----------------------------------------------------------------------------
(* Properties *)

\* Every path through a cycle, with every bus fault, publishes every channel:
\* no reading outlives the cycle after it, however late the task runs, so a
\* dead bus is never seen as an old good temperature.
ReadingNeverOld ==
  \A ch \in Channels : readings[ch].age <= ReadingAgeMax

\* A channel is Valid only after MinValid plausible samples in a row, all of
\* one probe, that lasted MinStable and of which the last is not stale: no
\* sample from before a silence, a fault or an exchanged probe counts.
ValidProven ==
  \A ch \in Watched : Quality(pipe[ch]) = "Valid" =>
    /\ streak[ch].count >= MinValid
    /\ streak[ch].time >= MinStable
    /\ streak[ch].age <= MaxStaleAge
    /\ streak[ch].rom = SnapshotRom(pipe[ch])

\* The evaluator credits the time between evaluations that both found the
\* target in its band: not that of an excursion, of a gap or of an episode
\* before.  Where the evaluations that saw an excursion were discarded, their
\* reset could not be stored for one, the evaluator does not know of it; yet
\* every such spell is credited with no more than MaxGap.
CreditProven == qual.credit <= band.proven + MaxGap * band.spells

=============================================================================
