----------------------------- MODULE DeadlineLadder -----------------------------
(***************************************************************************)
(* The deadline-driven degradation ladder of the frame generator.          *)
(*                                                                         *)
(* Rung 0 is the configured pipeline; every higher rung sheds work.  Each  *)
(* generating decision measures the cost of the rung it runs, sheds work   *)
(* when the cost does not fit, and climbs back after a long run of         *)
(* headroom.  Three decision sites share the state: the causal one-slot    *)
(* planner of a dedicated queue, the reactive one, and the VRR midpoint    *)
(* planner, which is taken whenever the connector is in VRR.               *)
(*                                                                         *)
(* Times are small integers.  A budget is what is left after               *)
(* k_uDeadlinePercent was applied.  One cost stands for the cost keys of a *)
(* rung (work class, generated count), and the moving average is a choice  *)
(* between the old cost and the new one.                                   *)
(***************************************************************************)
EXTENDS Integers, FiniteSets

CONSTANTS
  MaxRung,         \* max_degrade_steps of the configured multiplier
  CausalMaxRung,   \* max_degrade_steps of multiplier 2: no multiplier rungs
  HoldFrames,      \* k_uDeadlineHoldFrames
  MinSamples,      \* k_uDeadlineMinSamples
  MissWindow,      \* k_uDeadlineMissWindowDecisions
  Headroom,        \* k_uDeadlineRecoveryHeadroomDecisions
  BaseBackoff,     \* k_uDeadlineRecoveryBaseBackoffDecisions
  MaxBackoff,      \* k_uDeadlineRecoveryMaxBackoffDecisions
  Probation,       \* k_uDeadlineRecoveryProbationDecisions
  KnownPercent,    \* k_uDeadlineRecoveryKnownHeadroomPercent
  ColdPercent,     \* k_uDeadlineRecoveryColdHeadroomPercent
  Costs,           \* the GPU times a batch can take
  Budgets,         \* the remaining budgets a decision can meet
  SlotBudget,      \* the budget of a whole refresh slot
  Causal,          \* framegen_causal_deadline_enabled: static
  Native,          \* OwnsKMSPresentTiming: static
  Recover,         \* framegen_recovery_enabled: static
  VrrConfigured,   \* framegen_vrr_hybrid_configured: static
  MaxShifts,       \* bound: changes of the GPU load
  MaxMisses,       \* bound: presents that find their batch unfinished
  MaxScenes        \* bound: invalidations of the history

ASSUME RungAssumption ==
  MaxRung \in Nat /\ CausalMaxRung \in Nat /\ CausalMaxRung <= MaxRung
ASSUME WindowAssumption ==
  /\ HoldFrames \in Nat /\ MinSamples \in Nat \ {0} /\ Headroom \in Nat \ {0}
  /\ MissWindow \in Nat \ {0, 1} /\ Probation \in Nat
ASSUME BackoffAssumption ==
  BaseBackoff \in Nat /\ MaxBackoff \in Nat /\ BaseBackoff <= MaxBackoff
ASSUME TimeAssumption ==
  /\ Costs \subseteq Nat \ {0} /\ Budgets \subseteq Nat /\ SlotBudget \in Nat \ {0}
  /\ KnownPercent \in Nat /\ ColdPercent \in Nat
ASSUME FlagAssumption ==
  /\ Causal \in BOOLEAN /\ Native \in BOOLEAN
  /\ Recover \in BOOLEAN /\ VrrConfigured \in BOOLEAN
ASSUME BoundAssumption ==
  MaxShifts \in Nat /\ MaxMisses \in Nat /\ MaxScenes \in Nat

VARIABLES
  rung,      \* nDegradeSteps
  hold,      \* nDegradeHold
  rec,       \* recovery: streak, backoff, probation, since
  missed,    \* bCausalDeadlineMissed
  misses,    \* causalDeadlineMisses: the ages of the misses in the window
  hitch,     \* bPresentBiasHitchEpisode
  cost,      \* m_aFramegenRungCostNs and m_aFramegenRungSamples, per rung
  batch,     \* the last batch: its rung, still running, its query kept, its
             \* frame still pending, the frame anchored to a real frame
  vrr,       \* the connector is in VRR
  load,      \* what a batch of a rung takes on the GPU now
  bounds,    \* shifts, misses and scenes so far
  probed,    \* history: the rungs a batch was submitted on in this scene
  age        \* history: decisions since the rung last moved, up to MaxBackoff

vars == <<rung, hold, rec, missed, misses, hitch, cost, batch, vrr, load, bounds,
          probed, age>>

Rungs == 0 .. MaxRung
Lesser(a, b) == IF a <= b THEN a ELSE b
Greater(a, b) == IF a <= b THEN b ELSE a
SinceCap == MaxBackoff + 1   \* stands for UINT32_MAX: no back-off is longer

NoRecovery == [streak |-> 0, backoff |-> BaseBackoff, probation |-> 0, since |-> 0]
Unmeasured == [ns |-> 0, samples |-> 0]
NoBatch == [rung |-> 0, running |-> FALSE, timed |-> FALSE, queued |-> FALSE,
            anchored |-> FALSE]

Init == /\ rung = 0 /\ hold = 0 /\ rec = NoRecovery
        /\ missed = FALSE /\ misses = {} /\ hitch = FALSE
        /\ cost = [r \in Rungs |-> Unmeasured]
        /\ batch = NoBatch
        /\ vrr = FALSE
        /\ load \in [Rungs -> Costs]
        /\ bounds = [shifts |-> 0, misses |-> 0, scenes |-> 0]
        /\ probed = {} /\ age = 0

-----------------------------------------------------------------------------
(* The pure controller of scheduling.hpp.                                   *)

Mature(r) == cost[r].ns # 0 /\ cost[r].samples >= MinSamples
Fits(r, budget) == ~Mature(r) \/ cost[r].ns <= budget

\* Fault: a successful probation halves the back-off below its base.
AdvancedNoFloor(rc, admitted) ==
  LET left == Greater(rc.probation - 1, 0)
      survived == rc.probation = 1 /\ admitted IN
  [rc EXCEPT !.since = Lesser(rc.since + 1, SinceCap),
             !.probation = left,
             !.backoff = IF survived THEN rc.backoff \div 2 ELSE rc.backoff]

Advanced(rc, admitted) ==
  LET left == Greater(rc.probation - 1, 0)
      survived == rc.probation = 1 /\ admitted IN
  [rc EXCEPT !.since = Lesser(rc.since + 1, SinceCap),
             !.probation = left,
             !.backoff = IF survived THEN Greater(BaseBackoff, rc.backoff \div 2)
                                     ELSE rc.backoff]

Failed(rc) == [Advanced(rc, FALSE) EXCEPT !.streak = 0]

Doubled(b) == IF b >= MaxBackoff \div 2 THEN MaxBackoff ELSE b * 2
AfterProbe(rc) == IF rc.probation > 0 THEN Doubled(rc.backoff) ELSE rc.backoff

\* Fault: a degradation does not restart the back-off.
DegradedNoRestart(rc) ==
  [rc EXCEPT !.backoff = AfterProbe(rc), !.probation = 0]

Degraded(rc) ==
  [rc EXCEPT !.backoff = AfterProbe(rc), !.streak = 0, !.probation = 0, !.since = 0]

Climbed(rc) == [rc EXCEPT !.streak = 0, !.probation = Probation, !.since = 0]

CountsMiss == missed /\ ~hitch
Window == {a + 1 : a \in {b \in misses : b + 1 < MissWindow}}
            \union (IF CountsMiss THEN {0} ELSE {})

\* evaluate_deadline_miss_hysteresis: does the miss before this decision degrade?
MissDegrades(r) ==
  IF Native
  THEN /\ CountsMiss
       /\ (Mature(r) /\ cost[r].ns > SlotBudget) \/ Cardinality(Window) >= 2
  ELSE missed

HasHeadroom(r, richer, budget) ==
  /\ Mature(r) /\ budget # 0
  /\ IF richer.ns # 0 /\ richer.samples >= MinSamples
     THEN richer.ns <= budget /\ cost[r].ns * 100 <= budget * KnownPercent
     ELSE cost[r].ns * 100 <= budget * ColdPercent

MatureRicher(r) == {q \in 0 .. r - 1 : Mature(q)}
FittingRicher(r, budget) == {q \in MatureRicher(r) : cost[q].ns <= budget}
Richest(S) == CHOOSE q \in S : \A s \in S : q <= s

\* Fault: the adjacent rung is probed although it was measured too expensive.
RecoveryTargetBlind(r, budget) ==
  IF r = 0 THEN [rung |-> 0, richer |-> Unmeasured]
  ELSE [rung |-> r - 1, richer |-> Unmeasured]

\* select_ladder_recovery_target: the rung to climb to and the evidence for it.
RecoveryTarget(r, budget) ==
  IF FittingRicher(r, budget) # {}
  THEN LET q == Richest(FittingRicher(r, budget)) IN [rung |-> q, richer |-> cost[q]]
  ELSE IF MatureRicher(r) # {}
       THEN [rung |-> r, richer |-> cost[Richest(MatureRicher(r))]]
       ELSE IF r > 0 THEN [rung |-> r - 1, richer |-> cost[r - 1]]
            ELSE [rung |-> 0, richer |-> Unmeasured]

\* evaluate_ladder_recovery, its new state and its verdict.
Evaluated(r, budget) ==
  LET next == Advanced(rec, TRUE) IN
  IF r # 0 /\ HasHeadroom(r, RecoveryTarget(r, budget).richer, budget)
  THEN [next EXCEPT !.streak = Lesser(next.streak + 1, Headroom)]
  ELSE [next EXCEPT !.streak = 0]

\* Fault: a climb does not wait for the post-degradation hold.
MayClimbHeld(r, h, budget) ==
  LET next == Evaluated(r, budget) IN
  /\ next.streak >= Headroom /\ next.probation = 0
  /\ RecoveryTarget(r, budget).rung < r

MayClimb(r, h, budget) ==
  LET next == Evaluated(r, budget) IN
  /\ next.streak >= Headroom /\ h = 0 /\ next.probation = 0
  /\ next.since >= next.backoff
  /\ RecoveryTarget(r, budget).rung < r

-----------------------------------------------------------------------------
(* Decisions.  An outcome fixes the rung, the hold and the recovery state.  *)

Keeps(r, h, rc) == rung' = r /\ hold' = h /\ rec' = rc

\* framegen_submit_planned: the batch is timed under the rung it runs on.
Submits(r, anchored) ==
  /\ batch' = [rung |-> r, running |-> TRUE, timed |-> TRUE, queued |-> TRUE,
               anchored |-> anchored]
  /\ probed' = probed \union {r}
SubmitsNothing == UNCHANGED <<batch, probed>>

Notes(rc) == IF Recover THEN rc ELSE rec

\* What every decision leaves to the history variables.
Decided == /\ age' = IF rung' # rung THEN 0 ELSE Lesser(age + 1, MaxBackoff)
           /\ UNCHANGED <<hitch, cost, vrr, load, bounds>>

MissSkip(r) ==
  missed /\ ~MissDegrades(r) /\ Keeps(r, hold, rec) /\ SubmitsNothing

\* Only the early KMS commit makes the slot too short: p is the plain budget.
ReservationSkip(r, w, p) ==
  /\ ~missed /\ w < p /\ Mature(r) /\ cost[r].ns > w /\ cost[r].ns <= p
  /\ Keeps(r, hold, rec) /\ SubmitsNothing

\* Fault: an admitted decision does not drain the hold.
DrainedHoldStuck(submits) == hold

DrainedHold(submits) == IF submits THEN Greater(hold - 1, 0) ELSE hold

RecoveryBudget(w) == IF Native THEN SlotBudget ELSE w

\* The rung fits and stays.
Admit(r, w, submits) ==
  /\ ~missed /\ Fits(r, w)
  /\ ~(Recover /\ MayClimb(r, hold, RecoveryBudget(w)))
  /\ Keeps(r, DrainedHold(submits), Notes(Evaluated(r, RecoveryBudget(w))))
  /\ IF submits THEN Submits(r, TRUE) ELSE SubmitsNothing

\* The rung fits and its evidence carries the ladder to a richer one.
Climb(r, w, submits) ==
  LET richer == RecoveryTarget(r, RecoveryBudget(w)).rung IN
  /\ ~missed /\ Fits(r, w)
  /\ Recover /\ MayClimb(r, hold, RecoveryBudget(w))
  /\ Keeps(richer, hold, Climbed(Evaluated(r, RecoveryBudget(w))))
  /\ IF submits THEN Submits(richer, TRUE) ELSE SubmitsNothing

Short(r, w, p) == ~missed /\ ~Fits(r, w) /\ ~(w < p /\ cost[r].ns <= p)
PhaseOnly(r, w) == Native /\ cost[r].ns > w /\ cost[r].ns <= SlotBudget

PhaseSkip(r, w, p) ==
  Short(r, w, p) /\ PhaseOnly(r, w) /\ Keeps(r, hold, rec) /\ SubmitsNothing

HeldSkip(r, w, p) ==
  /\ Short(r, w, p) /\ ~PhaseOnly(r, w) /\ hold > 0
  /\ Keeps(r, hold - 1, Notes(Failed(rec))) /\ SubmitsNothing

OverCapacity(r, w, p) ==
  \/ missed /\ MissDegrades(r)
  \/ Short(r, w, p) /\ ~PhaseOnly(r, w) /\ hold = 0
Cheaper(r, w) == {q \in r + 1 .. CausalMaxRung : Fits(q, w)}

WalkDown(r, w, p, submits) ==
  /\ OverCapacity(r, w, p) /\ Cheaper(r, w) # {}
  /\ Keeps(Richest(Cheaper(r, w)), HoldFrames, Notes(Degraded(rec)))
  /\ IF submits THEN Submits(Richest(Cheaper(r, w)), TRUE) ELSE SubmitsNothing

SettleAtBottom(r, w, p) ==
  /\ OverCapacity(r, w, p) /\ Cheaper(r, w) = {}
  /\ Keeps(CausalMaxRung, 0, Notes(IF r < CausalMaxRung THEN Degraded(rec)
                                                       ELSE Failed(rec)))
  /\ SubmitsNothing

\* framegen_causal_submit once the planner admitted a slot; w is what is left
\* until its deadline, p what the ordinary compositor wake would leave.
CausalDecide(w, p, submits) ==
  /\ Causal /\ ~vrr /\ ~batch.running /\ ~batch.queued
  /\ w <= p /\ (~Native => w = p)
  /\ missed' = FALSE
  /\ misses' = IF Native THEN Window ELSE misses
  /\ LET r == Lesser(rung, CausalMaxRung) IN
     \/ MissSkip(r)
     \/ ReservationSkip(r, w, p)
     \/ Admit(r, w, submits)
     \/ Climb(r, w, submits)
     \/ PhaseSkip(r, w, p)
     \/ HeldSkip(r, w, p)
     \/ WalkDown(r, w, p, submits)
     \/ SettleAtBottom(r, w, p)
  /\ Decided

\* Fault: the hold is drained behind the gates instead of before them.
ReactiveHoldGated == IF Mature(rung) /\ rung < MaxRung /\ cost[rung].ns <= SlotBudget
                     THEN Greater(hold - 1, 0) ELSE hold

ReactiveHold == Greater(hold - 1, 0)

Overruns == /\ hold = 0 /\ rung < MaxRung
            /\ Mature(rung) /\ cost[rung].ns > SlotBudget

\* The next rung generates less, or differs in pipeline or mode.
Reducing(reduces) == reduces \/ rung < CausalMaxRung

ReactiveDegrade(reduces) ==
  /\ Overruns /\ Reducing(reduces)
  /\ Keeps(rung + 1, HoldFrames, Notes(Degraded(rec)))

ReactiveClimb(reduces) ==
  /\ ~(Overruns /\ Reducing(reduces)) /\ Recover
  /\ MayClimb(rung, hold, SlotBudget)
  /\ Keeps(RecoveryTarget(rung, SlotBudget).rung, ReactiveHold,
           Climbed(Evaluated(rung, SlotBudget)))

ReactiveKeep(reduces) ==
  /\ ~(Overruns /\ Reducing(reduces))
  /\ ~(Recover /\ MayClimb(rung, hold, SlotBudget))
  /\ Keeps(rung, ReactiveHold, Notes(Evaluated(rung, SlotBudget)))

\* The decision of record_real_frame on the path without causal deadlines.
ReactiveDecide(reduces, submits) ==
  /\ ~Causal /\ ~vrr /\ ~batch.running
  /\ \/ ReactiveDegrade(reduces)
     \/ ReactiveClimb(reduces)
     \/ ReactiveKeep(reduces)
  /\ IF submits THEN Submits(rung', FALSE) ELSE SubmitsNothing
  /\ Decided
  /\ UNCHANGED <<missed, misses>>

\* The rung walk of the VRR midpoint, from the flip feedback of a real frame.
Affordable(r, w) == {q \in r .. CausalMaxRung : Fits(q, w)}

VrrCancel(r, w) ==
  /\ Affordable(r, w) = {}
  /\ Keeps(r, hold, rec)
  /\ batch' = [batch EXCEPT !.queued = FALSE]
  /\ UNCHANGED probed

VrrWalk(r, w, submits) ==
  LET first == Richest(Affordable(r, w)) IN
  /\ Affordable(r, w) # {}
  /\ Keeps(first, IF first = r THEN hold ELSE HoldFrames, rec)
  /\ IF submits THEN Submits(first, TRUE) ELSE SubmitsNothing

VrrDecide(w, submits) ==
  LET r == Lesser(rung, CausalMaxRung) IN
  /\ vrr /\ ~batch.running
  /\ VrrCancel(r, w) \/ VrrWalk(r, w, submits)
  /\ Decided
  /\ UNCHANGED <<missed, misses>>

-----------------------------------------------------------------------------
(* What happens between decisions.                                          *)

History == <<probed, age>>

\* The batch completes and its timing is folded into the rung it ran on.
Finish(c) ==
  LET r == batch.rung IN
  /\ batch.running
  /\ Lesser(load[r], cost[r].ns) <= c \/ cost[r].ns = 0
  /\ c <= Greater(load[r], cost[r].ns)
  /\ cost[r].ns = 0 => c = load[r]
  /\ batch' = [batch EXCEPT !.running = FALSE, !.timed = FALSE]
  /\ cost' = IF batch.timed
             THEN [cost EXCEPT ![r] = [ns |-> c,
                                       samples |-> Lesser(@.samples + 1, MinSamples)]]
             ELSE cost
  /\ UNCHANGED <<rung, hold, rec, missed, misses, hitch, vrr, load, bounds, History>>

\* The generated frame is presented in time, or a real frame supersedes it.
Dequeue ==
  /\ batch.queued
  /\ batch' = [batch EXCEPT !.queued = FALSE]
  /\ UNCHANGED <<rung, hold, rec, missed, misses, hitch, cost, vrr, load, bounds,
                 History>>

NativeCausalPath == Causal /\ ~vrr /\ Native

\* generation_too_slow: its vblank comes while the batch is still running.
TooSlow ==
  /\ batch.queued /\ batch.running /\ bounds.misses < MaxMisses
  /\ batch' = [batch EXCEPT !.queued = FALSE]
  /\ missed' = (missed \/ batch.anchored)
  /\ rec' = IF NativeCausalPath \/ vrr THEN rec ELSE Notes([rec EXCEPT !.streak = 0])
  /\ bounds' = [bounds EXCEPT !.misses = @ + 1]
  /\ UNCHANGED <<rung, hold, misses, hitch, cost, vrr, load, History>>

\* Fault: a running batch of the old scene still reports its timing.
ForgottenBatchTimed == [batch EXCEPT !.queued = FALSE]

ForgottenBatch == [batch EXCEPT !.queued = FALSE, !.timed = FALSE]

\* vulkan_framegen_invalidate_history.
Invalidate(isHitch) ==
  /\ bounds.scenes < MaxScenes
  /\ rung' = 0 /\ hold' = 0 /\ rec' = NoRecovery
  /\ missed' = FALSE /\ misses' = {}
  /\ hitch' = (hitch \/ isHitch)
  /\ cost' = [r \in Rungs |-> Unmeasured]
  /\ batch' = ForgottenBatch
  /\ bounds' = [bounds EXCEPT !.scenes = @ + 1]
  /\ probed' = {} /\ age' = 0
  /\ UNCHANGED <<vrr, load>>

\* A matched flip feedback ends the hitch episode.
Feedback ==
  /\ hitch /\ hitch' = FALSE
  /\ UNCHANGED <<rung, hold, rec, missed, misses, cost, batch, vrr, load, bounds,
                 History>>

\* The connector enters or leaves VRR.
SwitchVrr ==
  /\ VrrConfigured /\ vrr' = ~vrr
  /\ UNCHANGED <<rung, hold, rec, missed, misses, hitch, cost, batch, load, bounds,
                 History>>

\* The GPU gets busier or idler.
Shift(r, c) ==
  /\ bounds.shifts < MaxShifts /\ load[r] # c
  /\ load' = [load EXCEPT ![r] = c]
  /\ bounds' = [bounds EXCEPT !.shifts = @ + 1]
  /\ UNCHANGED <<rung, hold, rec, missed, misses, hitch, cost, batch, vrr, History>>

Next == \/ \E w, p \in Budgets, submits \in BOOLEAN : CausalDecide(w, p, submits)
        \/ \E reduces, submits \in BOOLEAN : ReactiveDecide(reduces, submits)
        \/ \E w \in Budgets, submits \in BOOLEAN : VrrDecide(w, submits)
        \/ \E c \in Costs : Finish(c)
        \/ Dequeue
        \/ TooSlow
        \/ \E isHitch \in BOOLEAN : Invalidate(isHitch)
        \/ Feedback
        \/ SwitchVrr
        \/ \E r \in Rungs, c \in Costs : Shift(r, c)

Spec == Init /\ [][Next]_vars

\* The compositor keeps deciding with a whole slot ahead and a free output
\* image, the GPU completes what is submitted, the average converges.
FairSpec ==
  /\ Spec
  /\ SF_vars(CausalDecide(SlotBudget, SlotBudget, TRUE))
  /\ WF_vars(ReactiveDecide(TRUE, TRUE))
  /\ SF_vars(\E c \in Costs : c = load[batch.rung] /\ Finish(c))
  /\ WF_vars(Dequeue)

-----------------------------------------------------------------------------
(* Properties.                                                              *)

Recovery == [streak : 0 .. Headroom, backoff : BaseBackoff .. MaxBackoff,
             probation : 0 .. Probation, since : 0 .. SinceCap]
Batch == [rung : Rungs, running : BOOLEAN, timed : BOOLEAN, queued : BOOLEAN,
          anchored : BOOLEAN]

\* Every variable has its shape; the back-off stays between base and maximum
\* whatever sequence of probes succeeds and fails.
TypeOK ==
  /\ rung \in Rungs /\ hold \in 0 .. HoldFrames /\ rec \in Recovery
  /\ missed \in BOOLEAN /\ misses \subseteq 0 .. MissWindow - 1
  /\ hitch \in BOOLEAN /\ vrr \in BOOLEAN
  /\ cost \in [Rungs -> [ns : Costs \union {0}, samples : 0 .. MinSamples]]
  /\ batch \in Batch /\ load \in [Rungs -> Costs]
  /\ bounds \in [shifts : 0 .. MaxShifts, misses : 0 .. MaxMisses,
                  scenes : 0 .. MaxScenes]
  /\ probed \subseteq Rungs /\ age \in 0 .. MaxBackoff

\* No timing of an earlier scene seeds the ladder of this one: a rung has
\* samples only if a batch was submitted on it since the last invalidation.
MeasuredThisScene == \A r \in Rungs : cost[r].samples > 0 => r \in probed

SameScene == bounds'.scenes = bounds.scenes
Climbs == rung' < Lesser(rung, CausalMaxRung) /\ SameScene

\* After a degradation the rung stays or rises until the hold has drained,
\* whichever path decides.  A change of path may only cut off the multiplier
\* rungs, which a one-slot batch does not distinguish.
RungMonotoneInHold == [][hold > 0 /\ SameScene => rung' >= Lesser(rung, CausalMaxRung)]_vars

\* Every climb is separated from the last move of the rung, up or down, by
\* the back-off of this scene, the one a probation ending here leaves.
ClimbSeparated == [][Climbs => age + 1 >= rec'.backoff \/ age = MaxBackoff]_vars

\* The ladder never climbs onto a rung measured to exceed a whole slot.
ClimbFitsSlot == [][Climbs /\ (Native \/ ~Causal) => Fits(rung', SlotBudget)]_vars

\* An overrunning pipeline rung of the reactive path is left: the hold, the
\* recovery state and late batches cannot keep the ladder on it, unless the
\* VRR planner takes over.
OverloadShed ==
  \A r \in 0 .. CausalMaxRung - 1 :
    (rung = r /\ Mature(r) /\ cost[r].ns > SlotBudget)
      ~> (rung # r \/ cost[r].ns <= SlotBudget \/ vrr)

Cheap == {c \in Costs : c * 100 <= SlotBudget * Lesser(KnownPercent, ColdPercent)}
AllCheap == \A r \in Rungs : load[r] \in Cheap
NoneDear == \A r \in 0 .. rung : Fits(r, SlotBudget)

\* When every rung is cheap and neither this rung nor a richer one is measured
\* too expensive, the ladder returns to the configured pipeline: hold,
\* probation, back-off and the miss window cannot block it for ever.
RecoveryNotJammed == <>[](AllCheap /\ NoneDear) => []<>(rung = 0)
=============================================================================
