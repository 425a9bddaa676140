----------------------- MODULE PresentArbiterProofs -----------------------
(***************************************************************************)
(* Proofs about the arbiter of a compositor pass, for every refresh, lead, *)
(* budget and lateness: the types, that a latched frame is never forgotten *)
(* nor overtaken by a prediction, that an overlay update is never eaten,   *)
(* and that the commit timer follows the pending frame.                    *)
(***************************************************************************)
EXTENDS PresentArbiter, TLAPS

(* The pending frame: what is planned and when it is due.                  *)

LEMMA Timing ==
  /\ Refresh \in Nat \ {0} /\ Offset \in Nat /\ Offset < Refresh /\ Offset > 0
  /\ MaxLate \in Nat /\ MaxLate >= Refresh /\ Budget \in Nat /\ MaxCadence \in Nat
  /\ \A l \in Leads : l \in Nat /\ l <= Refresh
BY TimingAssumption

LEMMA NextTargetAhead ==
  ASSUME NEW h \in Histories, phase \in 0..(Refresh - 1)
  PROVE  NextTarget(h) \in Nat /\ NextTarget(h) > h.used
<1> DEFINE first == Refresh - phase
           start == IF first >= Offset THEN first ELSE first + Refresh
           First(t) == t > h.used /\ \A u \in Grid : u > h.used => t <= u
<1>1. h.used \in 0..(2 * Refresh)
  BY DEF Histories
<1>2. first \in Nat \ {0}
  BY Timing
<1>3. start \in Nat \ {0} /\ Grid = {start, start + Refresh, start + 2 * Refresh}
  BY <1>2, Timing DEF Grid
<1> HIDE DEF first, start
<1>4. start + 2 * Refresh > h.used
  BY <1>1, <1>3, Timing
<1>5. \E t \in Grid : First(t)
  <2>1. CASE start > h.used
    BY <2>1, <1>1, <1>3, Timing
  <2>2. CASE ~(start > h.used) /\ start + Refresh > h.used
    BY <2>2, <1>1, <1>3, Timing
  <2>3. CASE ~(start > h.used) /\ ~(start + Refresh > h.used)
    BY <2>3, <1>1, <1>3, <1>4, Timing
  <2> QED
    BY <2>1, <2>2, <2>3
<1>6. NextTarget(h) \in Grid /\ First(NextTarget(h))
  BY <1>5 DEF NextTarget
<1> QED
  BY <1>3, <1>6, Timing

LEMMA NoSlotIsSlot == NoSlot \in Slots /\ NoTarget \in Targets
<1>1. 0 \in -MaxLate..(2 * Refresh) /\ 0 \in -(MaxLate + 2 * Refresh)..(2 * Refresh)
  BY Timing
<1> QED
  BY <1>1 DEF NoSlot, NoTarget, Slots, Targets

LEMMA PlannedTypes ==
  ASSUME NEW s \in Slots, NEW h \in Histories, NEW l \in Leads, NEW p \in Planned(s, h, l),
         phase \in 0..(Refresh - 1)
  PROVE  p.slot \in Slots /\ p.history \in Histories /\ p.submitted \in BOOLEAN
<1> DEFINE t == NextTarget(h)
<1>1. CASE p = [slot |-> s, history |-> h, submitted |-> FALSE]
  BY <1>1
<1>2. CASE p # [slot |-> s, history |-> h, submitted |-> FALSE]
  <2>1. t \in Nat /\ t <= 2 * Refresh
    BY <1>2, NextTargetAhead DEF Planned, CanMeet
  <2>2. t \in -MaxLate..(2 * Refresh) /\ t \in 0..(2 * Refresh)
    BY <2>1, Timing
  <2> HIDE DEF t
  <2>3. [h EXCEPT !.used = t] \in Histories
    BY <2>2 DEF Histories
  <2>4. [on |-> TRUE, at |-> t, provisional |-> ~h.corrected] \in Slots
    BY <2>2 DEF Slots, Histories
  <2> DEFINE used == [h EXCEPT !.used = t]
             planned == [on |-> TRUE, at |-> t, provisional |-> ~h.corrected]
  <2>5. \/ p = [slot |-> NoSlot, history |-> used, submitted |-> FALSE]
        \/ p = [slot |-> planned, history |-> used, submitted |-> TRUE]
    BY <1>2 DEF Planned, t
  <2>6. used \in Histories /\ planned \in Slots
    BY <2>3, <2>4
  <2> HIDE DEF used, planned
  <2>7. CASE p = [slot |-> NoSlot, history |-> used, submitted |-> FALSE]
    <3>1. p.slot = NoSlot /\ p.history = used /\ p.submitted = FALSE
      BY <2>7
    <3> QED
      BY <3>1, <2>6, NoSlotIsSlot, Zenon
  <2>8. CASE p = [slot |-> planned, history |-> used, submitted |-> TRUE]
    <3>1. p.slot = planned /\ p.history = used /\ p.submitted = TRUE
      BY <2>8
    <3> QED
      BY <3>1, <2>6, Zenon
  <2> QED
    BY <2>5, <2>7, <2>8
<1> QED
  BY <1>1, <1>2

LEMMA PlanTypes ==
  ASSUME NEW s \in Slots, NEW h \in Histories, NEW l \in Leads, NEW force \in BOOLEAN,
         phase \in 0..(Refresh - 1), busy \in BOOLEAN, nudged \in BOOLEAN,
         Plan(s, h, l, force)
  PROVE  /\ slot' \in Slots /\ history' \in Histories
         /\ busy' \in BOOLEAN /\ forced' \in BOOLEAN /\ nudged' \in BOOLEAN
<1>1. PICK p \in Planned(s, h, l) :
        /\ slot' = p.slot /\ history' = p.history
        /\ busy' = (busy \/ p.submitted)
        /\ forced' = (force \/ p.submitted)
        /\ nudged' = (nudged \/ p.submitted)
  BY DEF Plan
<1>2. p.slot \in Slots /\ p.history \in Histories /\ p.submitted \in BOOLEAN
  BY PlannedTypes
<1> QED
  BY <1>1, <1>2

LEMMA DeadlineType ==
  ASSUME NEW s \in Slots, NEW l \in Leads
  PROVE  Deadline(s, l) \in Targets
<1>1. s.at \in -MaxLate..(2 * Refresh) /\ l \in Nat /\ l <= Refresh
  BY Timing DEF Slots
<1>2. s.at - l \in -(MaxLate + 2 * Refresh)..(2 * Refresh)
  BY <1>1, Timing
<1> QED
  BY <1>2, NoSlotIsSlot DEF Deadline, Targets

LEMMA LaterSlot ==
  ASSUME slot \in Slots
  PROVE  Later(slot, -MaxLate) \in Slots
<1>1. slot.at \in -MaxLate..(2 * Refresh) /\ MaxLate \in Int /\ Refresh \in Nat
  BY Timing DEF Slots
<1>2. slot.at > -MaxLate => slot.at - 1 \in -MaxLate..(2 * Refresh)
  BY <1>1
<1>3. slot.at > -MaxLate => [slot EXCEPT !.at = @ - 1] \in Slots
  BY <1>2 DEF Slots
<1> QED
  BY <1>3 DEF Later

LEMMA LaterTarget ==
  ASSUME armedFor \in Targets
  PROVE  Later(armedFor, -(MaxLate + 2 * Refresh)) \in Targets
<1> DEFINE floor == -(MaxLate + 2 * Refresh)
<1>1. armedFor.at \in floor..(2 * Refresh) /\ floor \in Int /\ Refresh \in Nat
  BY Timing DEF Targets
<1>2. armedFor.at > floor => armedFor.at - 1 \in floor..(2 * Refresh)
  BY <1>1
<1>3. armedFor.at > floor => [armedFor EXCEPT !.at = @ - 1] \in Targets
  BY <1>2 DEF Targets
<1> QED
  BY <1>3 DEF Later

(* The steps keep the types.                                               *)

LEMMA TypeInit == Init => TypeOK
<1> SUFFICES ASSUME Init PROVE TypeOK
  OBVIOUS
<1>1. base \in BaseModes /\ vblankReady \in BOOLEAN /\ forced \in BOOLEAN /\ nudged \in BOOLEAN
      /\ busy \in BOOLEAN /\ flag \in BOOLEAN /\ timer \in BOOLEAN /\ feedback \in Kinds
  BY DEF Init, Kinds
<1>2. phase \in 0..(Refresh - 1) /\ deferred \in 0..Budget /\ lead \in Leads
      /\ nextReal \in 0..MaxCadence
  BY Timing, TimingAssumption DEF Init
<1>3. pass \in Passes /\ content \in Contents
  BY DEF Init, Passes, Contents, Kinds
<1>4. slot \in Slots /\ armedFor \in Targets
  BY NoSlotIsSlot DEF Init
<1>5. history \in Histories
  <2>1. 0 \in 0..2 /\ 0 \in 0..(2 * Refresh)
    BY Timing
  <2> QED
    BY <2>1 DEF Init, Histories
<1> QED
  BY <1>1, <1>2, <1>3, <1>4, <1>5 DEF TypeOK

LEMMA TypeTick == TypeOK /\ Tick => TypeOK'
<1> SUFFICES ASSUME TypeOK, Tick PROVE TypeOK'
  OBVIOUS
<1>1. phase' \in 0..(Refresh - 1)
  BY Timing DEF TypeOK, Tick
<1>2. slot' \in Slots /\ armedFor' \in Targets
  BY LaterSlot, LaterTarget DEF TypeOK, Tick
<1>3. history' \in Histories
  <2>1. history.used \in 0..(2 * Refresh) /\ Less(history.used) \in 0..(2 * Refresh)
    BY Timing DEF TypeOK, Histories, Less
  <2> QED
    BY <2>1 DEF TypeOK, Histories, Tick
<1>4. nextReal' \in 0..MaxCadence
  BY Timing DEF TypeOK, Tick, Less
<1>5. pass' \in Passes
  BY DEF TypeOK, Passes, Tick
<1>6. vblankReady' \in BOOLEAN
  BY Zenon DEF TypeOK, Tick
<1> QED
  BY <1>1, <1>2, <1>3, <1>4, <1>5, <1>6 DEF TypeOK, Tick

LEMMA TypeOthers ==
  ASSUME TypeOK, GpuDone \/ ForceRepaint \/ CursorRepaint \/ FlipDone
  PROVE  TypeOK'
<1>1. CASE GpuDone
  BY <1>1 DEF TypeOK, GpuDone, schedule, commit
<1>2. CASE ForceRepaint
  BY <1>2 DEF TypeOK, ForceRepaint, schedule, commit, prediction
<1>3. CASE CursorRepaint
  <2>1. content' \in Contents
    BY <1>3 DEF TypeOK, CursorRepaint, Contents
  <2> QED
    BY <1>3, <2>1 DEF TypeOK, CursorRepaint, schedule, commit, prediction
<1>4. CASE FlipDone
  <2>1. pass' \in Passes /\ feedback' \in Kinds
    BY <1>4 DEF TypeOK, FlipDone, Passes
  <2> QED
    BY <1>4, <2>1 DEF TypeOK, FlipDone, commit, prediction
<1> QED
  BY <1>1, <1>2, <1>3, <1>4

LEMMA TypeWake == TypeOK /\ Wake => TypeOK'
<1> SUFFICES ASSUME TypeOK, Wake PROVE TypeOK'
  OBVIOUS
<1>1. pass' \in Passes
  BY DEF TypeOK, Wake, Passes
<1>2. flag' \in BOOLEAN /\ timer' \in BOOLEAN
  BY Zenon DEF TypeOK, Wake
<1> QED
  BY <1>1, <1>2 DEF TypeOK, Wake, prediction

LEMMA TypeFeedback == TypeOK /\ Feedback => TypeOK'
<1> SUFFICES ASSUME TypeOK, Feedback PROVE TypeOK'
  OBVIOUS
<1>1. pass' \in Passes
  BY DEF TypeOK, Feedback, Passes
<1>2. lead' \in Leads /\ feedback' \in Kinds
  BY DEF TypeOK, Feedback, DrainFeedback, Kinds
<1>3. flag' \in BOOLEAN /\ timer' \in BOOLEAN /\ armedFor' \in Targets
  BY NoSlotIsSlot DEF TypeOK, Feedback, commit
<1>4. /\ slot' \in Slots /\ history' \in Histories /\ busy' \in BOOLEAN
      /\ forced' \in BOOLEAN /\ nudged' \in BOOLEAN
  <2> DEFINE matched == feedback = "real" /\ history.reals > 0 /\ ~history.corrected
  <2>1. CASE ~matched
    BY <2>1 DEF TypeOK, Feedback, DrainFeedback, prediction
  <2>2. CASE matched
    <3>1. PICK moved \in BOOLEAN :
            Plan(Corrected(moved).slot, Corrected(moved).history, lead', forced)
      BY <2>2 DEF Feedback, DrainFeedback
    <3>2. [history EXCEPT !.corrected = TRUE] \in Histories
      BY DEF TypeOK, Histories
    <3>3. [[history EXCEPT !.corrected = TRUE] EXCEPT !.used = 0] \in Histories
      <4>1. 0 \in 0..(2 * Refresh)
        BY Timing
      <4>2. \A h \in Histories : [h EXCEPT !.used = 0] \in Histories
        BY <4>1 DEF Histories
      <4> QED
        BY <3>2, <4>2
    <3>4. Corrected(moved).slot \in Slots
      BY NoSlotIsSlot DEF Corrected, TypeOK
    <3>5. Corrected(moved).history \in Histories
      BY <3>2, <3>3 DEF Corrected
    <3> QED
      BY <3>1, <3>4, <3>5, <1>2, PlanTypes DEF TypeOK
  <2> QED
    BY <2>1, <2>2
<1> QED
  BY <1>1, <1>2, <1>3, <1>4 DEF TypeOK, Feedback, schedule

LEMMA TypeLatch == TypeOK /\ Latch => TypeOK'
<1> SUFFICES ASSUME TypeOK, Latch PROVE TypeOK'
  OBVIOUS
<1>1. PICK real \in BOOLEAN, overlay \in BOOLEAN, reset \in BOOLEAN : Latched(real, overlay, reset)
  BY DEF Latch
<1>2. pass' \in Passes
  BY DEF TypeOK, Latch, Passes
<1>3. content' \in Contents
  BY <1>1, Zenon DEF TypeOK, Contents, Latched
<1>4. deferred' \in 0..Budget /\ slot' \in Slots
  BY <1>1, NoSlotIsSlot, Timing DEF TypeOK, Latched
<1>5. history' \in Histories
  BY <1>1 DEF TypeOK, Histories, Latched
<1> QED
  BY <1>2, <1>3, <1>4, <1>5 DEF TypeOK, Latch, schedule, commit

(* What a decision leads to keeps the types, and says what was painted.    *)

LEMMA PaintTypes ==
  ASSUME TypeOK, NEW s \in Slots, NEW defers \in BOOLEAN, Paint(s, defers)
  PROVE  /\ pass' \in Passes /\ content' \in Contents /\ nextReal' \in 0..MaxCadence
         /\ slot' \in Slots /\ history' \in Histories
         /\ busy' \in BOOLEAN /\ forced' \in BOOLEAN /\ nudged' \in BOOLEAN
<1>1. pass' \in Passes
  BY DEF TypeOK, Passes, Paint, Kinds
<1>2. Left \in BOOLEAN /\ lead \in Leads
  BY DEF Left, TypeOK
<1>3. ASSUME NEW h \in Histories, NEW r \in Slots, Plan(r, h, lead, Left)
      PROVE  /\ slot' \in Slots /\ history' \in Histories
             /\ busy' \in BOOLEAN /\ forced' \in BOOLEAN /\ nudged' \in BOOLEAN
  BY <1>2, <1>3, PlanTypes DEF TypeOK
<1>4. CASE (s.on /\ ~busy) \/ ~content.fresh
  <2>1. content' \in Contents /\ nextReal' \in 0..MaxCadence
    BY <1>4 DEF Paint, TypeOK
  <2>2. CASE s.on
    <3>1. Plan(NoSlot, history, lead, Left)
      BY <1>4, <2>2 DEF Paint
    <3> QED
      BY <1>1, <1>3, <2>1, <3>1, NoSlotIsSlot DEF TypeOK
  <2>3. CASE ~s.on
    BY <1>1, <1>2, <1>4, <2>1, <2>3 DEF Paint, TypeOK
  <2> QED
    BY <2>2, <2>3
<1>5. CASE ~((s.on /\ ~busy) \/ ~content.fresh)
  <2> DEFINE h == [reals |-> IF history.reals < 2 THEN history.reals + 1 ELSE 2,
                   corrected |-> FALSE, used |-> Refresh - phase]
  <2>1. RecordReal
    BY <1>5 DEF Paint
  <2>2. h.reals \in 0..2
    BY DEF TypeOK, Histories
  <2>3. h.used \in 0..(2 * Refresh)
    BY Timing DEF TypeOK
  <2>4. h \in Histories
    BY <2>2, <2>3 DEF Histories
  <2>5. Plan(NoSlot, h, lead, Left)
    BY <2>1 DEF RecordReal
  <2>6. content' \in Contents /\ nextReal' \in 0..MaxCadence
    BY <2>1 DEF RecordReal, TypeOK, Contents
  <2> HIDE DEF h
  <2> QED
    BY <1>1, <1>3, <2>4, <2>5, <2>6, NoSlotIsSlot
<1> QED
  BY <1>4, <1>5

LEMMA RepeatTypes ==
  ASSUME TypeOK, NEW s \in Slots, NEW force \in BOOLEAN, NEW defers \in BOOLEAN,
         Repeat(s, force, defers)
  PROVE  /\ pass' \in Passes /\ content' \in Contents /\ nextReal' \in 0..MaxCadence
         /\ slot' \in Slots /\ history' \in Histories
         /\ busy' \in BOOLEAN /\ forced' \in BOOLEAN /\ nudged' \in BOOLEAN
<1>1. pass' \in Passes
  BY DEF TypeOK, Passes, Repeat
<1>2. content' \in Contents /\ nextReal' \in 0..MaxCadence
  BY DEF TypeOK, Repeat
<1>3. CASE pass.vblank
  <2>1. Plan(s, history, lead, force)
    BY <1>3 DEF Repeat
  <2> QED
    BY <1>1, <1>2, <2>1, PlanTypes DEF TypeOK
<1>4. CASE ~pass.vblank
  BY <1>1, <1>2, <1>4 DEF Repeat, TypeOK
<1> QED
  BY <1>3, <1>4

LEMMA PaintOrRepeatTypes ==
  ASSUME TypeOK, NEW s \in Slots, NEW paint \in BOOLEAN, PaintOrRepeat(s, paint)
  PROVE  /\ pass' \in Passes /\ content' \in Contents /\ nextReal' \in 0..MaxCadence
         /\ slot' \in Slots /\ history' \in Histories
         /\ busy' \in BOOLEAN /\ forced' \in BOOLEAN /\ nudged' \in BOOLEAN
<1>1. Left \in BOOLEAN
  BY DEF Left
<1>2. CASE paint
  BY <1>2, PaintTypes DEF PaintOrRepeat
<1>3. CASE ~paint
  BY <1>1, <1>3, RepeatTypes DEF PaintOrRepeat
<1> QED
  BY <1>2, <1>3

LEMMA GeneratedTypes ==
  ASSUME TypeOK, PresentGenerated
  PROVE  /\ pass' \in Passes /\ content' \in Contents /\ nextReal' \in 0..MaxCadence
         /\ slot' \in Slots /\ history' \in Histories /\ deferred' \in 0..Budget
         /\ busy' \in BOOLEAN /\ forced' \in BOOLEAN /\ nudged' \in BOOLEAN
<1> DEFINE defers == content.overlay /\ ~base
           ready == ~busy /\ (defers => MayDefer)
<1>1. defers \in BOOLEAN /\ (WantsPaint /\ content.overlay) \in BOOLEAN /\ slot \in Slots
  BY DEF WantsPaint, TypeOK
<1>2. CASE ready
  <2>1. Paint(slot, defers) /\ deferred' = IF defers THEN deferred + 1 ELSE deferred
    BY <1>2 DEF PresentGenerated
  <2>2. deferred' \in 0..Budget
    BY <1>2, <2>1, Timing DEF TypeOK, MayDefer
  <2> HIDE DEF defers
  <2> QED
    BY <1>1, <2>1, <2>2, PaintTypes
<1>3. CASE ~ready
  <2>1. PaintOrRepeat(NoSlot, WantsPaint /\ content.overlay) /\ deferred' = deferred
    BY <1>3 DEF PresentGenerated
  <2>2. deferred' \in 0..Budget
    BY <2>1 DEF TypeOK
  <2> QED
    BY <1>1, <2>1, <2>2, PaintOrRepeatTypes, NoSlotIsSlot
<1> QED
  BY <1>2, <1>3

LEMMA HoldTypes ==
  ASSUME TypeOK, Hold
  PROVE  /\ pass' \in Passes /\ content' \in Contents /\ nextReal' \in 0..MaxCadence
         /\ slot' \in Slots /\ history' \in Histories /\ deferred' \in 0..Budget
         /\ busy' \in BOOLEAN /\ forced' \in BOOLEAN /\ nudged' \in BOOLEAN
<1>1. slot \in Slots /\ forced \in BOOLEAN /\ Left \in BOOLEAN /\ deferred \in 0..Budget
  BY DEF TypeOK, Left
<1>2. CASE WantsPaint /\ MayDefer
  <2>1. deferred' = deferred + 1 /\ Repeat(slot, forced, TRUE)
    BY <1>2 DEF Hold
  <2>2. deferred' \in 0..Budget
    BY <1>1, <1>2, <2>1, Timing DEF MayDefer
  <2> QED
    BY <1>1, <2>1, <2>2, RepeatTypes
<1>3. CASE WantsPaint /\ ~MayDefer
  <2>1. deferred' = deferred /\ Paint(NoSlot, FALSE)
    BY <1>3 DEF Hold
  <2> QED
    BY <1>1, <2>1, PaintTypes, NoSlotIsSlot
<1>4. CASE ~WantsPaint
  <2>1. deferred' = deferred /\ Repeat(slot, Left, FALSE)
    BY <1>4 DEF Hold
  <2> QED
    BY <1>1, <2>1, RepeatTypes
<1> QED
  BY <1>2, <1>3, <1>4

LEMMA TypeArbitrate == TypeOK /\ Arbitrate => TypeOK'
<1> SUFFICES ASSUME TypeOK, Arbitrate PROVE TypeOK'
  OBVIOUS
<1>1. Arbitrating
  BY DEF Arbitrate, NothingPending, RealSupersedes, EarlyCommit, Hold, VBlankCommit, NotYet
<1>2. WantsPaint \in BOOLEAN /\ Left \in BOOLEAN /\ slot \in Slots /\ deferred \in 0..Budget
  BY DEF WantsPaint, Left, TypeOK
<1>3. flag' \in BOOLEAN
  BY DEF Arbitrate, NothingPending, RealSupersedes, EarlyCommit, Hold, VBlankCommit, NotYet,
         FlagHolds, TypeOK
<1>4. /\ pass' \in Passes /\ content' \in Contents /\ nextReal' \in 0..MaxCadence
      /\ slot' \in Slots /\ history' \in Histories /\ deferred' \in 0..Budget
      /\ busy' \in BOOLEAN /\ forced' \in BOOLEAN /\ nudged' \in BOOLEAN
  <2>1. CASE NothingPending
    BY <1>2, <2>1, PaintOrRepeatTypes DEF NothingPending
  <2>2. CASE RealSupersedes
    BY <1>2, <2>2, PaintOrRepeatTypes, NoSlotIsSlot DEF RealSupersedes
  <2>3. CASE EarlyCommit
    BY <2>3, GeneratedTypes DEF EarlyCommit
  <2>4. CASE Hold
    BY <2>4, HoldTypes
  <2>5. CASE VBlankCommit
    BY <2>5, GeneratedTypes DEF VBlankCommit
  <2>6. CASE NotYet
    BY <1>2, <2>6, RepeatTypes DEF NotYet
  <2> QED
    BY <2>1, <2>2, <2>3, <2>4, <2>5, <2>6 DEF Arbitrate
<1> QED
  BY <1>1, <1>3, <1>4 DEF Arbitrating, TypeOK, schedule

LEMMA TypeEnd == TypeOK /\ End => TypeOK'
<1> SUFFICES ASSUME TypeOK, End PROVE TypeOK'
  OBVIOUS
<1>1. pass' \in Passes /\ content' \in Contents
  BY DEF TypeOK, End, Passes, Contents, Cleared, Kinds
<1>2. OwnDeadline \in Targets
  BY DeadlineType DEF OwnDeadline, TypeOK
<1>3. armedFor' \in Targets /\ flag' \in BOOLEAN /\ timer' \in BOOLEAN /\ nudged' \in BOOLEAN
  BY <1>2, NoSlotIsSlot DEF TypeOK, End, Disown, Retry, Rearm, commit
<1> QED
  BY <1>1, <1>3 DEF TypeOK, End, schedule, prediction

LEMMA TypeStep == TypeOK /\ [Next]_vars => TypeOK'
<1> SUFFICES ASSUME TypeOK, [Next]_vars PROVE TypeOK'
  OBVIOUS
<1>1. CASE UNCHANGED vars
  BY <1>1 DEF TypeOK, vars, schedule, prediction, commit
<1>2. CASE Next
  BY <1>2, TypeTick, TypeOthers, TypeWake, TypeFeedback, TypeLatch, TypeArbitrate, TypeEnd DEF Next
<1> QED
  BY <1>1, <1>2

\* The types, with the bound on how often an overlay update is put off in a row.
THEOREM TypeCorrect == Spec => []TypeOK
<1> QED
  BY TypeInit, TypeStep, PTL DEF Spec

-----------------------------------------------------------------------------
(* The inductive invariant of what is shown.  A frame that has been latched *)
(* and not composited keeps the repaint flag up and no pass has painted yet *)
(* that would take it down; a generated frame without the overlays keeps    *)
(* the overlay's flag.                                                      *)

Unpainted == pass.pc \in {"poll", "feedback", "latch", "arbitrate"} => pass.painted = "none"
FreshStands == content.fresh => content.real /\ pass.painted = "none"
OverlayStands == pass.painted = "gen" /\ ~base /\ content.overlay => pass.deferOverlay

ContentInv == TypeOK /\ Unpainted /\ FreshStands /\ OverlayStands

(* What a decision of the arbiter shows, and when.                         *)

LEMMA PaintShows ==
  ASSUME TypeOK, NEW s \in Slots, NEW defers \in BOOLEAN, Paint(s, defers)
  PROVE  /\ pass'.pc = "flip" /\ pass'.deferOverlay = defers
         /\ pass'.painted = IF s.on /\ ~busy THEN "gen" ELSE "real"
         /\ content'.real = content.real /\ content'.overlay = content.overlay
         /\ content'.fresh => content.fresh /\ pass'.painted = "gen"
<1>1. /\ pass'.pc = "flip" /\ pass'.deferOverlay = defers
      /\ pass'.painted = IF s.on /\ ~busy THEN "gen" ELSE "real"
  BY DEF Paint, TypeOK, Passes
<1>2. CASE (s.on /\ ~busy) \/ ~content.fresh
  BY <1>1, <1>2 DEF Paint
<1>3. CASE ~((s.on /\ ~busy) \/ ~content.fresh)
  <2>1. content' = [content EXCEPT !.fresh = FALSE]
    BY <1>3 DEF Paint, RecordReal
  <2> QED
    BY <1>1, <2>1 DEF TypeOK, Contents
<1> QED
  BY <1>2, <1>3

LEMMA RepeatShows ==
  ASSUME TypeOK, NEW s, NEW force, NEW defers, Repeat(s, force, defers)
  PROVE  pass'.pc = "end" /\ pass'.painted = pass.painted /\ content' = content
BY DEF Repeat, TypeOK, Passes

LEMMA PaintOrRepeatShows ==
  ASSUME TypeOK, NEW s \in Slots, NEW paint \in BOOLEAN, ~s.on, PaintOrRepeat(s, paint),
         pass.painted = "none"
  PROVE  /\ pass'.pc \in {"flip", "end"} /\ pass'.painted # "gen"
         /\ content'.real = content.real /\ content'.overlay = content.overlay
         /\ content'.fresh => content.fresh /\ pass'.painted = "none"
<1>1. CASE paint
  <2>1. Paint(s, FALSE)
    BY <1>1 DEF PaintOrRepeat
  <2> QED
    BY <2>1, PaintShows
<1>2. CASE ~paint
  <2>1. Repeat(s, Left, FALSE)
    BY <1>2 DEF PaintOrRepeat
  <2> QED
    BY <2>1, RepeatShows
<1> QED
  BY <1>1, <1>2

LEMMA GeneratedShows ==
  ASSUME TypeOK, PresentGenerated, pass.painted = "none", ~content.fresh
  PROVE  /\ pass'.pc \in {"flip", "end"}
         /\ content'.real = content.real /\ content'.overlay = content.overlay
         /\ ~content'.fresh
         /\ pass'.painted = "gen" /\ ~base /\ content.overlay => pass'.deferOverlay
<1> DEFINE defers == content.overlay /\ ~base
           ready == ~busy /\ (defers => MayDefer)
<1>1. slot \in Slots /\ defers \in BOOLEAN /\ (WantsPaint /\ content.overlay) \in BOOLEAN
  BY DEF TypeOK, WantsPaint
<1>2. CASE ready
  <2>1. Paint(slot, defers)
    BY <1>2 DEF PresentGenerated
  <2>2. pass'.deferOverlay = (content.overlay /\ ~base)
    BY <1>1, <2>1, PaintShows
  <2> HIDE DEF defers
  <2> QED
    BY <1>1, <2>1, <2>2, PaintShows
<1>3. CASE ~ready
  <2>1. PaintOrRepeat(NoSlot, WantsPaint /\ content.overlay)
    BY <1>3 DEF PresentGenerated
  <2>2. ~NoSlot.on
    BY DEF NoSlot
  <2> QED
    BY <1>1, <2>1, <2>2, PaintOrRepeatShows, NoSlotIsSlot
<1> QED
  BY <1>2, <1>3

\* A decision to show a generated frame is made only without real content, at or
\* after the deadline, and with the overlay's update put off or composited.
LEMMA Decision ==
  ASSUME ContentInv, Arbitrate
  PROVE  /\ pass'.pc \in {"flip", "end"} /\ base' = base
         /\ content'.real = content.real /\ content'.overlay = content.overlay
         /\ content'.fresh => content.fresh /\ pass'.painted = "none"
         /\ pass'.painted = "gen" => /\ ~content.fresh /\ (OwnDeadline.on => OwnDeadline.at <= 0)
                                     /\ (~base /\ content.overlay => pass'.deferOverlay)
<1>1. pass.pc = "arbitrate" /\ base' = base
  BY DEF Arbitrate, NothingPending, RealSupersedes, EarlyCommit, Hold, VBlankCommit, NotYet,
         Arbitrating, schedule
<1>2. TypeOK /\ pass.painted = "none" /\ (content.fresh => content.real) /\ slot \in Slots
  BY <1>1 DEF ContentInv, Unpainted, FreshStands, TypeOK
<1>3. WantsPaint \in BOOLEAN /\ ~NoSlot.on /\ NoSlot \in Slots
  BY NoSlotIsSlot DEF WantsPaint, NoSlot
<1>4. CASE NothingPending
  BY <1>1, <1>2, <1>3, <1>4, PaintOrRepeatShows DEF NothingPending
<1>5. CASE RealSupersedes
  BY <1>1, <1>2, <1>3, <1>5, PaintOrRepeatShows DEF RealSupersedes
<1>6. CASE EarlyCommit
  <2>1. ~content.fresh /\ PresentGenerated /\ OwnDeadline.at <= 0
    BY <1>2, <1>6 DEF EarlyCommit, EarlyCommitStarts, FlagHolds
  <2> QED
    BY <1>1, <1>2, <2>1, GeneratedShows
<1>7. CASE Hold
  <2>1. CASE WantsPaint /\ MayDefer
    <3>1. Repeat(slot, forced, TRUE)
      BY <1>7, <2>1 DEF Hold
    <3> QED
      BY <1>1, <1>2, <3>1, RepeatShows
  <2>2. CASE WantsPaint /\ ~MayDefer
    <3>1. Paint(NoSlot, FALSE)
      BY <1>7, <2>2 DEF Hold
    <3> QED
      BY <1>1, <1>2, <1>3, <3>1, PaintShows
  <2>3. CASE ~WantsPaint
    <3>1. Repeat(slot, Left, FALSE)
      BY <1>7, <2>3 DEF Hold
    <3> QED
      BY <1>1, <1>2, <3>1, RepeatShows
  <2> QED
    BY <2>1, <2>2, <2>3
<1>8. CASE VBlankCommit
  <2>1. ~content.fresh /\ PresentGenerated /\ ~OwnDeadline.on
    BY <1>2, <1>8 DEF VBlankCommit
  <2> QED
    BY <1>1, <1>2, <2>1, GeneratedShows
<1>9. CASE NotYet
  <2>1. Repeat(slot, Left, FALSE)
    BY <1>9 DEF NotYet
  <2> QED
    BY <1>1, <1>2, <2>1, RepeatShows
<1> QED
  BY <1>4, <1>5, <1>6, <1>7, <1>8, <1>9 DEF Arbitrate

\* Every other step: what has been painted is kept until the pass ends, and only
\* its end takes flags down.
LEMMA OtherSteps ==
  ASSUME ContentInv, [Next]_vars, ~Arbitrate
  PROVE  /\ base' = base
         /\ \/ pass'.pc = "poll" /\ pass'.painted = "none" /\ content' = Cleared
            \/ /\ pass'.painted = pass.painted /\ pass'.deferOverlay = pass.deferOverlay
               /\ content.real => content'.real
               /\ content'.overlay # content.overlay => content'.overlay /\ pass.painted = "none"
               /\ content'.fresh /\ ~content.fresh => content'.real /\ pass.painted = "none"
               /\ pass'.pc \in {"poll", "feedback", "latch", "arbitrate"} =>
                    pass.pc \in {"poll", "feedback", "latch", "arbitrate"}
<1>t. pass \in Passes /\ content \in Contents
  BY DEF ContentInv, TypeOK
<1>1. CASE UNCHANGED vars
  BY <1>1 DEF vars, schedule
<1>2. CASE Tick
  BY <1>2, <1>t DEF Tick, Passes
<1>3. CASE GpuDone \/ ForceRepaint
  BY <1>3 DEF GpuDone, ForceRepaint, schedule
<1>4. CASE CursorRepaint
  BY <1>4, <1>t DEF CursorRepaint, schedule, Contents
<1>5. CASE FlipDone
  BY <1>5, <1>t DEF FlipDone, Passes
<1>6. CASE Wake \/ Feedback
  BY <1>6, <1>t DEF Wake, Feedback, Passes, schedule
<1>7. CASE Latch
  <2>1. PICK real \in BOOLEAN, overlay \in BOOLEAN, reset \in BOOLEAN : Latched(real, overlay, reset)
    BY <1>7 DEF Latch
  <2>2. /\ content'.real = (content.real \/ real) /\ content'.overlay = (content.overlay \/ overlay)
        /\ content'.fresh = (content.fresh \/ real)
    BY <2>1 DEF Latched
  <2>3. pass.painted = "none" /\ pass.pc = "latch" /\ base' = base
    BY <1>7 DEF Latch, ContentInv, Unpainted, schedule
  <2>4. pass'.painted = pass.painted /\ pass'.deferOverlay = pass.deferOverlay
    BY <1>7, <1>t DEF Latch, Passes
  <2> QED
    BY <1>t, <2>2, <2>3, <2>4 DEF Contents
<1>8. CASE End
  BY <1>8 DEF End, schedule
<1> QED
  BY <1>1, <1>2, <1>3, <1>4, <1>5, <1>6, <1>7, <1>8 DEF Next

LEMMA ContentStep == ContentInv /\ [Next]_vars => ContentInv'
<1> SUFFICES ASSUME ContentInv, [Next]_vars PROVE ContentInv'
  OBVIOUS
<1>t. TypeOK' /\ TypeOK /\ pass \in Passes /\ content \in Contents
  BY TypeStep DEF ContentInv, TypeOK
<1>1. CASE Arbitrate
  <2>1. Unpainted' /\ FreshStands' /\ OverlayStands'
    BY <1>1, <1>t, Decision DEF ContentInv, Unpainted, FreshStands, OverlayStands
  <2> QED
    BY <1>t, <2>1 DEF ContentInv
<1>2. CASE ~Arbitrate
  <2>1. CASE pass'.pc = "poll" /\ pass'.painted = "none" /\ content' = Cleared
    <3>1. Unpainted' /\ OverlayStands'
      BY <2>1 DEF Unpainted, OverlayStands
    <3>2. FreshStands'
      BY <2>1, <1>t DEF ContentInv, FreshStands, Cleared, Contents
    <3> QED
      BY <1>t, <3>1, <3>2 DEF ContentInv
  <2>2. CASE ~(pass'.pc = "poll" /\ pass'.painted = "none" /\ content' = Cleared)
    <3>1. Unpainted' /\ FreshStands' /\ OverlayStands'
      BY <1>2, <1>t, <2>2, OtherSteps DEF ContentInv, Unpainted, FreshStands, OverlayStands
    <3> QED
      BY <1>t, <3>1 DEF ContentInv
  <2> QED
    BY <2>1, <2>2
<1> QED
  BY <1>1, <1>2

LEMMA ContentInit == Init => ContentInv
BY TypeInit DEF Init, ContentInv, Unpainted, FreshStands, OverlayStands

LEMMA ContentAlways == Spec => []ContentInv
<1> QED
  BY ContentInit, ContentStep, PTL DEF Spec

\* A game frame that has been latched and not composited is never forgotten: when
\* the loop goes back to sleep hasRepaint still stands for it (steamcompmgr.cpp:9492).
THEOREM FramesRemembered == Spec => []NothingForgotten
<1>1. ContentInv => NothingForgotten
  BY DEF ContentInv, FreshStands, NothingForgotten
<1> QED
  BY <1>1, ContentAlways, PTL

\* No pass shows a prediction while a newer real frame waits (steamcompmgr.cpp:9284).
THEOREM RealFirst == Spec => RealNeverOvertaken
<1>1. ContentInv /\ [Next]_vars =>
        [pass.pc = "arbitrate" /\ pass'.painted = "gen" => ~content.fresh]_vars
  BY Decision, OtherSteps DEF ContentInv, Unpainted
<1> QED
  BY <1>1, ContentAlways, PTL DEF Spec, RealNeverOvertaken

\* A prediction with a commit deadline of its own is never committed before it,
\* whatever the commit timer was armed for (steamcompmgr.cpp:9293-9299).
THEOREM NeverEarly == Spec => NeverBeforeDeadline
<1>1. ContentInv /\ [Next]_vars =>
        [pass.pc = "arbitrate" /\ pass'.painted = "gen" /\ OwnDeadline.on => OwnDeadline.at <= 0]_vars
  BY Decision, OtherSteps DEF ContentInv, Unpainted
<1> QED
  BY <1>1, ContentAlways, PTL DEF Spec, NeverBeforeDeadline

\* An overlay's repaint flag is taken down only by a pass whose picture contained
\* the live overlays (steamcompmgr.cpp:9497-9501).
THEOREM OverlayKept == Spec => OverlayNotEaten
<1>1. ContentInv /\ [Next]_vars =>
        [content.overlay /\ ~content'.overlay =>
           pass.painted = "real" \/ (base /\ pass.painted = "gen")]_vars
  <2> SUFFICES ASSUME ContentInv, [Next]_vars, content.overlay, ~content'.overlay
               PROVE  pass.painted = "real" \/ (base /\ pass.painted = "gen")
    OBVIOUS
  <2>t. pass.painted \in Kinds /\ content \in Contents
    BY DEF ContentInv, TypeOK, Passes
  <2>1. content' = Cleared
    BY Decision, OtherSteps
  <2>2. pass.painted # "none" /\ ~pass.deferOverlay
    BY <2>1, <2>t DEF Cleared, Contents
  <2> QED
    BY <2>2, <2>t DEF ContentInv, OverlayStands, Kinds
<1> QED
  BY <1>1, ContentAlways, PTL DEF Spec, OverlayNotEaten

-----------------------------------------------------------------------------
(* The inductive invariant of the commit timer: it is owned while it is set *)
(* or has fired, and is set for as long as the deadline it owns is ahead.   *)

TimerOwned == timer \/ flag => armedFor.on
TimerAhead == armedFor.on /\ armedFor.at > 0 => timer

TimerInv == TypeOK /\ TimerOwned /\ TimerAhead /\ TimerFollowsSlot

LEMMA ArbiterEnds ==
  ASSUME TypeOK, Arbitrate
  PROVE  pass'.pc # "poll"
<1>1. \E s, defers : Paint(s, defers) \/ \E force : Repeat(s, force, defers)
  BY Zenon DEF Arbitrate, NothingPending, RealSupersedes, EarlyCommit, Hold, VBlankCommit, NotYet,
         PresentGenerated, PaintOrRepeat
<1> QED
  BY <1>1 DEF Paint, Repeat, TypeOK, Passes

LEMMA TimerInit == Init => TimerInv
BY TypeInit DEF Init, TimerInv, TimerOwned, TimerAhead, TimerFollowsSlot, OwnDeadline, Deadline,
                NoSlot, NoTarget

\* As time passes the deadline and what the timer was set for move together.
LEMMA TimerTick == TimerInv /\ Tick => TimerInv'
<1> SUFFICES ASSUME TimerInv, Tick PROVE TimerInv'
  OBVIOUS
<1> DEFINE floor == -(MaxLate + 2 * Refresh)
<1>1. TypeOK /\ TypeOK'
  BY TypeTick DEF TimerInv
<1>2. /\ slot \in Slots /\ armedFor \in Targets /\ pass \in Passes
      /\ lead \in Nat /\ lead <= Refresh
  BY <1>1, Timing DEF TypeOK
<1>3. slot.at \in Int /\ armedFor.at \in Int /\ floor \in Int /\ MaxLate \in Nat /\ Refresh \in Nat
  BY <1>2, Timing DEF Slots, Targets
<1>4. slot' = Later(slot, -MaxLate) /\ armedFor' = Later(armedFor, floor)
  BY DEF Tick
<1>5. flag' = flag /\ timer' = timer /\ lead' = lead /\ (pass'.pc = "poll" => pass.pc = "poll")
  BY <1>2 DEF Tick, Passes
<1>6. armedFor'.on = armedFor.on /\ armedFor'.at <= armedFor.at
  BY <1>2, <1>3, <1>4 DEF Later, Targets
<1>7. TimerOwned' /\ TimerAhead'
  <2>1. armedFor'.at \in Int
    BY <1>1 DEF TypeOK, Targets
  <2> QED
    BY <1>3, <1>5, <1>6, <2>1 DEF TimerInv, TimerOwned, TimerAhead
<1>8. slot'.on = slot.on
  BY <1>2, <1>4 DEF Later, Slots
<1>9. TimerFollowsSlot'
  <2>1. CASE pass.pc = "poll" /\ OwnDeadline.on
    <3>1. slot.on /\ lead > 0 /\ armedFor = [on |-> TRUE, at |-> slot.at - lead]
      BY <2>1 DEF TimerInv, TimerFollowsSlot, OwnDeadline, Deadline, NoTarget
    <3>2. armedFor' = [on |-> TRUE, at |-> slot'.at - lead]
      <4>1. CASE Passed
        BY <1>4, <3>1, <4>1 DEF Later
      <4>2. CASE ~Passed
        <5>1. slot.at > -MaxLate
          BY <1>2, <1>3, <3>1, <4>2 DEF Passed, Slots
        <5>2. slot.at - lead > floor
          BY <1>2, <1>3, <5>1, Timing
        <5>3. slot' = [slot EXCEPT !.at = @ - 1]
          BY <1>4, <3>1, <4>2, <5>1 DEF Later
        <5>4. armedFor' = [armedFor EXCEPT !.at = @ - 1]
          BY <1>4, <3>1, <4>2, <5>2 DEF Later
        <5>5. slot'.at = slot.at - 1
          BY <5>3, <1>2 DEF Slots
        <5>6. armedFor' = [on |-> TRUE, at |-> (slot.at - lead) - 1]
          BY <5>4, <3>1
        <5>7. (slot.at - lead) - 1 = (slot.at - 1) - lead
          BY <1>2, <1>3
        <5> QED
          BY <5>5, <5>6, <5>7
      <4> QED
        BY <4>1, <4>2
    <3>3. OwnDeadline' = [on |-> TRUE, at |-> slot'.at - lead]
      BY <1>5, <1>8, <3>1 DEF OwnDeadline, Deadline
    <3>4. timer \/ flag
      BY <2>1 DEF TimerInv, TimerFollowsSlot
    <3> QED
      BY <1>5, <3>2, <3>3, <3>4 DEF TimerFollowsSlot
  <2>2. CASE pass.pc = "poll" /\ ~OwnDeadline.on
    <3>1. ~timer /\ ~flag
      BY <2>2 DEF TimerInv, TimerFollowsSlot
    <3>2. ~OwnDeadline'.on
      BY <1>5, <1>8, <2>2 DEF OwnDeadline, Deadline, NoTarget
    <3> QED
      BY <1>5, <3>1, <3>2 DEF TimerFollowsSlot
  <2>3. CASE pass.pc # "poll"
    BY <1>5, <2>3 DEF TimerFollowsSlot
  <2> QED
    BY <2>1, <2>2, <2>3
<1> QED
  BY <1>1, <1>7, <1>9 DEF TimerInv

\* The end of a pass puts the timer in step with what is pending.
LEMMA TimerEnd == TimerInv /\ End => TimerInv'
<1> SUFFICES ASSUME TimerInv, End PROVE TimerInv'
  OBVIOUS
<1> DEFINE d == OwnDeadline
<1>1. TypeOK /\ TypeOK'
  BY TypeEnd DEF TimerInv
<1>2. d \in Targets /\ armedFor \in Targets
  BY <1>1, DeadlineType DEF OwnDeadline, TypeOK
<1>3. d.at \in Int
  BY <1>2, Timing DEF Targets
<1>4. OwnDeadline' = OwnDeadline
  BY DEF End, OwnDeadline, Deadline, prediction
<1>5. (timer \/ flag => armedFor.on) /\ (armedFor.on /\ armedFor.at > 0 => timer)
  BY DEF TimerInv, TimerOwned, TimerAhead
<1>6. CASE ~d.on
  <2>1. Disown
    BY <1>6 DEF End
  <2>2. ~timer' /\ ~flag' /\ ~armedFor'.on
    BY <1>5, <2>1 DEF Disown, commit, NoTarget
  <2> QED
    BY <1>1, <1>4, <1>6, <2>2 DEF TimerInv, TimerOwned, TimerAhead, TimerFollowsSlot
<1>7. CASE d.on /\ d.at <= 0
  <2>1. Retry(d)
    BY <1>7 DEF End
  <2>2. armedFor' = d /\ flag'
    BY <2>1 DEF Retry, commit
  <2> QED
    BY <1>1, <1>3, <1>4, <1>7, <2>2 DEF TimerInv, TimerOwned, TimerAhead, TimerFollowsSlot
<1>8. CASE d.on /\ d.at > 0
  <2>1. Rearm(d)
    BY <1>3, <1>8 DEF End
  <2>2. armedFor' = d /\ timer'
    <3>1. CASE armedFor = d
      BY <1>5, <1>8, <2>1, <3>1 DEF Rearm, commit
    <3>2. CASE armedFor # d
      BY <2>1, <3>2 DEF Rearm
    <3> QED
      BY <3>1, <3>2
  <2> QED
    BY <1>1, <1>4, <1>8, <2>2 DEF TimerInv, TimerOwned, TimerAhead, TimerFollowsSlot
<1> QED
  BY <1>3, <1>6, <1>7, <1>8

LEMMA TimerStep == TimerInv /\ [Next]_vars => TimerInv'
<1> SUFFICES ASSUME TimerInv, [Next]_vars PROVE TimerInv'
  OBVIOUS
<1>t. TypeOK /\ TypeOK' /\ pass \in Passes /\ armedFor \in Targets /\ armedFor.at \in Int
  BY TypeStep, Timing DEF TimerInv, TypeOK, Targets
<1>i. (timer \/ flag => armedFor.on) /\ (armedFor.on /\ armedFor.at > 0 => timer)
  BY DEF TimerInv, TimerOwned, TimerAhead
<1>1. CASE UNCHANGED vars
  BY <1>1, <1>t DEF vars, schedule, prediction, commit, TimerInv, TimerOwned, TimerAhead,
                    TimerFollowsSlot, OwnDeadline, Deadline
<1>2. CASE Tick
  BY <1>2, TimerTick
<1>3. CASE GpuDone \/ ForceRepaint \/ CursorRepaint
  <2>1. UNCHANGED <<pass, slot, lead, commit>>
    BY <1>3 DEF GpuDone, ForceRepaint, CursorRepaint, prediction
  <2> QED
    BY <1>t, <2>1 DEF commit, TimerInv, TimerOwned, TimerAhead, TimerFollowsSlot, OwnDeadline, Deadline
<1>4. CASE FlipDone
  <2>1. UNCHANGED commit /\ pass'.pc = "end"
    BY <1>4, <1>t DEF FlipDone, Passes
  <2> QED
    BY <1>t, <1>i, <2>1 DEF commit, TimerInv, TimerOwned, TimerAhead, TimerFollowsSlot
<1>5. CASE Wake
  <2> DEFINE fired == timer /\ armedFor.at <= 0
  <2>1. /\ flag' = (flag \/ fired) /\ timer' = (timer /\ ~fired)
        /\ armedFor' = armedFor /\ pass'.pc = "feedback"
    BY <1>5, <1>t DEF Wake, Passes
  <2>2. (timer' \/ flag' => timer \/ flag) /\ (timer /\ armedFor.at > 0 => timer')
    <3>1. CASE fired
      BY <1>t, <2>1, <3>1
    <3>2. CASE ~fired
      BY <2>1, <3>2, Zenon
    <3> QED
      BY <3>1, <3>2
  <2>3. TimerOwned' /\ TimerAhead'
    BY <1>i, <2>1, <2>2, Zenon DEF TimerOwned, TimerAhead
  <2> QED
    BY <1>t, <2>1, <2>3 DEF TimerInv, TimerFollowsSlot
<1>6. CASE Feedback
  <2>1. pass'.pc = "latch"
    BY <1>6, <1>t DEF Feedback, Passes
  <2>2. TimerOwned' /\ TimerAhead'
    BY <1>i, <1>6 DEF Feedback, commit, NoTarget, TimerOwned, TimerAhead
  <2> QED
    BY <1>t, <2>1, <2>2 DEF TimerInv, TimerFollowsSlot
<1>7. CASE Latch
  <2>1. UNCHANGED commit /\ pass'.pc = "arbitrate"
    BY <1>7, <1>t DEF Latch, Passes
  <2> QED
    BY <1>t, <1>i, <2>1 DEF commit, TimerInv, TimerOwned, TimerAhead, TimerFollowsSlot
<1>8. CASE Arbitrate
  <2>1. armedFor' = armedFor /\ timer' = timer
    BY <1>8 DEF Arbitrate, NothingPending, RealSupersedes, EarlyCommit, Hold, VBlankCommit, NotYet,
                Arbitrating
  <2>2. flag' => flag
    BY <1>8 DEF Arbitrate, NothingPending, RealSupersedes, EarlyCommit, Hold, VBlankCommit, NotYet,
                FlagHolds
  <2>3. pass'.pc # "poll"
    BY <1>8, <1>t, ArbiterEnds
  <2> QED
    BY <1>t, <1>i, <2>1, <2>2, <2>3 DEF TimerInv, TimerOwned, TimerAhead, TimerFollowsSlot
<1>9. CASE End
  BY <1>9, TimerEnd
<1> QED
  BY <1>1, <1>2, <1>3, <1>4, <1>5, <1>6, <1>7, <1>8, <1>9 DEF Next

\* Whenever the loop sleeps, the commit timer is set for the pending frame or its
\* flag is already up, and with nothing to commit early both are off
\* (steamcompmgr.cpp:9537-9577).
THEOREM TimerInStep == Spec => []TimerFollowsSlot
<1>1. TimerInv => TimerFollowsSlot
  BY DEF TimerInv
<1> QED
  BY TimerInit, TimerStep, <1>1, PTL DEF Spec

=============================================================================
