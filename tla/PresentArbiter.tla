--------------------------- MODULE PresentArbiter ---------------------------
(***************************************************************************)
(* The arbiter of a compositor pass (src/steamcompmgr.cpp) on a native KMS *)
(* output with a fixed refresh and the causal frame-generation policy: on  *)
(* every wake-up of the loop it decides between real content, an overlay   *)
(* update, a forced repaint and the one generated frame that is pending,   *)
(* and which of them waits.  With it, the one-shot timer of early commits, *)
(* and as much of src/rendervulkan.cpp as the arbiter calls: the planning, *)
(* consumption and discarding of the pending frame and the feedback of     *)
(* flips.                                                                  *)
(*                                                                         *)
(* A commit on KMS returns after its flip, so no present is in flight when *)
(* the arbiter runs.  Times are relative to now, in ticks of a fraction of *)
(* a refresh.  Metrics, which decide nothing, are left out.                *)
(***************************************************************************)
EXTENDS Integers

CONSTANTS
  Refresh,     \* ticks of a refresh
  Offset,      \* how long before a vblank the vblank timer wakes the loop
  Leads,       \* learned commit-to-flip leads with their margin; 0: not yet learned
  Budget,      \* k_nFramegenMaxDeferredOverlay
  BaseModes,   \* whether generated frames are composited with live overlays
  MaxCadence,  \* bound: ticks to the predicted arrival of a real frame
  MaxLate      \* bound: how far a pending frame's target may pass before a wake-up

ASSUME TimingAssumption ==
  /\ Refresh \in Nat \ {0} /\ Offset \in 1..(Refresh - 1)
  /\ Leads \subseteq 0..Refresh /\ 0 \in Leads
  /\ Budget \in Nat /\ BaseModes \subseteq BOOLEAN
  /\ MaxCadence \in Nat /\ MaxLate \in Nat /\ MaxLate >= Refresh

VARIABLES
  base,         \* base-layer mode
  phase,        \* ticks since the last vblank
  vblankReady,  \* the vblank timer has expired
  pass,         \* the loop: pc, vblank, what was painted, bFramegenDeferOverlay
  content,      \* hasRepaint, hasRepaintNonBasePlane, unrecorded game frame latched
  deferred,     \* nFramegenDeferredOverlay
  forced,       \* g_bForceRepaint
  nudged,       \* the loop's waiter has been nudged
  slot,         \* the pending generated frame: present, time to its target, provisional
  history,      \* real frames since a reset (2 suffice), anchor corrected, latest target used
  busy,         \* the last generation batch has not completed
  lead,         \* the learned lead, 0 before its warm-up
  nextReal,     \* ticks to the predicted next real frame, 0 if none or overdue
  flag,         \* g_bFramegenCommitDeadline
  armedFor,     \* g_ulFramegenCommitDeadlineNs
  timer,        \* the commit timer is set (for armedFor)
  feedback      \* the kind of flip whose feedback is in the mailbox

schedule == <<base, phase, vblankReady>>
commit == <<flag, armedFor, timer>>
prediction == <<slot, history, busy>>
vars == <<schedule, pass, content, deferred, forced, nudged, prediction, lead, nextReal,
          commit, feedback>>

NoSlot == [on |-> FALSE, at |-> 0, provisional |-> FALSE]
NoTarget == [on |-> FALSE, at |-> 0]
Kinds == {"none", "gen", "real"}
Passes == [pc : {"poll", "feedback", "latch", "arbitrate", "flip", "flipped", "end"},
           vblank : BOOLEAN, painted : Kinds, deferOverlay : BOOLEAN]
Contents == [real : BOOLEAN, overlay : BOOLEAN, fresh : BOOLEAN]
Slots == [on : BOOLEAN, at : -MaxLate..(2 * Refresh), provisional : BOOLEAN]
Histories == [reals : 0..2, corrected : BOOLEAN, used : 0..(2 * Refresh)]
Targets == [on : BOOLEAN, at : -(MaxLate + 2 * Refresh)..(2 * Refresh)]

\* Types: a wake-up is planned at most two refreshes ahead, and no more than
\* Budget repaints of an overlay are put off in a row (steamcompmgr.cpp:9357).
TypeOK ==
  /\ base \in BaseModes
  /\ phase \in 0..(Refresh - 1)
  /\ vblankReady \in BOOLEAN
  /\ pass \in Passes
  /\ content \in Contents
  /\ deferred \in 0..Budget
  /\ forced \in BOOLEAN /\ nudged \in BOOLEAN
  /\ slot \in Slots
  /\ history \in Histories
  /\ busy \in BOOLEAN
  /\ lead \in Leads
  /\ nextReal \in 0..MaxCadence
  /\ flag \in BOOLEAN /\ timer \in BOOLEAN
  /\ armedFor \in Targets
  /\ feedback \in Kinds

Init ==
  /\ base \in BaseModes
  /\ phase = 0 /\ vblankReady = FALSE
  /\ pass = [pc |-> "poll", vblank |-> FALSE, painted |-> "none", deferOverlay |-> FALSE]
  /\ content = [real |-> FALSE, overlay |-> FALSE, fresh |-> FALSE]
  /\ deferred = 0 /\ forced = FALSE /\ nudged = FALSE
  /\ slot = NoSlot
  /\ history = [reals |-> 0, corrected |-> FALSE, used |-> 0]
  /\ busy = FALSE /\ lead = 0 /\ nextReal = 0
  /\ flag = FALSE /\ armedFor = NoTarget /\ timer = FALSE
  /\ feedback = "none"

-----------------------------------------------------------------------------
(* The pending frame.                                                      *)

\* vulkan_framegen_fixed_refresh_commit_deadline_ns: when to commit s.
Deadline(s, l) == IF s.on /\ l > 0 THEN [on |-> TRUE, at |-> s.at - l] ELSE NoTarget

\* The grid starts at the first vblank whose ordinary wake-up is still ahead.
Grid ==
  LET first == Refresh - phase
      start == IF first >= Offset THEN first ELSE first + Refresh
  IN  {start, start + Refresh, start + 2 * Refresh}

\* plan_next_causal_slot: the first grid target after those already used.
NextTarget(h) ==
  CHOOSE t \in Grid : t > h.used /\ \A u \in Grid : u > h.used => t <= u

\* A slot can be met when its wake-up, the commit deadline once a lead is
\* learned, is still ahead, and it is not beyond the forward cap.
CanMeet(t, l) == t - (IF l > 0 THEN l ELSE Offset) > 0 /\ t <= 2 * Refresh

\* framegen_causal_submit: what it may make of slot s and history h.  It may
\* always decline, for cadence, cost or strength; a decline for want of capacity
\* uses the target up.
Planned(s, h, l) ==
  LET t == NextTarget(h)
  IN  {[slot |-> s, history |-> h, submitted |-> FALSE]} \cup
      IF ~s.on /\ ~busy /\ h.reals = 2 /\ CanMeet(t, l)
        THEN { [slot |-> NoSlot, history |-> [h EXCEPT !.used = t], submitted |-> FALSE],
               [slot |-> [on |-> TRUE, at |-> t, provisional |-> ~h.corrected],
                history |-> [h EXCEPT !.used = t], submitted |-> TRUE] }
        ELSE {}

\* A submission forces a repaint, which nudges the loop.
Plan(s, h, l, force) ==
  \E p \in Planned(s, h, l) :
    /\ slot' = p.slot /\ history' = p.history
    /\ busy' = (busy \/ p.submitted)
    /\ forced' = (force \/ p.submitted)
    /\ nudged' = (nudged \/ p.submitted)

-----------------------------------------------------------------------------
(* Time, and what other threads do at any moment.                          *)

Less(n) == IF n > 0 THEN n - 1 ELSE 0

\* Bound: a target that has passed by MaxLate, and the timer's with it, gets no later.
Passed == slot.on /\ slot.at = -MaxLate

Later(t, bound) == IF t.on /\ ~Passed /\ t.at > bound THEN [t EXCEPT !.at = @ - 1] ELSE t

Tick ==
  /\ phase' = (phase + 1) % Refresh
  /\ vblankReady' = (vblankReady \/ phase' = Refresh - Offset)
  /\ slot' = Later(slot, -MaxLate)
  /\ armedFor' = Later(armedFor, -(MaxLate + 2 * Refresh))
  /\ history' = [history EXCEPT !.used = Less(@)]
  /\ nextReal' = Less(nextReal)
  /\ pass' = IF pass.pc = "flip" /\ phase' = 0 THEN [pass EXCEPT !.pc = "flipped"] ELSE pass
  /\ UNCHANGED <<base, content, deferred, forced, nudged, busy, lead, flag, timer, feedback>>

GpuDone ==
  /\ busy /\ busy' = FALSE
  /\ UNCHANGED <<schedule, pass, content, deferred, forced, nudged, slot, history, lead,
                 nextReal, commit, feedback>>

\* force_repaint.
ForceRepaint ==
  /\ forced' = TRUE /\ nudged' = TRUE
  /\ UNCHANGED <<schedule, pass, content, deferred, prediction, lead, nextReal, commit, feedback>>

\* The cursor moves on the Wayland server's thread.
CursorRepaint ==
  /\ content' = [content EXCEPT !.real = TRUE]
  /\ UNCHANGED <<schedule, pass, deferred, forced, nudged, prediction, lead, nextReal, commit,
                 feedback>>

\* page_flip_handler: feedback is published, the vblank timer armed again, the
\* commit released and the loop nudged.
FlipDone ==
  /\ pass.pc = "flipped"
  /\ pass' = [pass EXCEPT !.pc = "end"]
  /\ feedback' = pass.painted
  /\ vblankReady' = FALSE /\ nudged' = TRUE
  /\ UNCHANGED <<base, phase, content, deferred, forced, prediction, lead, nextReal, commit>>

-----------------------------------------------------------------------------
(* A pass: the poll, the feedback of flips, the latching of new content.   *)

\* Every descriptor that is ready is served: a vblank, an expired commit timer,
\* a nudge, any event of a client.
Wake ==
  /\ pass.pc = "poll"
  /\ LET fired == timer /\ armedFor.at <= 0
     IN  flag' = (flag \/ fired) /\ timer' = (timer /\ ~fired)
  /\ pass' = [pass EXCEPT !.pc = "feedback", !.vblank = vblankReady]
  /\ vblankReady' = FALSE /\ nudged' = FALSE
  /\ UNCHANGED <<base, phase, content, deferred, forced, prediction, lead, nextReal, armedFor,
                 feedback>>

\* framegen_apply_live_flip_feedback for the flip of the anchor's frame.  When the
\* flip was not where it was expected, a slot planned from the provisional anchor
\* is discarded and the targets it used are free again.
Corrected(moved) ==
  LET h == [history EXCEPT !.corrected = TRUE]
  IN  [slot |-> IF moved /\ slot.provisional THEN NoSlot ELSE slot,
       history |-> IF moved THEN [h EXCEPT !.used = 0] ELSE h]

\* The lead learns from every flip; the anchor from that of its own frame, which
\* also plans again when nothing is pending.
DrainFeedback ==
  /\ lead' \in IF feedback = "none" THEN {lead} ELSE Leads
  /\ IF feedback = "real" /\ history.reals > 0 /\ ~history.corrected
       THEN \E moved \in BOOLEAN :
              LET c == Corrected(moved) IN Plan(c.slot, c.history, lead', forced)
       ELSE UNCHANGED <<prediction, forced, nudged>>
  /\ feedback' = "none"

\* Without a deadline the commit timer is cleaned up before anything else.
Feedback ==
  /\ pass.pc = "feedback"
  /\ DrainFeedback
  /\ IF Deadline(slot', lead').on
       THEN UNCHANGED commit
       ELSE flag' = FALSE /\ armedFor' = NoTarget /\ timer' = FALSE
  /\ pass' = [pass EXCEPT !.pc = "latch"]
  /\ UNCHANGED <<schedule, content, deferred, nextReal>>

\* Fault: the deferrals of an overlay update are forgotten at every pass.
LatchForgets(real, overlay, reset) ==
  /\ content' = [real |-> content.real \/ real, overlay |-> content.overlay \/ overlay,
                 fresh |-> content.fresh \/ real]
  /\ deferred' = 0
  /\ slot' = IF reset THEN NoSlot ELSE slot
  /\ history' = IF reset THEN [history EXCEPT !.reals = 0] ELSE history

\* Commits that are done are latched; a change of focus or of colour resets the
\* history and with it what is pending.
Latched(real, overlay, reset) ==
  /\ content' = [real |-> content.real \/ real, overlay |-> content.overlay \/ overlay,
                 fresh |-> content.fresh \/ real]
  /\ deferred' = IF content'.overlay THEN deferred ELSE 0
  /\ slot' = IF reset THEN NoSlot ELSE slot
  /\ history' = IF reset THEN [history EXCEPT !.reals = 0] ELSE history

Latch ==
  /\ pass.pc = "latch"
  /\ \E real, overlay, reset \in BOOLEAN : Latched(real, overlay, reset)
  /\ pass' = [pass EXCEPT !.pc = "arbitrate"]
  /\ UNCHANGED <<schedule, forced, nudged, busy, lead, nextReal, commit, feedback>>

-----------------------------------------------------------------------------
(* What a decision of the arbiter leads to.                                *)

\* A forced repaint is taken only at a vblank.
Taken == pass.vblank /\ forced
Left == forced /\ ~pass.vblank

WantsPaint == pass.vblank /\ (content.real \/ content.overlay \/ Taken)

\* framegen_record_real_frame: a new game frame replaces what is pending, is the
\* new anchor, to be shown at the next vblank, and plans the next slot.
RecordReal ==
  /\ content' = [content EXCEPT !.fresh = FALSE]
  /\ nextReal' \in 0..MaxCadence
  /\ Plan(NoSlot, [reals |-> IF history.reals < 2 THEN history.reals + 1 ELSE 2,
                   corrected |-> FALSE, used |-> Refresh - phase], lead, Left)

\* paint_all and the backend's Present with slot s pending: a pending frame is
\* consumed first, whoever asked for the paint.
Paint(s, defers) ==
  LET generated == s.on /\ ~busy
  IN  /\ pass' = [pass EXCEPT !.pc = "flip", !.deferOverlay = defers,
                              !.painted = IF generated THEN "gen" ELSE "real"]
      /\ IF generated \/ ~content.fresh
           THEN /\ IF s.on THEN Plan(NoSlot, history, lead, Left)
                           ELSE slot' = s /\ forced' = Left /\ UNCHANGED <<history, busy, nudged>>
                /\ UNCHANGED <<content, nextReal>>
           ELSE RecordReal

\* No paint: a vblank then goes to a hardware repeat and the planner is asked
\* for a slot (vulkan_framegen_causal_tick).
Repeat(s, force, defers) ==
  /\ pass' = [pass EXCEPT !.pc = "end", !.deferOverlay = defers]
  /\ IF pass.vblank
       THEN Plan(s, history, lead, force)
       ELSE slot' = s /\ forced' = force /\ UNCHANGED <<history, busy, nudged>>
  /\ UNCHANGED <<content, nextReal>>

PaintOrRepeat(s, paint) == IF paint THEN Paint(s, FALSE) ELSE Repeat(s, Left, FALSE)

-----------------------------------------------------------------------------
(* The arbiter.                                                            *)

Arbitrating ==
  /\ pass.pc = "arbitrate"
  /\ UNCHANGED <<schedule, lead, armedFor, timer, feedback>>

\* A slot with a deadline of its own, or one for the next vblank.
OwnDeadline == Deadline(slot, lead)

\* Fault: a fire of the timer is believed whatever it was armed for.
FlagBelieved == flag

\* The flag counts only for the deadline the timer was armed for, and not before it.
FlagHolds == flag /\ armedFor = OwnDeadline /\ OwnDeadline.at <= 0

\* vulkan_framegen_real_arrival_blocks_early_commit.
RealArrivalBlocks == nextReal > 0 /\ nextReal <= lead

EarlyCommitStarts == FlagHolds /\ ~RealArrivalBlocks

\* Fault: the budget is exceeded by one.
MayDeferOneMore == deferred <= Budget

MayDefer == deferred < Budget

NothingPending ==
  /\ Arbitrating /\ ~slot.on
  /\ flag' = FALSE /\ UNCHANGED deferred
  /\ PaintOrRepeat(slot, WantsPaint)

\* Fault: the prediction is kept when real content has been latched.
RealYields ==
  /\ Arbitrating /\ slot.on /\ content.real
  /\ flag' = FALSE /\ UNCHANGED deferred
  /\ PaintOrRepeat(slot, WantsPaint)

\* Real content always takes priority: the prediction is dropped.
RealSupersedes ==
  /\ Arbitrating /\ slot.on /\ content.real
  /\ flag' = (flag /\ ~OwnDeadline.on)
  /\ UNCHANGED deferred
  /\ PaintOrRepeat(NoSlot, WantsPaint)

\* Present the pending frame if it is ready and no overlay update has waited too
\* long; else discard it, and let an overlay update that was going to paint do so.
PresentGenerated ==
  LET defers == content.overlay /\ ~base
  IN  IF ~busy /\ (defers => MayDefer)
        THEN /\ deferred' = IF defers THEN deferred + 1 ELSE deferred
             /\ Paint(slot, defers)
        ELSE /\ UNCHANGED deferred
             /\ PaintOrRepeat(NoSlot, WantsPaint /\ content.overlay)

EarlyCommit ==
  /\ Arbitrating /\ slot.on /\ ~content.real
  /\ OwnDeadline.on /\ EarlyCommitStarts
  /\ flag' = FALSE
  /\ PresentGenerated

\* Fault: a paint asked for by something else goes through.
HoldLetsThrough ==
  /\ Arbitrating /\ slot.on /\ ~content.real
  /\ OwnDeadline.on /\ ~EarlyCommitStarts
  /\ flag' = FlagHolds /\ UNCHANGED deferred
  /\ PaintOrRepeat(slot, WantsPaint)

\* The early commit is declined: a paint asked for by something else is held
\* back, within the budget, so that it does not take the pending frame along.
Hold ==
  /\ Arbitrating /\ slot.on /\ ~content.real
  /\ OwnDeadline.on /\ ~EarlyCommitStarts
  /\ flag' = FlagHolds
  /\ IF WantsPaint
       THEN IF MayDefer
              THEN deferred' = deferred + 1 /\ Repeat(slot, forced, TRUE)
              ELSE UNCHANGED deferred /\ Paint(NoSlot, FALSE)
       ELSE UNCHANGED deferred /\ Repeat(slot, Left, FALSE)

\* Without a deadline the pending frame fills the next vblank.
VBlankCommit ==
  /\ Arbitrating /\ slot.on /\ ~content.real
  /\ ~OwnDeadline.on /\ pass.vblank
  /\ UNCHANGED flag
  /\ PresentGenerated

NotYet ==
  /\ Arbitrating /\ slot.on /\ ~content.real
  /\ ~OwnDeadline.on /\ ~pass.vblank
  /\ UNCHANGED <<flag, deferred>>
  /\ Repeat(slot, Left, FALSE)

-----------------------------------------------------------------------------
(* The end of the pass.                                                    *)

\* Fault: the repaint flags are cleared whether or not something was painted.
ClearedAnyway ==
  [content EXCEPT !.real = FALSE, !.overlay = @ /\ pass.deferOverlay]

Cleared ==
  IF pass.painted = "none" THEN content
  ELSE [content EXCEPT !.real = FALSE, !.overlay = @ /\ pass.deferOverlay]

\* Fault: the timer is set only when none is owned.
RearmOnce(d) ==
  IF armedFor.on THEN UNCHANGED commit /\ UNCHANGED nudged
  ELSE flag' = FALSE /\ armedFor' = d /\ timer' = TRUE /\ UNCHANGED nudged

\* A deadline ahead: the timer is set for it unless it is already.
Rearm(d) ==
  /\ IF armedFor = d THEN UNCHANGED commit
     ELSE flag' = FALSE /\ armedFor' = d /\ timer' = TRUE
  /\ UNCHANGED nudged

\* Fault: a deadline that has passed is left to a timer that will not fire.
RetryNever(d) == UNCHANGED commit /\ UNCHANGED nudged

\* A deadline that has passed while the loop was busy: run again at once.
Retry(d) ==
  IF flag /\ armedFor = d
    THEN UNCHANGED commit /\ UNCHANGED nudged
    ELSE flag' = TRUE /\ armedFor' = d /\ timer' = FALSE /\ nudged' = TRUE

Disown ==
  /\ IF armedFor.on THEN flag' = FALSE /\ armedFor' = NoTarget /\ timer' = FALSE
                    ELSE UNCHANGED commit
  /\ UNCHANGED nudged

End ==
  /\ pass.pc = "end"
  /\ content' = Cleared
  /\ IF ~OwnDeadline.on THEN Disown
     ELSE IF OwnDeadline.at <= 0 THEN Retry(OwnDeadline) ELSE Rearm(OwnDeadline)
  /\ pass' = [pc |-> "poll", vblank |-> FALSE, painted |-> "none", deferOverlay |-> FALSE]
  /\ UNCHANGED <<schedule, deferred, forced, prediction, lead, nextReal, feedback>>

-----------------------------------------------------------------------------
Arbitrate ==
  \/ NothingPending \/ RealSupersedes
  \/ EarlyCommit \/ Hold \/ VBlankCommit \/ NotYet

Next ==
  \/ Tick \/ GpuDone \/ ForceRepaint \/ CursorRepaint \/ FlipDone
  \/ Wake \/ Feedback \/ Latch \/ Arbitrate \/ End

Spec == Init /\ [][Next]_vars

\* Time passes, KMS flips, the GPU finishes, and the loop runs when something is
\* due.  Nothing obliges clients, the cursor or other threads to do anything.
Fairness ==
  /\ WF_vars(Tick) /\ WF_vars(FlipDone) /\ WF_vars(GpuDone)
  /\ WF_vars(Wake /\ (vblankReady \/ nudged \/ (timer /\ armedFor.at <= 0)))
  /\ WF_vars(Feedback) /\ WF_vars(Latch) /\ WF_vars(Arbitrate) /\ WF_vars(End)

FairSpec == Spec /\ Fairness

-----------------------------------------------------------------------------
(* Properties.                                                             *)

\* Real content is never overtaken by a prediction: no pass shows a generated
\* frame while a newer game frame has been latched and not shown.
RealNeverOvertaken ==
  [][ pass.pc = "arbitrate" /\ pass'.painted = "gen" => ~content.fresh ]_vars

\* A latched game frame that has not been composited is never forgotten: when
\* the loop sleeps, the repaint flag still stands for it.
NothingForgotten == pass.pc = "poll" /\ content.fresh => content.real

\* An overlay update is never eaten: its flag is cleared only by a pass that
\* composited the live overlays.
OverlayNotEaten ==
  [][ content.overlay /\ ~content'.overlay => pass.painted = "real" \/ (base /\ pass.painted = "gen") ]_vars

\* A generated frame with a commit deadline of its own is not committed before it,
\* whatever slot the timer was once armed for and however the lead moves.
NeverBeforeDeadline ==
  [][ pass.pc = "arbitrate" /\ pass'.painted = "gen" /\ OwnDeadline.on => OwnDeadline.at <= 0 ]_vars

\* When the loop sleeps, the commit timer follows the pending frame: the deadline
\* has a timer set for it or its flag is up, and without one both are off.
TimerFollowsSlot ==
  pass.pc = "poll" =>
    IF OwnDeadline.on
      THEN armedFor = OwnDeadline /\ (timer \/ flag)
      ELSE ~timer /\ ~flag

\* Whatever is asked for is shown, however predictions and vblanks interleave: a
\* latched game frame is composited, an overlay update is not starved by an
\* endless supply of predictions ("so a steadily updating overlay is never
\* starved"), and a pending frame is shown, replaced by a paint or discarded.
WorkIsShown ==
  /\ content.fresh ~> ~content.fresh
  /\ content.overlay ~> ~content.overlay
  /\ slot.on ~> ~slot.on \/ pass.painted # "none"

=============================================================================
