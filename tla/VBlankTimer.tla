---------------------------- MODULE VBlankTimer ----------------------------
(***************************************************************************)
(* The vblank timer: the one source of wake-ups that keeps the compositor  *)
(* loop running when nothing else does (src/vblankmanager.cpp), with the   *)
(* loop's use of it (src/steamcompmgr.cpp) and the threads that report     *)
(* flips: the KMS thread ("drm"), whose commit blocks the loop until the   *)
(* flip, the parent compositor's feedback ("wayland"), and the flip thread *)
(* of OpenVR, which uses the nudge thread and its pipe ("nudge").          *)
(*                                                                         *)
(* Time is relative: `phase' is the time since the last vblank modulo a    *)
(* refresh, `timer.wake' the time until the scheduled wake-up (negative    *)
(* once it is overdue).  A tick is a fraction of a refresh.                *)
(***************************************************************************)
EXTENDS Integers, Sequences, SequencesExt, FiniteSetsExt

CONSTANTS
  Interval,        \* ticks of a refresh
  RedZone,         \* m_ulVBlankDrawBufferRedZone
  Starting,        \* kStartingVBlankDrawTime
  MinCompositing,  \* m_ulVBlankDrawTimeMinCompositing
  VRRFlushing,     \* kVRRFlushingTime, the red zone of adaptive sync
  Alpha, Decay,    \* m_ulVBlankRateOfDecayPercentage of kVBlankRateOfDecayMax
  StaleAge,        \* the millisecond after which a nudged vblank is ignored
  Backends,        \* the backends to explore
  MaxDraw,         \* bound: a draw time, and the age of a vblank, saturate here
  MaxLate,         \* bound: how overdue a wake-up may get before the loop sees it
  MaxInFlight,     \* bound: commits the parent compositor has not answered
  PipeSize         \* vblanks the nudge pipe holds

ASSUME TimingAssumption ==
  /\ Interval \in Nat \ {0} /\ RedZone \in 0..Interval
  /\ Starting \in Nat /\ VRRFlushing \in Nat /\ MinCompositing \in Nat
  /\ Decay \in Nat \ {0} /\ Alpha \in 0..Decay
ASSUME BoundsAssumption ==
  /\ StaleAge \in Nat /\ MaxLate \in Nat /\ MaxInFlight \in Nat /\ PipeSize \in Nat \ {0}
  /\ MaxDraw \in Nat /\ MaxDraw >= Interval /\ MaxDraw >= StaleAge /\ MaxDraw >= Starting
  /\ Backends \subseteq {"drm", "wayland", "nudge"}

VARIABLES
  backend,   \* which backend presents; it decides between timerfd and nudge thread
  phase,     \* (now - m_ulLastVBlank) modulo a refresh
  armed,     \* m_bArmed
  timer,     \* the timerfd with m_TimerFDSchedule: set or not, wake-up from now, offset
  rolling,   \* m_ulRollingMaxDrawTime
  lastDraw,  \* m_ulLastDrawTime
  nudger,    \* the nudge thread: pc, and the time it still sleeps in FrameSync
  pipe,      \* ages of the vblanks in the nudge pipe
  loop,      \* the compositor loop: pc, bIsVBlankFromTimer, age of g_SteamCompMgrVBlankTime
  flips      \* commits not answered, and whether a flip is between store and re-arm

timerVars == <<backend, phase, armed, timer, rolling, lastDraw, nudger, pipe, loop, flips>>

UsingTimerFD == backend # "nudge"
NoTimer == [set |-> FALSE, wake |-> 0, offset |-> 0]

\* Draw times the average may see.  A vblank taken before its wake-up point
\* gives a negative one, which the unsigned code reads as a huge value.
Draws == -Interval..MaxDraw

\* The draw time fits in a refresh once it is computed; the starting one need not.
RollingTimes == 0..(Interval - RedZone) \cup {Starting}

\* Nothing clamps the offset of adaptive sync.
Offsets == 0..Interval \cup {VRRFlushing, MinCompositing + VRRFlushing}

TimerTypeOK ==
  /\ backend \in Backends
  /\ phase \in 0..(Interval - 1)
  /\ armed \in BOOLEAN
  /\ timer \in [set : BOOLEAN, wake : -MaxLate..Interval, offset : Offsets]
  /\ rolling \in RollingTimes
  /\ lastDraw \in Draws
  /\ nudger \in [pc : {"wait", "sync"}, left : 0..Interval]
  /\ pipe \in Seq(0..(StaleAge + 1)) /\ Len(pipe) <= PipeSize
  /\ loop \in [pc : {"poll", "event", "pass", "flip", "end"}, vblank : BOOLEAN, age : Draws]
  /\ flips \in [open : 0..MaxInFlight, marked : BOOLEAN]

-----------------------------------------------------------------------------
(* CalcNextWakeupTime: the draw time is averaged, or adopted at once when  *)
(* it spikes, and clamped so that the offset stays within a refresh.       *)

Average(draw) == Alpha * rolling + (Decay - Alpha) * draw

\* Fault: the average is not clamped to what a refresh can hold.
RolledUnclamped(draw) ==
  IF draw - (RedZone \div 2) > rolling THEN draw ELSE Max({0, Average(draw) \div Decay})

Rolled(draw) ==
  LET clamp == Interval - RedZone
      wide  == IF draw - (RedZone \div 2) > rolling THEN draw
               ELSE IF Average(draw) < 0 THEN clamp ELSE Average(draw) \div Decay
  IN  Min({wide, clamp})

\* While compositing the draw time counts as at least the minimum; a wrapped
\* one is huge already and stays.
EffectiveDraws == {lastDraw, IF lastDraw < 0 THEN lastDraw ELSE Max({lastDraw, MinCompositing})}

\* Offsets and rolling times a calculation may come to.  With adaptive sync the
\* rolling time restarts and only the composite time is held back.
Wakeups(preemptive) ==
  { [offset |-> r + RedZone, rolling |-> IF preemptive THEN rolling ELSE r]
      : r \in {Rolled(d) : d \in EffectiveDraws} }
  \cup
  { [offset |-> d + VRRFlushing, rolling |-> IF preemptive THEN rolling ELSE Starting]
      : d \in {0, MinCompositing} }

\* GetNextVBlank: the first point of the grid, less the offset, not yet past.
UntilNext(ph, offset) ==
  LET first == Interval - offset - ph
  IN  IF first >= 0 THEN first ELSE first % Interval

-----------------------------------------------------------------------------
(* ArmNextVBlank, one critical section of m_ScheduleMutex.                 *)

\* Fault: a flip's arming gives way to one already made, like a pre-emptive one.
ArmOnce(preemptive) ==
  IF armed
    THEN UNCHANGED <<armed, timer, rolling>>
    ELSE /\ armed' = TRUE
         /\ IF UsingTimerFD
              THEN \E w \in Wakeups(preemptive) :
                     /\ timer' = [set |-> TRUE, wake |-> UntilNext(phase, w.offset),
                                  offset |-> w.offset]
                     /\ rolling' = w.rolling
              ELSE UNCHANGED <<timer, rolling>>

ArmNextVBlank(preemptive) ==
  IF preemptive /\ armed
    THEN UNCHANGED <<armed, timer, rolling>>
    ELSE /\ armed' = TRUE
         /\ IF UsingTimerFD
              THEN \E w \in Wakeups(preemptive) :
                     /\ timer' = [set |-> TRUE, wake |-> UntilNext(phase, w.offset),
                                  offset |-> w.offset]
                     /\ rolling' = w.rolling
              ELSE UNCHANGED <<timer, rolling>>

TimerInit ==
  /\ backend \in Backends
  /\ phase = 0
  /\ armed = TRUE          \* the loop arms it, pre-emptively, before it first polls
  /\ rolling = Starting /\ lastDraw = Starting
  /\ IF UsingTimerFD
       THEN \E w \in Wakeups(TRUE) :
              timer = [set |-> TRUE, wake |-> UntilNext(0, w.offset), offset |-> w.offset]
       ELSE timer = NoTimer
  /\ nudger = [pc |-> "wait", left |-> 0]
  /\ pipe = <<>>
  /\ loop = [pc |-> "poll", vblank |-> FALSE, age |-> 0]
  /\ flips = [open |-> 0, marked |-> FALSE]

-----------------------------------------------------------------------------
(* Time.                                                                   *)

Older(age, cap) == Min({age + 1, cap})

Tick ==
  /\ timer.set => timer.wake > -MaxLate
  /\ nudger.pc = "sync" => nudger.left > 0
  /\ phase' = (phase + 1) % Interval
  /\ timer' = IF timer.set THEN [timer EXCEPT !.wake = @ - 1] ELSE timer
  /\ nudger' = IF nudger.pc = "sync" THEN [nudger EXCEPT !.left = @ - 1] ELSE nudger
  /\ pipe' = [i \in DOMAIN pipe |-> Older(pipe[i], StaleAge + 1)]
  /\ loop' = [loop EXCEPT !.age = Older(@, MaxDraw)]
  /\ UNCHANGED <<backend, armed, rolling, lastDraw, flips>>

-----------------------------------------------------------------------------
(* The compositor loop.                                                    *)

VBlankReadable == IF UsingTimerFD THEN timer.set /\ timer.wake <= 0 ELSE pipe # <<>>

\* epoll_wait returns with the timer's descriptor; its handler has not run.
PollWakes ==
  /\ loop.pc = "poll" /\ VBlankReadable
  /\ loop' = [loop EXCEPT !.pc = "event"]
  /\ UNCHANGED <<backend, phase, armed, timer, rolling, lastDraw, nudger, pipe, flips>>

\* epoll_wait returns for another reason, a nudge or an X event; it reports
\* every descriptor that is ready, so the timer's is not.
OtherWake ==
  /\ loop.pc = "poll" /\ ~VBlankReadable
  /\ loop' = [loop EXCEPT !.pc = "pass", !.vblank = FALSE]
  /\ UNCHANGED <<backend, phase, armed, timer, rolling, lastDraw, nudger, pipe, flips>>

\* Fault: a late expiry is ignored, as the nudge path does with a stale vblank.
TimerPollInIgnoresLate ==
  /\ loop.pc = "event" /\ UsingTimerFD
  /\ IF timer.wake >= 0
       THEN /\ armed' = FALSE /\ timer' = NoTimer
            /\ loop' = [loop EXCEPT !.pc = "pass", !.vblank = TRUE, !.age = -timer.wake]
       ELSE /\ loop' = [loop EXCEPT !.pc = "poll"]
            /\ UNCHANGED <<armed, timer>>
  /\ UNCHANGED <<backend, phase, rolling, lastDraw, nudger, pipe, flips>>

\* OnPollIn with a timerfd.  The schedule is the one armed last, whichever
\* expiry woke the poll.
TimerPollIn ==
  /\ loop.pc = "event" /\ UsingTimerFD
  /\ IF armed
       THEN /\ armed' = FALSE
            /\ loop' = [loop EXCEPT !.pc = "pass", !.vblank = TRUE,
                                    !.age = Min({-timer.wake, MaxDraw})]
            /\ timer' = NoTimer
       ELSE /\ loop' = [loop EXCEPT !.pc = "pass", !.vblank = FALSE]
            /\ UNCHANGED <<armed, timer>>
  /\ UNCHANGED <<backend, phase, rolling, lastDraw, nudger, pipe, flips>>

\* Fault: a stale vblank is dropped and nothing re-arms.
NudgePollInDrops ==
  /\ loop.pc = "event" /\ ~UsingTimerFD
  /\ pipe' = Tail(pipe)
  /\ IF Head(pipe) > StaleAge
       THEN loop' = [loop EXCEPT !.pc = "pass", !.vblank = FALSE]
       ELSE loop' = [loop EXCEPT !.pc = "pass", !.vblank = TRUE, !.age = Head(pipe)]
  /\ UNCHANGED <<backend, phase, armed, timer, rolling, lastDraw, nudger, flips>>

\* OnPollIn with the pipe: one vblank is read; one that waited too long is
\* ignored and the timer armed again.
NudgePollIn ==
  /\ loop.pc = "event" /\ ~UsingTimerFD
  /\ pipe' = Tail(pipe)
  /\ IF Head(pipe) > StaleAge
       THEN /\ ArmNextVBlank(TRUE)
            /\ loop' = [loop EXCEPT !.pc = "pass", !.vblank = FALSE]
       ELSE /\ loop' = [loop EXCEPT !.pc = "pass", !.vblank = TRUE, !.age = Head(pipe)]
            /\ UNCHANGED <<armed, timer, rolling>>
  /\ UNCHANGED <<backend, phase, lastDraw, nudger, flips>>

\* The pass presents nothing, or its commit is refused.
PassIdle ==
  /\ loop.pc = "pass"
  /\ loop' = [loop EXCEPT !.pc = "end"]
  /\ UNCHANGED <<backend, phase, armed, timer, rolling, lastDraw, nudger, pipe, flips>>

\* Fault: the commit on KMS does not wait for its flip.
PassPresentsAhead ==
  /\ loop.pc = "pass"
  /\ lastDraw' = loop.age
  /\ IF backend = "nudge"
       THEN flips' = flips
       ELSE flips.open < MaxInFlight /\ flips' = [flips EXCEPT !.open = @ + 1]
  /\ loop' = [loop EXCEPT !.pc = "end"]
  /\ UNCHANGED <<backend, phase, armed, timer, rolling, nudger, pipe>>

\* The pass presents: the draw time is measured from the last vblank taken, and
\* KMS then waits for the flip.
PassPresents ==
  /\ loop.pc = "pass"
  /\ lastDraw' = loop.age
  /\ IF backend = "nudge"
       THEN flips' = flips
       ELSE flips.open < MaxInFlight /\ flips' = [flips EXCEPT !.open = @ + 1]
  /\ loop' = [loop EXCEPT !.pc = IF backend = "drm" THEN "flip" ELSE "end"]
  /\ UNCHANGED <<backend, phase, armed, timer, rolling, nudger, pipe>>

\* A commit that puts the screen to sleep asks for no flip event and waits for
\* none.
PassBlanks ==
  /\ loop.pc = "pass" /\ backend = "drm"
  /\ lastDraw' = loop.age
  /\ loop' = [loop EXCEPT !.pc = "end"]
  /\ UNCHANGED <<backend, phase, armed, timer, rolling, nudger, pipe, flips>>

\* The end of the pass: after a vblank of the timer it is armed again, in case
\* no flip does it.
PassEnds ==
  /\ loop.pc = "end"
  /\ IF loop.vblank THEN ArmNextVBlank(TRUE) ELSE UNCHANGED <<armed, timer, rolling>>
  /\ loop' = [loop EXCEPT !.pc = "poll", !.vblank = FALSE]
  /\ UNCHANGED <<backend, phase, lastDraw, nudger, pipe, flips>>

-----------------------------------------------------------------------------
(* Flips.  MarkVBlank stores the time outside the lock and arms under it.  *)

FlipExpected == backend = "nudge" \/ flips.open > 0

FlipMarks ==
  /\ ~flips.marked /\ FlipExpected
  /\ phase' \in 0..(Interval - 1)    \* the flip's own timestamp
  /\ flips' = [flips EXCEPT !.marked = TRUE]
  /\ UNCHANGED <<backend, armed, timer, rolling, lastDraw, nudger, pipe, loop>>

FlipArms ==
  /\ flips.marked
  /\ ArmNextVBlank(FALSE)
  /\ flips' = [open |-> IF backend = "nudge" THEN flips.open ELSE flips.open - 1, marked |-> FALSE]
  /\ loop' = IF loop.pc = "flip" THEN [loop EXCEPT !.pc = "end"] ELSE loop
  /\ UNCHANGED <<backend, phase, lastDraw, nudger, pipe>>

\* The parent compositor discards a commit: nobody marks a vblank.
FlipDiscarded ==
  /\ backend = "wayland" /\ ~flips.marked /\ flips.open > 0
  /\ flips' = [flips EXCEPT !.open = @ - 1]
  /\ UNCHANGED <<backend, phase, armed, timer, rolling, lastDraw, nudger, pipe, loop>>

-----------------------------------------------------------------------------
(* The nudge thread.                                                       *)

NudgeSync ==
  /\ ~UsingTimerFD /\ nudger.pc = "wait" /\ armed
  /\ \E w \in Wakeups(FALSE) :
       /\ nudger' = [pc |-> "sync", left |-> UntilNext(phase, w.offset)]
       /\ rolling' = w.rolling
  /\ UNCHANGED <<backend, phase, armed, timer, lastDraw, pipe, loop, flips>>

\* The wake-up is written to the pipe and the timer no longer armed, in one
\* critical section; a full pipe loses the write.
NudgeWrite ==
  /\ nudger.pc = "sync" /\ nudger.left = 0
  /\ armed' = FALSE
  /\ pipe' = IF Len(pipe) < PipeSize THEN Append(pipe, 0) ELSE pipe
  /\ nudger' = [pc |-> "wait", left |-> 0]
  /\ UNCHANGED <<backend, phase, timer, rolling, lastDraw, loop, flips>>

-----------------------------------------------------------------------------
TimerNext ==
  \/ Tick
  \/ PollWakes \/ OtherWake \/ TimerPollIn \/ NudgePollIn
  \/ PassIdle \/ PassPresents \/ PassBlanks \/ PassEnds
  \/ FlipMarks \/ FlipArms \/ FlipDiscarded
  \/ NudgeSync \/ NudgeWrite

TimerSpec == TimerInit /\ [][TimerNext]_timerVars

\* Time passes, the loop and the nudge thread run, KMS flips what it accepted,
\* and a flip that has stored its time goes on to arm.  Nothing is assumed of
\* the parent compositor, of other wake-ups, or of the loop presenting.
TimerFairness ==
  /\ WF_timerVars(Tick)
  /\ WF_timerVars(PollWakes) /\ WF_timerVars(TimerPollIn \/ NudgePollIn)
  /\ WF_timerVars(PassIdle \/ PassPresents \/ PassBlanks) /\ WF_timerVars(PassEnds)
  /\ WF_timerVars(backend = "drm" /\ FlipMarks) /\ WF_timerVars(FlipArms)
  /\ WF_timerVars(NudgeSync) /\ WF_timerVars(NudgeWrite)

TimerFairSpec == TimerSpec /\ TimerFairness

-----------------------------------------------------------------------------
(* Properties.                                                             *)

\* The loop never sleeps without something that will wake it: whenever it is in
\* epoll_wait the timer is armed or a vblank waits in the pipe, whichever flips
\* were discarded, wake-ups ignored or writes lost (steamcompmgr.cpp re-arms
\* "so we don't stop vblanking forever").
NeverStalls == loop.pc = "poll" => armed \/ pipe # <<>>

\* With a timerfd, armed means that the descriptor is set, at every moment the
\* schedule mutex is free: OnPollIn and ArmNextVBlank keep the two in step.
ArmedIsSet == UsingTimerFD => (armed <=> timer.set)

\* An armed wake-up is aimed at a vblank of the newest known grid: wake-up plus
\* offset falls on the last vblank plus whole refreshes, once the flip that moved
\* the grid has armed.
OnLatestGrid ==
  timer.set /\ ~flips.marked => (phase + timer.wake + timer.offset) % Interval = 0

\* On KMS the loop is never handed a vblank before its wake-up point: its commit
\* blocks until the flip has armed, so a flip cannot re-arm between the expiry
\* and the handler.
KmsWakesOnTime == backend = "drm" /\ loop.vblank => loop.age >= 0

\* On KMS vblanks themselves keep arriving, unless the loop goes on presenting
\* between them (tearing), when each flip moves the wake-up.
VBlanksRecur ==
  backend = "drm" => \/ []<>(loop.pc = "pass" /\ loop.vblank)
                     \/ []<>(loop.pc = "flip" /\ ~loop.vblank)

=============================================================================
