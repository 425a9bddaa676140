# gamescope: a TLA+ verification project

TLA+ models of the concurrent and time-driven parts of gamescope, the TLC runs that
check them on small instances and TLAPS proofs of what matters most for every value
of the constants. Line numbers are those of the sources beside this directory
(`src/…`); `PROJECT.json` maps every definition of a model to the lines it stands for.

Contents: 1 the system, 2 the plan, 3 the modules, 4 the runs and their bounds,
5 fairness, 6 the proofs, 7 where the code and its texts disagree, 8 what is not modelled.

## 1. The system

gamescope is a micro-compositor for one game. One **compositor thread**
(`steamcompmgr.cpp`, `steamcompmgr_main`) runs the loop: wait in epoll, take the
vblank, import and latch client frames, decide what to paint, composite, commit to a
backend. Around it run the **Wayland server's thread** (`wlserver.cpp`), the **image
waiter's thread** (`waitable.h`), the **flip or feedback thread** of the backend
(`DRMBackend.cpp`, `WaylandBackend.cpp`, `OpenVRBackend.cpp`), the **present-wait
thread** of Vulkan swapchains (`rendervulkan.cpp`), and a nudge thread of the vblank
timer. **Frame generation** (`rendervulkan.cpp`, `framegen/`) inserts frames of its
own between the game's, on the GPU queue, under deadlines.

| component | state it keeps | operations | interacts with | what makes it correct |
|---|---|---|---|---|
| presentation feedback of Vulkan swapchains | present ids, tag ring, mailbox, in-flight counters, `present_wait_lock` | present, re-make swapchain, drain, shut down; waiter loop | compositor ↔ detached waiter thread over atomics, two mutexes, a mailbox | each tag retired once, counters exact, no wait on a destroyed swapchain |
| degradation ladder | rung, hold, recovery counters, miss window, cost table | three decision sites, batch completion, miss, scene change | GPU timings come back later than the decisions that caused them | hysteresis: no flapping, no jam, no stale timings |
| vblank timer | grid, `m_bArmed`, timerfd, draw-time average, nudge pipe | arm, disarm, mark a flip, take a vblank | loop ↔ flip threads over a mutex, an eventfd and a pipe | the loop is always woken again, on the newest grid, not early |
| present arbiter of a pass | repaint flags, deferral budget, pending generated frame, commit timer and its flag | the stages of a pass, vblank and timer wake-ups | wlserver sets flags; the planner offers frames; the commit blocks until the flip | real content first, nothing asked for is forgotten or starved |
| commit queue | wlserver's queue, each window's `commit_queue`, done lists, held commit, callback flags | commit, import, fence signalled, latch, vblank, focus change, window close | three threads over two mutexes | no frame or callback lost, never painting backwards, buffers returned in time |
| causal planner and history | history of real frames, output ring, read pins | record, plan, submit, consume, discard, invalidate | compositor, GPU queue, backends' flips | one generated frame per slot, none of an old epoch |
| delayed (bidirectional) timeline | sorted queue of real and generated entries, epochs | insert, shed, take the front, re-anchor | as above | within a scene nothing older is shown after something newer, and every real frame gets its opportunity |
| VRR hybrid scheduling | anchor, fallback timers | midpoint planning, fallback flip | loop timers | a prediction never delays a real frame |
| lifetimes of commits, textures, buffers | public and private counts, leases, release points, buffer memo | reference, lease, release, destroy | every thread | a buffer is kept while anything uses it, and comes back in the end, however its client is told |
| DRM backend | atomic state, plane state, framebuffers, connectors | prepare, commit, flip handler, mode set | kernel, flip thread | lists, counts and property values are those of the screen after every refusal; the best connector always lights again |
| nested, SDL, OpenVR, headless, deferred backends | planes, feedback | present, feedback | parent window system | as reported to the vblank timer |
| Vulkan device and composition | images, command buffers, timeline semaphores | record, submit, wait | GPU | images are not reused while read |
| focus and X11 windows | window list, local and global focus, what each window says of itself | X events, focus sort, choice | commits, surfaces of the Wayland server | the focus is the one a new choice would make |
| Wayland server and input | surfaces, their ids, the seat's pointer and keyboard | surface made or destroyed, focus set | commits, focus | the seat is told whatever order window, surface and id come in |
| adaptation, refiner, profiles | estimates, files | update, save | – | atomic replacement of files |
| settings, metrics, HUD; PipeWire capture; WSI layer; ReShade; scripts and convars; IME, libinput, emulation; colour, EDID, modes; processes and tools; mangoapp; shaders, protocols | – | see `PROJECT.json` | – | – |

Hard behaviours, in the order in which they bite: GPU fences and timings that come
back in any order; flips reported by another thread while the loop uses the grid they
change; wake-ups that are edge-triggered, discarded or coalesced; repaint requests
kept in plain flags that several conditions clear; frames that are put off again and
again; a detached thread that outlives what it waits on; hysteresis whose counters
are drained by the decisions they gate; commits the kernel refuses half-way through a
change of mode; a release point moved out of a buffer by one thread while another drops
its last reference; a dozen handlers that must each mark the focus as outdated.
`PROJECT.json` lists each hazard at its line.

## 2. The plan

Done, in this order:

1. `PresentWait` – two threads, the smallest complete component.
2. `DeadlineLadder` – control logic of the frame generator.
3. `VBlankTimer` – what keeps the loop alive.
4. `PresentArbiter` – the decision of a pass; it takes recurring vblanks from 3 and
   the pending frame's life cycle from `rendervulkan.cpp`.
5. `CommitQueue` – how a client's frame reaches the screen; it takes recurring
   vblanks from 3.
6. `FrameDelivery` – an abstract specification of what a client is promised, which
   `CommitQueue` implements through `INSTANCE … WITH`.
7. `BufferLease` – commits, textures, framebuffers and client buffers.
8. `DrmCommit` – prepared, committed and kernel state under refused commits.
9. `BidirTimeline` – the delayed timeline of bidirectional frame generation.
10. `WindowFocus` – the choice of the focus and what the seat is told.

1, 4, 5 and 7 to 10 have a `…Proofs` module each, 2 and 3 share `SchedulingProofs`; the
refinement of 6 is proved in `CommitQueueProofs`.

Next:

11. `CausalPlanner` – the pure functions of `framegen/deadline.hpp` (grid, slot
    planning, lead, bias) against a reference definition over bounded inputs; the
    midpoint planner of VRR.
12. PipeWire buffer hand-over, retirement in the WSI layer, the reaper.

Every safety property of a passing run has its theorem. What is left to prove is in
what is left to model: the pure planning functions of 11 are non-recursive arithmetic,
of the kind that `BidirTimelineProofs` has proved of targets and slots.

Replacing rather than adding is the rule for runs: a run must ask something no other
run asks, and a property that a stronger one implies is dropped.

## 3. The modules

### PresentWait (`rendervulkan.cpp:4344-4593, 4862-4889, 6412-6564, 7819-7828`)

A present takes a *tag*; its token is what frame generation later learns a flip time
for. Tags lie in a ring of `RingSize` slots keyed by present id until the waiter
thread has waited for the id. `main` and `waiter` are the program counters of the two
threads with what each has in hand; one step is what a thread does between two points
at which the other may run, so a critical section of `present_tag_lock` or of the
mailbox mutex is one step and the atomic counters are updated by steps of their own
(`NoteEvicted`, `NoteQueued`, `WaiterNote`, `RemakeNote`). `StartPresent` …
`Acquire` are `vulkan_present_to_window`; `Remake*` are `vulkan_remake_swapchain`;
`Waiter*` is the body of `present_wait_thread_func`. The display is external: it shows
what was queued, perhaps skipping ids, and only ids of the current swapchain.
`taken` and `published` are history.

### DeadlineLadder (`framegen/scheduling.hpp:294-612`, `framegen/device.cpp:257-365`, `rendervulkan.cpp:11701-12362, 13707-13818, 7612-7770`)

`rung`, `hold`, `rec`, `missed`, `misses`, `cost` are the variables of the controller,
`batch` the one batch in flight. `CausalDecide` is a decision of the one-slot planner
with its early returns as alternatives (`MissSkip`, `ReservationSkip`, `Admit`,
`Climb`, `PhaseSkip`, `HeldSkip`, `WalkDown`, `SettleAtBottom`), `ReactiveDecide` and
`VrrDecide` the two other sites, `Finish` the completion and collection of a batch,
`TooSlow` a present that finds its batch unfinished, `Invalidate` a change of scene.
Abstractions: one cost per rung stands for its cost keys; the moving average may come
out as the old cost or the new one; the two percentages keep their ratio; a decision
after a frame was dropped or consumed is a separate `CausalDecide`, because whether
the planner admits one depends on times this module does not keep. `TooSlow` does not
decide again, since the batch still runs. `blockedThresholdReported`, which only
limits logging, a slot budget of zero and the bidirectional policy are left out.

### VBlankTimer (`vblankmanager.cpp`, loop in `steamcompmgr.cpp:8611-8634, 9579-9592`)

Time is relative to now: `phase` since the last vblank, `timer.wake` to the wake-up.
`FlipMarks` and `FlipArms` are the two halves of `MarkVBlank` (the grid is stored
before the schedule mutex is taken); everything under that mutex is one step.
`PollWakes`/`TimerPollIn`/`NudgePollIn` are epoll's return and `OnPollIn`,
`OtherWake` any other reason to wake, `PassIdle`/`PassPresents`/`PassBlanks` a pass
without a commit, with one, and one that turns the screen off, `PassEnds` the
pre-emptive re-arming. `NudgeSync`/`NudgeWrite` is the thread that replaces the
timerfd under OpenVR. Draw times saturate at `MaxDraw`, lateness is at most `MaxLate`.
Of the timing constants only the red zone is assumed to fit in a refresh: at the default
of 1.65 ms it does up to 606 Hz, beyond which the unsigned clamp of
`vblankmanager.cpp:145` wraps. The starting draw time (3 ms) need not fit beside it, and
does not above 215 Hz; nor is anything assumed of the offset under VRR, which nothing
clamps.

### PresentArbiter (`steamcompmgr.cpp:9085-9577`, planner and consumption in `rendervulkan.cpp`)

The pass of a native KMS output with a fixed refresh under the causal policy. `pass.pc`
goes through `feedback` (drain flip feedback), `latch` (plan, latch client frames),
`arbitrate`, `flip`/`flipped` (the commit blocks until its flip) and `end`.
`Arbitrate` is the decision itself, as the disjunction of its outcomes:
`NothingPending`, `RealSupersedes`, `EarlyCommit`, `Hold`, `VBlankCommit`, `NotYet`.
`End` is the bookkeeping after the paint: `Cleared` takes the flags down, `Rearm`,
`Retry` and `Disown` keep the commit timer on the pending frame. `content` holds
`hasRepaint`, `hasRepaintNonBasePlane` and whether a latched game frame has not been
composited. The lead of a commit is learned or forgotten by any feedback, anchors may
be corrected, and a plan may or may not be admitted, since a ladder decides that
elsewhere. Left out: tearing, VRR, refused commits, the metrics. A repaint for the
cursor that arrives while the loop blocks in its commit is lost here as in the code.

### CommitQueue (`wlserver.cpp:118-265`, `steamcompmgr.cpp:6906-7119, 7291-7551, 5844-5934`, `commit.cpp`)

Frames are numbered in the order they are committed, as commit ids grow, so a window's
queue is a set. `Commit` is wlserver's handler, `Retrieve` takes its queue, `Import` is
`update_wayland_res` for one frame with its outcomes (no window, broken, a re-commit of
the buffer already shown, ready at once, waiting for a fence), `OnPollIn` the image
waiter's report, `HandleEntry` one entry of `handle_done_commits_*`, `FlushFrameDone`
the frame callbacks of a vblank, `PassEnd` the change of focus, `DestroyWin` a closed
window. The steps of `handle_done_commits_*` are under the mutex of the done list;
`OnPollIn` needs it, so it may not come between them. `fenced` stands for the image
waiter's reference to a commit; it is dropped in the step that reports, where the code
reaps it a little later in the same thread. `Xdg` selects `handle_done_commits_xdg`
instead of the Xwayland version: the difference is where an entry that is not yet due
goes. Left out: a fence that hangs up (`OnPollHangUp`, `commit.cpp:99-103`, after which
a frame would stay where it is), the limiter's per-window flag (every window is
limited), FIFO frames with a desired present time, presentation-feedback events, commits
of surfaces no window claims, fade and streaming, VRR pacing, the pause convar, failures
of epoll, destruction of an Xwayland server.

### FrameDelivery (an abstract specification of `CommitQueue`)

What a client may rely on, whichever threads and queues are between: frames of a window
are latched in the order of their commits (`Latch`), some are passed over or not used
(`Drop`), the newest latched frame of a window is what is shown for it (`Show`), a
buffer returns when its frame is over and not shown (`Returns`), a callback answers what
was latched or discarded (`Answer`). `CommitQueue` instantiates it with `sent` the same,
`status` computed from its queues (`Status`), `open` its windows, `shown` the held
commit, `kept` the locked buffers, `owed` the callbacks, `ready` the windows marked as
having received a commit.

### BufferLease (`rc.h`, `backend.cpp:31-143`, `commit.cpp`, `BufferMemo.cpp`, texture and command-buffer references in `rendervulkan.cpp`, flip handler in `DRMBackend.cpp`)

One buffer of a client and its framebuffer, committed `MaxCommits` times, each commit
with implicit or with explicit sync. Three threads drop references: the compositor, the
image waiter, the thread that handles flips. Whoever drops the framebuffer's last
reference ends its *lease*: it unlocks the `wlr_buffer`, or signals the release point.
The counters are atomic in the code and nothing else is, so a `DecRef` is several steps
(`DecRefRead`, `DecRefTake`, `DecRefCount`, then `DecRefKeeps` or `DecRefReleases`).
`Concurrent` says which kinds a client may use on one buffer whose `DecRef`s interleave
between threads: implicit alone or explicit alone. With both kinds mixed a `DecRef` is
whole, for with more than that the code itself goes wrong (section 7).

A release point is a `shared_ptr` with two owners: the framebuffer (or the `DecRef` that
moved it out), given a copy at `steamcompmgr.cpp:7487`, and the entry of the static
vector of `retrieve_commits` (`wlserver.cpp:120-121`), which lives until the next call.
`listed` is that vector, `Retrieve` the call; the point is signalled by whichever owner
goes last (`Signals`). Two histories tell apart what `DecRef` does to the point: `torn`,
an older one has been put back over the newest commit's; `late`, it has been put back
when no `DecRef` was left to take it. `late` stays set until the point is replaced or
taken. Each access to the pointer and to the point is one step, although two at once are
a data race in the code. Left out: private counts, and XDG windows' list, which is a
local one and goes at the end of the call.

### DrmCommit (`DRMBackend.cpp:752-918, 1062-1180, 1440-1470, 2820-3179, 3320-3409, 3552-3707, 3872-3926, 4103-4217`, `wlserver.cpp:1596-1605, 1722-1728`)

A *configuration* is a connector with its CRTC and its mode. `Present` prepares a frame
as direct scanout or as composition, with the fallbacks of `drm_prepare`; `Submit` is
the ioctl, `AfterAccepted` and `AfterRefused` the bookkeeping, `FlipWaited` the wait for
the flip, `KernelFlips` and `Handler` the flip and the thread that handles it.
`PollState` looks for connectors again, `Suspend`/`Resume`/`SessionActive` are VT
switches, `SetMode` a request for a mode. One framebuffer stands for all the layers of a
frame. The flip may be reported before the ioctl has returned. A commit that moves to
another CRTC makes the old one report a flip too, before the new one's. A commit that
puts the screen to sleep has no flip event; `slept` is the history of that. Left out:
`Resume` between the test of a request and its commit, or between commit and
bookkeeping; the abort of the process on `EINVAL`; plane assignment, colour properties,
mode lists. `changes` counts what the world changes and what the kernel refuses; it is a
bound of the model, not of the code.

### BidirTimeline (`rendervulkan.cpp:4905-4920, 6744-6900, 7600-7770, 7982-8318, 9656-9698, 11083-11219, 12364-12682, 13331-13670, 14030-14175`, `framegen/deadline.hpp:210-219, 557-843`)

`h` is `g_framegenHistory`: the queue of real and generated frames with their display
targets, the epoch that maps source times to display times, the two real frames a batch
reads, its pins, the feedback records. A step is one opportunity of the display (a pass
that takes the vblank: the planner, the shedding, the choice of what is shown) or
something between two: a batch finishes, the backend lets an image go or reports a flip,
the focus changes, an opportunity is missed. A frame's content is numbered in the order
the game drew it, real ones even. `since` and `back` are histories: the last frame of an
earlier scene, and whether a report has moved the mapping of this scene back, to before
an entry that is queued (section 7); `slips` counts missed opportunities and flips and lost
reports, and bounds them. The source time of a frame is the time its fence signalled
(`commit.cpp:69-70`, `steamcompmgr.cpp:2136`), and a FIFO or limited frame is latched
vblanks after that (`steamcompmgr.cpp:7044-7060`): `Lag` bounds how many, and `overdue` is
the history that a frame came when the mapping had put it at an opportunity already
passed. Left out: a change of the grid or of the chain of the
display, the switch of a history's provenance, base-layer mode and the cursor, the
ladder's multiplier (`DeadlineLadder` has it), the images an overlay's recomposite takes
for itself, reactive readiness on a shared queue, an overflowing mailbox.

### WindowFocus (`steamcompmgr.cpp:3347-3764, 4146-4431, 4811-5558, 5946-6202, 6906-6992`, `wlserver.cpp:582-670`)

The strategy `SteamControlled` with one Xwayland server and one output. X events
(`MapWin`, `UnmapWin`, `DestroyWin`, `RestackWin`, `DamageWin`, the `…Notify` of the
properties, `SurfaceId`) and `DoneCommit` (a window's first content) change what is
known of a window and mark the focus as outdated; `Choose` is
`determine_and_apply_focus` with its sort (`Greater`), the transient windows
(`Resolved`) and the override (`OverrideOf`); `TellKeyboard` and `TellPointer` are what
it then tells the seat: three steps, because the Wayland server's thread makes and
destroys surfaces meanwhile. A window is named by its memory, so one that is destroyed
may come back. `demoted` merges the two reasons for which the comparator puts a window
last; among dropdowns `is_dialog` breaks no tie; an app is one process; a restack goes
to the top or the bottom. `late` and `silent` are histories for the two known exceptions
in section 7. Left out: windows of one pixel, XDG windows (the comparator answers true
for any left operand that is not Xwayland, so it is no strict weak order),
`focusControlWindow`, VR overlays, `XSetInputFocus` and `FocusOut`, tray docking,
reparenting away, a window that changes its kind, a commit that arrives after its
surface has gone. Cycles of transient windows are assumed absent, as the comments at
`steamcompmgr.cpp:3606` and `3634` hope.

## 4. The runs and their bounds

| run | shows | bounds, and why they are enough |
|---|---|---|
| `present_wait` | `InFlightExact`, `WaiterOnLiveSwapchain`, and that each tag is retired in the end (`TagsRetired`) | ring 2, three presents: the ring wraps; two swapchains: one re-make, at any moment; with and without the extension; waits may fail |
| `ladder_native` | causal path on KMS: `MeasuredThisScene`, `ClimbSeparated`, `RecoveryNotJammed` | three rungs (a degradation can skip one), a cheap, a fitting and a dear cost, back-off 2 to 7 (it doubles to its maximum through an odd value), a miss window of 3 with four misses, one scene change |
| `ladder_reactive` | reactive path, VRR toggling: `RungMonotoneInHold`, `OverloadShed` | a multiplier rung more than the causal ladder; one change of load |
| `vblank` | `NeverStalls`, `OnLatestGrid`, `KmsWakesOnTime`, `VBlanksRecur`, on three backends | a refresh of four ticks: red zone, wake-up, draw and vblank fall apart; a starting draw time of four, which does not fit beside the red zone, and draw times beyond a refresh; two commits in flight; a pipe of two |
| `arbiter` | `RealNeverOvertaken`, `OverlayNotEaten`, `NeverBeforeDeadline`, `TimerFollowsSlot`; `WorkIsShown` | three ticks, leads of one and two and none, a budget of two deferrals, both composition modes |
| `commit_queue` | an Xwayland list: `BufferHeldForFence`, `HeldIsNewest`, `FifoInOrder`, `FifoPaced`; the refinement of `FrameDelivery`, its safety (`Delivers`) and its liveness (`DeliversInTime`) | two windows, two frames of every kind, a limiter that lets every second vblank through, frames due now or a vblank later |
| `commit_queue_xdg` | a violated `NothingLost` in the XDG version | – |
| `buffer_lease` | `HeldWhileUsed`, `SignalledWhenIdle`, `IdleWhenDestroyed`, `BufferComesBack` | two commits of one buffer, so that the second replaces the first's lease and point while the first is still being dropped; `DecRef`s of implicit and of explicit buffers interleave, those of mixed ones are whole. With three commits (2.2 million states) the safety properties hold too; the theorems have no bound |
| `buffer_lease_race` | a violated `HeldUntilReleased`, which is `HeldWhileUsed` without its exception for `torn` | – |
| `drm_commit` | `ScanoutHeld`, `NothingInFlight`, `PropsAreKernels`, `ComesUp` | two connectors (one replaces the other), two modes (one to fall back from), two framebuffers (shown and next), four changes or refusals, two commits asleep |
| `bidir` | `Forward`, `RealsArrive` | five opportunities of three ticks each, so that a frame may come early, in the middle or late in a vblank and a target be rounded either way; frames latched up to two vblanks after their fence (`Lag`), the least at which one comes overdue; four game frames and a multiplier of two, enough to make the queue shed; a ring of eight, half of it with the backend, so that it runs out; one change of scene and one slip, each at any moment; any report may move the mapping. That the exception for overdue frames is needed shows beyond these bounds, at seven opportunities and five frames; the theorems have no bound |
| `focus` | `FocusIsChosen`, `PointerFollows` | two apps, an override-redirect child, an overlay, a dialog of the one app for the other's window, open at first or not; three events and five surfaces, after any number of passes: a window may come and be mapped, or get another surface and lose it, and any two changes may meet in one pass. A handler that fails to mark the focus needs one event, a surface that comes out of order two; the theorems have no bound |

`TypeOK` is an invariant of `present_wait`, `ladder_native`, `vblank`, `arbiter` and
`commit_queue`. Deadlock is checked except where the program ends (`PresentWait` shuts
down) or the model's bounds end the behaviour (`BufferLease`, `DrmCommit`,
`BidirTimeline`, `WindowFocus`). `PROJECT.json` names for each property a *fault*: a
mutation of a definition, written beside it in the module, that a plausible bug would
make and under which the property fails.

## 5. Fairness

- `PresentWait`: weak fairness of a thread that is inside a call, of the waiter thread
  and of the display. The compositor need not present or drain again.
- `DeadlineLadder`: the planner is offered a whole slot again and again (strong: other
  decisions come between), a reactive decision is made for each real frame, a batch
  finishes with what it costs, its frame leaves the queue. No fairness of load, miss,
  scene or VRR; `RecoveryNotJammed` assumes in its premise that the load stays cheap.
- `VBlankTimer`: time passes; the loop and the nudge thread run; KMS reports flips of
  what it accepted; a thread that has stored a flip goes on to arm. Nothing is assumed
  of the parent compositor.
- `PresentArbiter`: time passes, KMS flips, the GPU finishes, and the loop wakes when
  something is due: the vblank timer, a nudge, or the commit timer. Clients, the cursor
  and other threads owe nothing.
- `CommitQueue`: vblanks recur (`VBlanksRecur` of `VBlankTimer`), a pass that began
  runs to its end, and a client's fence signals and is reported. The last is strong,
  because the list's mutex is taken by the compositor in between; the compositor sleeps
  without it, and so the waiter gets it.
- `BufferLease`: a commit that came is imported or discarded, and a lease is set (weak);
  the compositor drops a commit it no longer needs, retires GPU work, scans out something
  else in the end, the waiter erases what it has reported, KMS flips, and each thread
  goes on with its `DecRef` (strong: other threads' steps disable them in between). The
  client need not commit again, nor destroy the buffer.
- `DrmCommit`: the loop polls the state and paints again and again (strong, since it is
  not always idle); a frame under way is carried on; the kernel reports the flip of what
  it accepted and the handler runs; a session that was switched away comes back and is
  noticed. Hotplug, sleep, VT
  switches and refusals owe nothing, and are bounded.
- `BidirTimeline` and `WindowFocus` state safety only. A focus that is never chosen again
  cannot hide there: `FocusIsChosen` speaks of every state in which nothing is marked.

## 6. The proofs

TLAPS checks each of these for every value of the constants that satisfies the named
`ASSUME`s of the module. TLC evaluates the assumptions in the runs.

| module | theorem | the argument |
|---|---|---|
| `PresentWaitProofs` | `WaiterSwapchainLive` | `ExclusionInv`: who holds `present_wait_lock` is a function of the program counters, so `RemakeMake` cannot coincide with a waiting waiter |
| `SchedulingProofs`, ladder | `TypeCorrect` | each recovery operator keeps its range; doubling stops at the maximum |
| | `HoldProtects`, `ClimbsFit` | every decision site climbs only behind `MayClimb`, and to a `RecoveryTarget` |
| | `NoStaleTiming` | a batch that is still timed was submitted on a rung of `probed`; invalidation takes its query away. Needed because `MeasuredThisScene` does not speak of the batch in flight |
| | `ClimbsBackOff` (VRR not configured) | `SinceIsAge`: the counter `since` never runs ahead of the history `age`, up to its cap; the VRR walk breaks exactly that |
| `SchedulingProofs`, vblank timer | `TimerTypeCorrect`, `LoopNeverStalls`, `ArmedAgrees`, `KmsNeverEarly` | `IInv = TypeOK ∧ Expected ∧ Awake ∧ TimerPath ∧ KmsPath`: which wake-up each program counter still owes; on KMS at most one flip is open and the loop is waiting for it |
| `PresentArbiterProofs` | `TypeCorrect`, `FramesRemembered`, `RealFirst`, `NeverEarly`, `OverlayKept` | `ContentInv`: before the decision nothing is painted, a fresh frame always has its flag, and a prediction painted over a due overlay has asked for deferral |
| | `TimerInStep` | `TimerInv`: an armed timer or raised flag owns a deadline, and a deadline ahead has its timer |
| `CommitQueueProofs` | `TypeCorrect`, `FenceProtects`, `NewestHeld`, `NeverOlder`, `Pacing` | `IInv`: frames are imported in the order of their numbers, a queue holds frames of its own window, a latched frame is the first of its queue, nothing in a queue is older than the held frame, a latched frame of the focused window is the held one, and while the limiter is open the windows served in this pass are those served since it opened |
| | `XwaylandLosesNothing` (`Xdg = FALSE`) | adds who may be in the list and in what is put off; entries leave both only by being latched or superseded |
| | `ReportedOnce` | `Once`: the list, what is put off and the entry in hand name different frames, none of them latched or still under a fence |
| | `FifoFirstInFirstOut` (`Xdg = FALSE`) | the history of the order in which frames became ready is what is put off followed by the list, so the entry in hand is the first of what remains, but for those put off, none of which could go |
| | `Implements` | refinement of `FrameDelivery`, one step per action: the abstract step (or stutter) it is, by what it does to the status, the shown frame and the kept buffers of each frame. Needs `IInv` and `Once`: without them one step could end two frames or show one that is over |
| `PresentWaitProofs` | `TypeCorrect`, `InFlightCounted` | `Ledger`: the two counters and what each thread has in hand add up to the occupied slots; a step that fills or frees a slot changes one side by the cardinality of a singleton, an eviction frees one that the counter has yet to learn of |
| `SchedulingProofs`, vblank timer | `AimedAtLatestGrid` | the wake-up and the grid are congruent modulo the refresh; quotients and remainders by the lemmas `Division`, `NoMultipleBetween`, `SameGrid`; between the two halves of `MarkVBlank` the flip still has to arm |
| `BufferLeaseProofs` | `TypeCorrect`, `BufferHeldWhileUsed`, `PointsSignalledWhenIdle`, `BufferIdleWhenDestroyed`, `OneLeaseAtATime` (the second, fourth and fifth under `OneKind`) | `IInv`: the texture's count is the commits that sample it plus the copy; the framebuffer's is the texture, the two scanout lists and the `DecRef`s that have not counted; the buffer is locked for a lease while that count is not zero and for each unlock still owed (`Orderly`, which needs `OneKind`); an unsignalled release point is the framebuffer's, in the hand of one thread's `DecRef`, or in the list of `retrieve_commits` |
| `DrmCommitProofs` | `TypeCorrect`, `ScanoutStaysHeld`, `NothingStaysInFlight`, `PropsStayKernels` | `Connected`, `Lists`, `Flights`, `Presents`, `Believed`: for each program counter, in which of the lists the framebuffers of the frame under way are, how many flips and presents are owed, and that what is believed of the kernel is what the accepted request asked for |
| `WindowFocusProofs` | `TypeCorrect`, `AlwaysFresh`, `PointerKeepsUp` | see below |
| `BidirTimelineProofs` | `InvHolds`, `ForwardHolds`, `RealsArriveHolds` | see below |

`OneKind` says that a client whose `DecRef`s interleave uses one kind of sync on the
buffer. `TypeCorrect` and `PointsSignalledWhenIdle` do without it: they hold for every
interleaving and every mix. Where mixed kinds interleave the three others are false
(section 7), so the hypothesis is as weak as the code allows. What interleaving does to
explicit sync is in the properties: `HeldWhileUsed` excepts `torn`, `SignalledWhenIdle`
the one point that is `late`. `Xdg = FALSE` is there for the same reason.

The argument of `AlwaysFresh`: `FocusIsChosen` itself speaks only of states in which a
pass is through, so `ChoiceInv` keeps `Fresh` during the pass and adds that the local
focus is the local choice. Every handler that marks the focus makes it hold again at
once; what remains are the steps that do not. `Alike(r)` says that such a step changes
nothing the choice depends on, except that the window `r` may gain on the others, and
`ChosenAlike` that the choice stays if `r` is what was chosen, or nothing. That needs
the comparator to be a strict total order (`AheadOrder`), so that the best of a set is
unique and can only change to `r`; the chain of transient links to be finite
(`FollowEnds`, from the assumption that links have no cycle), so that a run which
overtakes `r`'s predecessors still ends at `r`; and that an override is never sought
among the windows it overrides. A run of the iteration is compared with the other step
by step (`FollowAlike`), with the smallest step at which they part in place of an
induction. `PointerKeepsUp`: while a pass is under way the pointer is behind only if
the pass will tell it (`PointerInv`), and no two windows share a surface's id
(`SurfaceIds`).

The argument of `ForwardHolds` and `RealsArriveHolds`. Neither property is inductive:
that a frame is not shown before its predecessor depends on the order of the queue, that
order on where the mapping puts the next frame, the mapping on reports still under way.
`Inv` says it of the history `h`: between steps it is `Settled`, a conjunction; `Whole` is
`Settled` with `OnTime` as well, where a step and all before it are `Punctual` (no slip, no
overdue frame):

- `Linked`: the fields that name the frame recorded last, its texture and its source
  time agree. `Typed`: the queue is finite.
- `Queue`: no two entries have one target; the content of each is that of its frame, or
  an older one for a real frame whose texture was still the old; a generated entry is
  never of an earlier scene. This part, `Linked`, `Sent` and `Display` hold whatever is
  reported, which is why interpolations never lie across a scene.
- `InOrder`, as long as `back` is false: within the scene entries are ordered by frame and
  by content, and if a real one is queued so is the newest, with its record (`Order`);
  none lies after the target that the mapping gives to the newest source time, so the
  next pair comes behind them all (`Mapped`); none is older than what is shown or held
  (`Behind`); no report of the newest frame is under way while it is queued
  (`Reported`); and the newest frame is queued or shown (`Arrives`, in the first scene).
- `Steady`, `Display`: what is held is what is on the display, unless the ring was flushed.
- `OnTime`, without slips and overdue frames (`Prompt` states it between steps): nothing
  queued is late, and the mapping shows a frame after its source time. A frame that is not
  overdue has an opportunity that has not passed (`Undue`), and keeps it when a shortage of
  images gives up real entries and re-anchors the mapping (`Gives`). `Sent`: a report
  comes after the source time of its frame.

One step sends the history through a dozen operators (acquire, shed, record, observe,
plan, catch up, take the front), so each part is stated of *any* history `g`, and each
operator has lemmas about what it keeps of which part. Acquiring an image keeps `Whole`
(`ShrunkWhole`); `Fit` is what planning leaves, `Done` what recording leaves, `Held`
what the choice of an entry needs; `Sound` is what a step has to leave of history,
display and reports, and `Outcome` adds what the paint may show; `SoundNext` concludes
the invariant. What sheds either gives up interpolations and keeps the mapping
(`Spares`), or gives up real entries from the front and re-anchors on the newest frame
(`GivesUp`). That frame stays and is the last of the queue (`LastStays`, `Order`), so
still nothing lies behind the mapping. The two iterations, `Shrunk` and `Caught`, are
finite functions whose smallest failing index contradicts the lemma about one pass
through them.

The premise `~back` is no convenience. The correction of the mapping may move it towards
the past as well as the future, and nothing in the code stops a later pair from being
planned before an entry that is queued: one flip is reported a vblank late, a frame is
queued under the mapping moved forth, the next flip is on time and moves the mapping
back, and a frame drawn a tick after the queued one gets the opportunity before it. TLC
finds that with six frames and nine opportunities when `~back` is struck from `Forward`;
the bounds of the run are too small for it. `back` looks at the queue at the moment of
the report: one that moves the mapping to where no entry is overtaken does not set it.

An invariant is seldom inductive alone: each strengthening says where the information
is while it is on its way between two threads or two stages of a pass, and each was
checked with TLC before it was proved.

Some of these (`ClimbsFit`, `ArmedAgrees`, `FramesRemembered`, `NeverOlder`,
`XwaylandLosesNothing`, `ReportedOnce`, `OneLeaseAtATime`, the types of `BufferLease`,
`DrmCommit` and `WindowFocus`) state what no passing run checks any more: TLC checked it
before it was proved, and a stronger property has its place in the run now.

Induction is done throughout by taking the smallest counterexample (`Smallest`, from the
well-foundedness of the natural numbers), since the library's induction theorems take an
operator as a parameter.

Only model-checked: the liveness properties, because the prover does not handle fairness
and `ENABLED` (`TagsRetired`, `RecoveryNotJammed`, `OverloadShed`, `VBlanksRecur`,
`WorkIsShown`, `DeliversInTime`, `BufferComesBack`, `ComesUp`).

## 7. Where the code and its texts disagree

Shown by a run of its own (details under `findings` in `PROJECT.json`):

- `handle_done_commits_xdg` drops every entry behind one that is not yet due
  (`steamcompmgr.cpp:7116`): frames are lost. The Xwayland version does not.
- `DecRef` of a buffer moves the release point out and puts it back while references
  remain (`backend.cpp:97`), without a lock. If the buffer is imported again in between,
  the old point is put back over the new one, whose destruction signals it: the client is
  told that a buffer is free which is being painted.

Met while modelling; the models behave as the code does, and no run is spent on them:

- *Arbiter.* A forced repaint taken at the vblank at which the pending generated frame
  turns out too slow is lost (`steamcompmgr.cpp:9418`).
- *Present wait.* A wait that times out is published as a measured flip time
  (`rendervulkan.cpp:4456`).
- *Ladder.* The VRR walk degrades without telling the recovery state
  (`rendervulkan.cpp:12304`). The causal ladder can stop generating for the rest of a
  scene (11859, against `doc/framegen-architecture.md:666-668`). A comment on the causal
  deadline (13713-13714) disagrees with 11792 and 13809.
- *Vblank timer.* `OnPollIn` may take a schedule that a flip has just re-armed, whose
  wake-up lies ahead (`vblankmanager.cpp:277`). The scaling of the red zone has no effect
  (116-118, against the comment at 107-110).
- *Commit queue.* `import_commit` that fails drops the frame without
  `receivedDoneCommit`, unlike the other discards (`steamcompmgr.cpp:1455`): its callback
  waits for the next frame.
- *Buffers.* If a `DecRef` reaches zero while another thread has moved the release point
  out, it finds none, and the other puts the point back into a framebuffer nobody
  references: nothing signals it until the buffer is committed again or destroyed, against
  `backend.cpp:79`. `SignalledWhenIdle` and `BufferComesBack` except that one point
  (`late`). The assertion of `BufferMemo.cpp:34`, that the texture of a destroyed buffer
  has no reference, is unconditional, and fails with explicit sync: a copy staged on the
  GPU keeps the texture, no lock keeps the buffer, and the client may destroy it.
  `IdleWhenDestroyed` excepts just that. When a client mixes the kinds on one buffer,
  `DecRef` reads whether there is a lock to give back (`backend.cpp:95`) before it
  counts: if the lease changes in between, a lock is given back twice (`HeldWhileUsed` and
  `IdleWhenDestroyed` fail, with three commits), or never (`BufferComesBack`, with two).
- *DRM.* A mode that was asked for is forgotten by the roll-back when its request is
  refused (`DRMBackend.cpp:2900`).
- *Delayed timeline.* Invalidation forgets the epoch but keeps queued real frames
  (`rendervulkan.cpp:7675`): one queued before a scene change may be shown after a newer
  one, against 8224 and 8299-8300; `Forward` is therefore stated within a scene. The
  report of a flip moves the mapping forth and back (`deadline.hpp:579-595`,
  `rendervulkan.cpp:12387-12395`); moved back behind an entry that is queued, it lets a
  later frame be planned before that entry, and the two be shown out of order, against
  8224 again: no guard of `framegen_bidir_plan_pair` compares the new targets with the
  queue. `Forward` and `RealsArrive` except it with `back`. A frame put off behind the limiter or
  another FIFO frame is planned by the time of its fence; if a report has moved the mapping
  back meanwhile, it is queued at an opportunity that has passed and shown an opportunity
  late although nothing was missed. With ten ticks to a vblank and a limiter of three, a
  frame of time 113 gets opportunity 16 under a mapping of +40; its report corrects that to
  +35, and a frame of time 115 latched at 16 gets 15. `RealsArrive` excepts it with
  `overdue`. A re-commit of the same texture is not recorded (8041-8045 against 8031-8039). Epoch
  numbers restart at 1, so a late flip report may correct the next epoch (7709, 12441).
  The priming frame is held back after an invalidation (8143-8146). The forced drain
  fires when the plan equals the hard capacity (`deadline.hpp:686`, against the comment
  at 668-676). Discards at 8225-8227 and dropped requests at 12588-12595 are not counted.
- *Focus.* `handle_wl_surface_id` compares with the pointer's window for the keyboard too
  (`steamcompmgr.cpp:5505`), so an override that holds only the keyboard is never told,
  against the comment at 5500. A surface made after the message with its id is told to
  nobody (`wlserver_new_surface`); `late` excepts it. A change of opacity and docking in
  the tray (5578) do not mark the focus; `silent` excepts the first. `destroy_win` does
  not clear `keyboardFocusWindow`; a reparented window is deleted with pointers left to
  it. The serial is stored at the end of the choice, so a mark by OpenVR's threads in
  between is lost.

## 8. What is not modelled, and why

The components with status `not_modelled` in `PROJECT.json`, each with its reason: those
of the plan, not reached yet (PipeWire, the WSI layer); floating-point estimation,
colour and image processing, which are numeric code without interleavings; protocol
translation to wlroots, SDL, Wayland, OpenVR and libinput, whose other side is outside
the repository; start-up, tools, scripts and generated or third-party code. Within a
modelled component, section 3 says what is left out. Weak memory is not modelled:
atomics and mutexes are taken to be sequentially consistent.
