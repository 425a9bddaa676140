----------------------------- MODULE DrmCommit -----------------------------
(***************************************************************************)
(* Atomic commits of the DRM backend (src/Backends/DRMBackend.cpp): how a  *)
(* frame becomes a request (drm_prepare), is tested, falls back from       *)
(* direct scanout to composition and to the previous mode, is committed    *)
(* and either refused by the kernel or waited for; how the thread that     *)
(* handles page flips moves framebuffers from queued to visible; and how   *)
(* hotplug, VT switches, sleep and requests for a mode reach the screen.   *)
(*                                                                         *)
(* A configuration is a connector, with the CRTC that serves it, and its   *)
(* mode: a modeset turns everything else off.  The kernel is external:     *)
(* it may refuse a request or a commit, and reports flips in order, those  *)
(* of a CRTC that a commit disables before that of the one it enables.     *)
(***************************************************************************)
EXTENDS Integers, Sequences, FiniteSets

CONSTANTS
  Conns,   \* connectors, by priority: 1 is preferred
  Modes,   \* mode blobs; 0 is none
  Fbs,     \* framebuffers
  MaxChanges, \* bound of the model: changes of the world and refusals of the kernel
  MaxAsleep   \* bound of the model: commits while the screen sleeps

ASSUME DrmAssumption ==
  /\ Cardinality(Conns) \in Nat \ {0} /\ Conns = 1..Cardinality(Conns)
  /\ Cardinality(Modes) \in Nat \ {0} /\ Modes = 1..Cardinality(Modes)
  /\ Fbs # {} /\ MaxChanges \in Nat /\ MaxAsleep \in Nat

None == 0
Off == [conn |-> None, mode |-> 0]
Configs == [conn : Conns, mode : Modes] \cup {Off}
Preferred == 1

VARIABLES
  plugged, sleep, session,  \* the world: connectors, the sleep convar, the VT
  resumed,    \* the session is back and the backend does not know yet
  changes,    \* how often the world changed or the kernel refused
  conn,       \* pConnector and its pCRTC
  pend, cur,  \* pending.mode_id, current.mode_id
  needs, dirty, paused,  \* needs_modeset, out_of_date, paused
  props,      \* the properties' current values, as a configuration
  lit,        \* the kernel's configuration
  pc,         \* the compositor's thread in Present and Commit
  req,        \* the atomic request
  inRequest, queuedFbs, visibleFbs,  \* m_FbIdsInRequest, m_QueuedFbIds, m_VisibleFbIds
  scan, next, \* framebuffers the kernel scans out, and those of the commit under way
  flips,      \* uPendingFlipCount
  inFlight,   \* m_uQueuedPresents - m_uCompletedPresents
  slept,      \* history: since the last flip a commit put the screen to sleep
  events,     \* flip events not yet handled: CRTC, and presents queued since
  handler     \* page_flip_handler

world == <<plugged, sleep, session, resumed, changes>>
state == <<conn, pend, cur, needs, dirty, paused, props>>
present == <<pc, req>>
fbs == <<inRequest, queuedFbs, visibleFbs>>
kernel == <<lit, scan, next>>
counts == <<flips, inFlight, slept>>
flipping == <<events, handler>>
vars == <<world, state, present, fbs, kernel, counts, flipping>>

Best == IF plugged = {} THEN None ELSE CHOOSE c \in plugged : \A d \in plugged : c <= d
NoRequest == [modeset |-> FALSE, flip |-> FALSE, to |-> Off]

\* Types; a connector in use has a mode to fall back to, and the handler finds a
\* flip to count.
TypeOK ==
  /\ plugged \subseteq Conns
  /\ {sleep, session, resumed, needs, paused, slept} \subseteq BOOLEAN
  /\ changes \in 0..MaxChanges
  /\ conn \in Conns \cup {None} /\ pend \in Modes \cup {0} /\ cur \in Modes \cup {0}
  /\ conn # None => cur # 0
  /\ dirty \in 0..2
  /\ props \in Configs /\ lit \in Configs
  /\ pc \in {"idle", "composite", "retry", "commit", "accepted", "refused", "wait"}
  /\ req \in [modeset : BOOLEAN, flip : BOOLEAN, to : Configs]
  /\ inRequest \subseteq Fbs /\ queuedFbs \subseteq Fbs /\ visibleFbs \subseteq Fbs
  /\ scan \subseteq Fbs /\ next \subseteq Fbs
  /\ flips \in 0..1 /\ inFlight \in Nat
  /\ events \in Seq([crtc : Conns, age : Nat])
  /\ handler \in {"idle", "swap", "count"}
  /\ handler # "idle" => flips = 1

\* init_drm: the best connector, to be lit by the first commit.
Init ==
  /\ plugged = Conns /\ sleep = FALSE /\ session = TRUE /\ resumed = FALSE /\ changes = 0
  /\ conn = Preferred /\ pend = Preferred /\ cur = Preferred
  /\ needs = TRUE /\ dirty = 0 /\ paused = FALSE
  /\ lit \in {Off, [conn |-> Preferred, mode |-> Preferred]} /\ props = lit
  /\ pc = "idle" /\ req = NoRequest
  /\ inRequest = {} /\ queuedFbs = {} /\ visibleFbs = {}
  /\ scan = {} /\ next = {} /\ flips = 0 /\ inFlight = 0 /\ slept = FALSE
  /\ events = <<>> /\ handler = "idle"

-----------------------------------------------------------------------------
(* The world, and the Wayland server's thread that hears of it.            *)

\* A change of the world, or a refusal that is not the request's fault.
Change ==
  /\ changes < MaxChanges
  /\ changes' = changes + 1

Larger(a, b) == IF a < b THEN b ELSE a

\* wlsession_active: what the Wayland server's thread has heard of the session.
Active == session /\ ~resumed

\* Fault: a backend that was paused stays so.
DirtyStatePaused(force, forceModeset) ==
  /\ needs' = (needs \/ forceModeset)
  /\ dirty' = Larger(dirty, IF force THEN 2 ELSE 1)
  /\ paused' = (paused \/ ~Active')

\* CDRMBackend::DirtyState
DirtyState(force, forceModeset) ==
  /\ needs' = (needs \/ forceModeset)
  /\ dirty' = Larger(dirty, IF force THEN 2 ELSE 1)
  /\ paused' = ~Active'

\* A connector is plugged in or out: wlserver's handler of the udev event.
Hotplug ==
  /\ Change /\ session
  /\ \E c \in Conns : plugged' = IF c \in plugged THEN plugged \ {c} ELSE plugged \cup {c}
  /\ UNCHANGED <<sleep, session, resumed>>
  /\ DirtyState(FALSE, FALSE)
  /\ UNCHANGED <<conn, pend, cur, props, present, fbs, kernel, counts, flipping>>

\* drm_sleep_screen, or its convar
ToggleSleep ==
  /\ Change /\ sleep' = ~sleep
  /\ UNCHANGED <<plugged, session, resumed, state, present, fbs, kernel, counts,
                 flipping>>

\* The VT is switched away: the kernel refuses, and another master may set
\* another configuration.
Suspend ==
  /\ Change /\ session /\ ~resumed /\ flips = 0
  /\ session' = FALSE
  /\ UNCHANGED <<plugged, sleep, resumed>>
  /\ DirtyState(FALSE, FALSE)
  /\ \E c \in {lit, Off} \cup [conn : plugged, mode : Modes] : lit' = c
  /\ scan' = {} /\ next' = {}
  /\ UNCHANGED <<conn, pend, cur, props, present, fbs, counts, flipping>>

\* It is switched back (never as quickly as between a request's test and commit, or
\* between the commit and what is noted of it).
Resume ==
  /\ ~session /\ pc \notin {"commit", "accepted"}
  /\ session' = TRUE /\ resumed' = TRUE
  /\ UNCHANGED <<plugged, sleep, changes, state, present, fbs, kernel, counts, flipping>>

\* handle_session_active
SessionActive ==
  /\ resumed /\ resumed' = FALSE
  /\ UNCHANGED <<plugged, sleep, session, changes>>
  /\ DirtyState(TRUE, TRUE)
  /\ UNCHANGED <<conn, pend, cur, props, present, fbs, kernel, counts, flipping>>

-----------------------------------------------------------------------------
(* The compositor's thread, outside Present.                               *)

\* drm_set_mode, through drm_set_refresh or drm_set_resolution
SetMode(m) ==
  /\ pc = "idle" /\ conn # None /\ Change
  /\ pend' = m /\ needs' = TRUE
  /\ UNCHANGED <<plugged, sleep, session, resumed, conn, cur, dirty, paused, props, present,
                 fbs, kernel, counts, flipping>>

\* setup_best_connector; drm_unset_connector and drm_unset_mode; drm_set_connector
\* and drm_set_mode, after which current.mode_id is what was asked for as well.
SetupBestConnector(force) ==
  LET inUse == IF conn \in plugged THEN conn ELSE None
  IN  IF ~force /\ Best # None /\ Best = inUse
      THEN UNCHANGED <<conn, pend, cur, needs>>
      ELSE /\ conn' = Best
           /\ needs' = TRUE
           /\ IF Best = None THEN pend' = 0 /\ UNCHANGED cur
              ELSE pend' = Preferred /\ cur' = Preferred

\* Fault: the values read before are kept.
RefreshStateStale == UNCHANGED props

\* refresh_state reads the properties again.
RefreshState == props' = lit

\* drm_poll_state
PollState ==
  /\ pc = "idle" /\ dirty > 0
  /\ dirty' = 0
  /\ RefreshState
  /\ SetupBestConnector(dirty = 2)
  /\ UNCHANGED <<world, paused, present, fbs, kernel, counts, flipping>>

-----------------------------------------------------------------------------
(* Present.                                                                *)

Asleep == props = Off \/ props.conn # conn

\* What the request asks for; with a modeset everything that is lit is disabled
\* and what is wanted enabled.
Wanted(modeset) ==
  IF ~modeset THEN props ELSE IF sleep THEN Off ELSE [conn |-> conn, mode |-> pend]

\* The kernel tests a request: a mode must be set, and a CRTC that is not
\* brought up by it must be up.
Valid(modeset) == IF modeset THEN pend # 0 ELSE lit # Off /\ lit.conn = conn

\* liftoff_output_apply accepts, as far as the kernel decides; layers may be
\* refused for reasons of the hardware, one layer only while things change.
Accepts(modeset) == session /\ Valid(modeset)
MayRefuse(how) == IF how = "direct" THEN UNCHANGED changes ELSE Change

\* drm_prepare succeeds; colorimetry and VRR may need a modeset of their own.
Prepared(modeset, frame) ==
  /\ needs' = FALSE
  /\ req' = [modeset |-> modeset, flip |-> ~sleep, to |-> Wanted(modeset)]
  /\ inRequest' = IF sleep THEN {} ELSE frame
  /\ pc' = "commit"
  /\ UNCHANGED <<conn, pend, cur, dirty, paused, props>>

\* drm_prepare fails: drm_rollback; Present saves the mode that is pending before a
\* direct scanout, and only there.
RolledBack(modeset, how) ==
  /\ needs' = modeset
  /\ pend' = IF how = "direct" /\ session /\ modeset THEN pend ELSE cur
  /\ inRequest' = {}
  /\ UNCHANGED <<conn, cur, req>>

\* Present's use of drm_prepare on one of its paths: what follows a failure is
\* nothing (-EACCES, a generated frame), composition, another attempt with the
\* previous mode, or polling the state again.
Fail(modeset, how) ==
  /\ RolledBack(modeset, how)
  /\ UNCHANGED <<paused, dirty, props>>
  /\ pc' = CASE ~session \/ how = "generated" -> "idle"
             [] session /\ how = "direct" -> "composite"
             [] session /\ how = "composite" -> IF cur = 0 THEN "idle" ELSE "retry"

\* The last attempt fails: DirtyState( true, false ), PollState().
FailEntirely(modeset) ==
  /\ inRequest' = {} /\ pc' = "idle" /\ dirty' = 0
  /\ IF session
     THEN /\ RefreshState /\ paused' = ~Active
          /\ SetupBestConnector(TRUE)
     ELSE /\ needs' = modeset /\ pend' = cur
          /\ UNCHANGED <<conn, cur, props, paused>>
  /\ UNCHANGED req

Attempt(how, frame) ==
  LET asks == needs \/ (Asleep # sleep)
  IN  \/ /\ sleep \/ Accepts(asks)
         /\ Prepared(asks, frame)
         /\ UNCHANGED changes
      \/ /\ sleep \/ Accepts(TRUE)    \* for the sake of colorimetry or VRR
         /\ ~asks /\ Prepared(TRUE, frame)
         /\ Change
      \/ /\ ~sleep
         /\ IF Accepts(asks) THEN MayRefuse(how) ELSE UNCHANGED changes
         /\ IF pc = "retry" THEN FailEntirely(asks) ELSE Fail(asks, how)

\* A frame, by one of three paths; its framebuffer stands for those of its layers.
\* paint_all returns early while the backend is paused, drm_prepare without a
\* connector.
Present(how) ==
  /\ pc = "idle" /\ ~paused /\ conn # None
  /\ sleep => inFlight < MaxAsleep
  /\ \E fb \in Fbs : Attempt(how, {fb})
  /\ UNCHANGED <<plugged, sleep, session, resumed, queuedFbs, visibleFbs, kernel, counts,
                 flipping>>

PresentAgain ==
  /\ pc \in {"composite", "retry"}
  /\ \E fb \in Fbs : Attempt("composite", {fb})
  /\ UNCHANGED <<plugged, sleep, session, resumed, queuedFbs, visibleFbs, kernel, counts,
                 flipping>>

-----------------------------------------------------------------------------
(* Commit.                                                                 *)

\* Request -> queued, before the commit.
Swap ==
  IF req.flip THEN queuedFbs' = inRequest /\ inRequest' = queuedFbs
  ELSE UNCHANGED <<queuedFbs, inRequest>>

Aged == [i \in DOMAIN events |-> [events[i] EXCEPT !.age = @ + 1]]

\* drmModeAtomicCommit takes the request; a CRTC it disables reports first.
Accepted ==
  /\ session /\ UNCHANGED changes
  /\ lit' = req.to
  /\ IF req.flip THEN next' = queuedFbs' /\ UNCHANGED scan
     ELSE scan' = {} /\ next' = {}
  /\ slept' = (slept \/ ~req.flip)
  /\ events' = IF req.flip /\ req.modeset /\ lit # Off /\ lit.conn # req.to.conn
               THEN Append(Aged, [crtc |-> lit.conn, age |-> 0])
               ELSE Aged
  /\ pc' = "accepted"

\* -EACCES, or -EBUSY while another commit is under way.
Refused ==
  /\ IF session THEN Change ELSE UNCHANGED changes
  /\ events' = Aged
  /\ pc' = "refused"
  /\ UNCHANGED <<kernel, slept>>

Submit ==
  /\ pc = "commit"
  /\ flips' = IF req.flip THEN flips + 1 ELSE flips
  /\ inFlight' = inFlight + 1
  /\ Swap
  /\ Accepted \/ Refused
  /\ UNCHANGED <<plugged, sleep, session, resumed, state, req, visibleFbs, handler>>

\* The request went through: current = pending, OnCommit.
AfterAccepted ==
  /\ pc = "accepted"
  /\ inRequest' = {}
  /\ cur' = pend /\ props' = req.to
  /\ pc' = IF req.flip THEN "wait" ELSE "idle"
  /\ req' = NoRequest
  /\ UNCHANGED <<world, conn, pend, needs, dirty, paused, queuedFbs,
                 visibleFbs, kernel, counts, flipping>>

\* Fault: the present that did not happen is still counted.
UncountNever == inFlight' = inFlight

Uncount == inFlight' = inFlight - 1

\* drm_rollback; needs_modeset is not set again.
AfterRefused ==
  /\ pc = "refused"
  /\ pend' = cur
  /\ inRequest' = {} /\ queuedFbs' = inRequest
  /\ Uncount
  /\ events' = [i \in DOMAIN events |-> [events[i] EXCEPT !.age = @ - 1]]
  /\ flips' = IF req.flip THEN flips - 1 ELSE flips
  /\ pc' = "idle" /\ req' = NoRequest
  /\ UNCHANGED <<world, conn, cur, needs, dirty, paused, props, visibleFbs,
                 kernel, slept, handler>>

\* uPendingFlipCount.wait returns.
FlipWaited ==
  /\ pc = "wait" /\ flips = 0
  /\ pc' = "idle"
  /\ UNCHANGED <<world, state, req, fbs, kernel, counts, flipping>>

-----------------------------------------------------------------------------
(* The kernel flips, and the thread "gamescope-kms".                       *)

KernelFlips ==
  /\ next # {}
  /\ scan' = next /\ next' = {}
  /\ events' = Append(events, [crtc |-> lit.conn, age |-> 0])
  /\ UNCHANGED <<world, state, present, fbs, lit, counts, handler>>

\* Fault: an event of any CRTC is taken for one of the current CRTC.
OursAny(event) == TRUE

Ours(event) == event.crtc = conn

\* page_flip_handler, for another CRTC than the current one: it returns early.
HandleOther ==
  /\ handler = "idle" /\ events # <<>> /\ ~Ours(Head(events))
  /\ inFlight' = Head(events).age
  /\ events' = Tail(events)
  /\ UNCHANGED <<world, state, present, fbs, kernel, flips, slept, handler>>

HandleFlip ==
  /\ handler = "idle" /\ events # <<>> /\ Ours(Head(events))
  /\ inFlight' = Head(events).age
  /\ slept' = FALSE
  /\ events' = Tail(events)
  /\ handler' = "swap"
  /\ UNCHANGED <<world, state, present, fbs, kernel, flips>>

BecomeVisible == visibleFbs' = queuedFbs /\ queuedFbs' = {}

HandleSwap ==
  /\ handler = "swap"
  /\ BecomeVisible
  /\ handler' = "count"
  /\ UNCHANGED <<world, state, present, inRequest, kernel, counts, events>>

HandleCount ==
  /\ handler = "count"
  /\ flips' = flips - 1
  /\ handler' = "idle"
  /\ UNCHANGED <<world, state, present, fbs, kernel, inFlight, slept, events>>

Handler == HandleOther \/ HandleFlip \/ HandleSwap \/ HandleCount

Next ==
  \/ Hotplug \/ ToggleSleep \/ Suspend \/ Resume \/ SessionActive
  \/ \E m \in Modes : SetMode(m)
  \/ PollState
  \/ \E how \in {"generated", "direct", "composite"} : Present(how)
  \/ PresentAgain \/ Submit \/ AfterAccepted \/ AfterRefused \/ FlipWaited
  \/ KernelFlips \/ Handler

Spec == Init /\ [][Next]_vars

\* Frames keep coming, not all of them generated; the loop polls the state; the
\* kernel flips and reports; the server's thread hears of a session that is back.
Fairness ==
  /\ WF_vars(Resume) /\ WF_vars(SessionActive)
  /\ SF_vars(PollState) /\ SF_vars(Present("composite"))
  /\ WF_vars(PresentAgain) /\ WF_vars(Submit) /\ WF_vars(AfterAccepted)
  /\ WF_vars(AfterRefused) /\ WF_vars(FlipWaited)
  /\ WF_vars(KernelFlips) /\ WF_vars(Handler)

FairSpec == Spec /\ Fairness

-----------------------------------------------------------------------------
(* Properties.                                                             *)

\* What the kernel scans out, or has been given to scan out, is referenced by a
\* list of the backend: no framebuffer is freed or handed back under the display.
ScanoutHeld == scan \cup next \subseteq visibleFbs \cup queuedFbs

\* Between commits no present counts as in flight (the arbiter and the VRR path of
\* the loop hold frames back while one does), unless the screen was put to sleep;
\* and no flip is pending, so that the assertion after the wait holds.
NothingInFlight ==
  pc = "idle" => /\ flips = 0 /\ queuedFbs = {} /\ inRequest = {}
                 /\ (~slept => inFlight = 0)

\* What the backend believes of the kernel's configuration is true, unless the
\* session changed hands and it is about to look again.
PropsAreKernels ==
  session /\ ~resumed /\ dirty < 2 /\ pc # "accepted" => props = lit

\* Whatever was refused, unplugged or switched away before, the best connector
\* that is plugged in lights up, for good.
ComesUp == <>[](~sleep /\ plugged # {}) => <>[](lit # Off /\ lit.conn = Best)
=============================================================================
