-------------------------- MODULE DrmCommitProofs --------------------------
(***************************************************************************)
(* Proofs about DrmCommit: the framebuffers, flips and presents in flight  *)
(* of a commit, and what the backend believes of the kernel, for any       *)
(* connectors, modes, framebuffers and number of changes.                  *)
(***************************************************************************)
EXTENDS DrmCommit, WellFoundedInduction, TLAPS

\* A commit that flips has been accepted and is not over.
Flying == (pc = "accepted" /\ req.flip) \/ pc = "wait"

\* While a frame is under way there is a connector, and it has modes.
Connected ==
  /\ conn # None => pend # 0
  /\ pc # "idle" => conn # None
  /\ pc \in {"commit", "accepted", "refused"} /\ req.flip => req.to.conn = conn

\* Where the framebuffers of the frame under way are.
Lists ==
  /\ pc # "commit" => inRequest = {}
  /\ pc = "commit" => (inRequest # {} <=> req.flip)
  /\ ~Flying /\ pc # "refused" => queuedFbs = {}
  /\ flips = 0 => queuedFbs = {}
  /\ next # {} => next = queuedFbs
  /\ ~(Flying /\ next = {} /\ flips = 1 /\ handler # "count") => scan \subseteq visibleFbs
  /\ Flying /\ next = {} /\ flips = 1 /\ handler # "count" => scan \subseteq queuedFbs
  /\ handler = "count" => queuedFbs = {}

\* The last event is that of the flip waited for, those before it are of a CRTC
\* that was disabled.
LastIsOurs ==
  /\ events # <<>> /\ Ours(events[Len(events)])
  /\ \A i \in 1..(Len(events) - 1) : ~Ours(events[i])

Flights ==
  /\ \A i \in DOMAIN events : events[i].age = 0
  /\ ~Flying => /\ events = <<>> /\ next = {} /\ handler = "idle"
                /\ flips = IF pc = "refused" /\ req.flip THEN 1 ELSE 0
  /\ Flying /\ next # {} => /\ flips = 1 /\ handler = "idle" /\ lit.conn = conn
                            /\ \A i \in DOMAIN events : ~Ours(events[i])
  /\ Flying /\ next = {} =>
       \/ flips = 1 /\ handler = "idle" /\ LastIsOurs
       \/ flips = 1 /\ handler # "idle" /\ events = <<>>
       \/ flips = 0 /\ handler = "idle" /\ events = <<>>

\* What counts as in flight.
Presents ==
  /\ ~slept /\ pc \in {"idle", "composite", "retry", "commit"} => inFlight = 0
  /\ pc = "refused" => inFlight > 0 /\ (~slept => inFlight = 1)
  /\ pc = "accepted" /\ ~req.flip => slept
  /\ Flying /\ (flips = 0 \/ handler # "idle") => inFlight = 0

\* What the kernel was given is what the request asked for.
Believed ==
  /\ PropsAreKernels
  /\ pc = "accepted" /\ session => lit = req.to

\* The inductive invariant.
IInv == TypeOK /\ Connected /\ Lists /\ Flights /\ Presents /\ Believed

-----------------------------------------------------------------------------
(* Connectors and configurations.                                          *)

LEMMA Numbers ==
  /\ Conns \subseteq Nat /\ 0 \notin Conns /\ Preferred \in Conns
  /\ Modes \subseteq Nat /\ 0 \notin Modes /\ Preferred \in Modes
BY DrmAssumption DEF Preferred

LEMMA Configurations ==
  /\ Off \in Configs /\ Off.conn = None
  /\ \A c \in Configs : c # Off => c.conn \in Conns
  /\ \A c \in Conns, m \in Modes : [conn |-> c, mode |-> m] \in Configs
BY DEF Configs, Off

LEMMA Smallest ==
  ASSUME NEW S, S \subseteq Nat, S # {}
  PROVE  \E c \in S : \A d \in S : c <= d
<1>1. PICK c \in S : \A d \in S : ~(<<d, c>> \in OpToRel(<, Nat))
  BY NatLessThanWellFounded, WFMin
<1>2. \A d \in S : ~(d < c)
  BY <1>1 DEF OpToRel
<1> QED
  BY <1>2

LEMMA BestConnector ==
  ASSUME TypeOK
  PROVE  Best \in Conns \cup {None}
<1>1. plugged # {} => \E c \in plugged : \A d \in plugged : c <= d
  BY Numbers, Smallest DEF TypeOK
<1> QED
  BY <1>1 DEF Best, TypeOK

LEMMA Connects ==
  ASSUME TypeOK, Connected, NEW force \in BOOLEAN, SetupBestConnector(force)
  PROVE  /\ conn' \in Conns \cup {None} /\ pend' \in Modes \cup {0} /\ cur' \in Modes \cup {0}
         /\ needs' \in BOOLEAN
         /\ conn' # None => pend' # 0 /\ cur' # 0
<1>1. CASE UNCHANGED <<conn, pend, cur, needs>>
  BY <1>1 DEF TypeOK, Connected
<1>2. CASE /\ conn' = Best /\ needs' = TRUE
           /\ IF Best = None THEN pend' = 0 /\ UNCHANGED cur
              ELSE pend' = Preferred /\ cur' = Preferred
  BY <1>2, BestConnector, Numbers DEF TypeOK
<1> QED
  BY <1>1, <1>2 DEF SetupBestConnector

-----------------------------------------------------------------------------
(* The world and the state of the backend: nothing in flight is touched.   *)

\* A step that leaves the frame under way as it is.
LEMMA Quiet ==
  ASSUME IInv, UNCHANGED <<conn, present, fbs, kernel, counts, flipping>>
  PROVE  Lists' /\ Flights' /\ Presents'
BY DEF IInv, Lists, Flights, Presents, Flying, LastIsOurs, Ours, present, fbs, kernel, counts, flipping

\* The same between two commits, when the connector may change.
LEMMA QuietIdle ==
  ASSUME IInv, pc \in {"idle", "composite", "retry"}, UNCHANGED <<fbs, kernel, counts, flipping>>,
         pc' \in {"idle", "composite", "retry"}
  PROVE  Lists' /\ Flights' /\ Presents'
BY DEF IInv, Lists, Flights, Presents, Flying, fbs, kernel, counts, flipping

LEMMA Changes ==
  ASSUME TypeOK, Change \/ UNCHANGED changes
  PROVE  changes' \in 0..MaxChanges
BY DrmAssumption DEF TypeOK, Change

LEMMA Dirties ==
  ASSUME TypeOK, NEW force \in BOOLEAN, NEW modeset \in BOOLEAN, DirtyState(force, modeset),
         session' \in BOOLEAN, resumed' \in BOOLEAN
  PROVE  /\ needs' \in BOOLEAN /\ paused' \in BOOLEAN /\ dirty' \in 0..2
         /\ dirty' < 2 => dirty < 2 /\ ~force
BY DEF TypeOK, DirtyState, Larger, Active

LEMMA HotplugKeeps ==
  ASSUME IInv, Hotplug
  PROVE  IInv'
<1>1. UNCHANGED <<sleep, session, resumed, conn, pend, cur, props, present, fbs, kernel, counts, flipping>>
  BY DEF Hotplug
<1>2. Lists' /\ Flights' /\ Presents'
  BY <1>1, Quiet
<1>3. changes' \in 0..MaxChanges
  BY Changes DEF Hotplug, IInv
<1>4. /\ needs' \in BOOLEAN /\ paused' \in BOOLEAN /\ dirty' \in 0..2
      /\ dirty' < 2 => dirty < 2
  BY <1>1, Dirties DEF Hotplug, IInv, TypeOK
<1>5. plugged' \subseteq Conns
  BY DEF Hotplug, IInv, TypeOK
<1>6. TypeOK'
  BY <1>1, <1>3, <1>4, <1>5 DEF IInv, TypeOK, present, fbs, kernel, counts, flipping
<1>7. Connected' /\ Believed'
  BY <1>1, <1>4 DEF IInv, Connected, Believed, PropsAreKernels, present, kernel
<1> QED
  BY <1>2, <1>6, <1>7 DEF IInv

LEMMA ToggleSleepKeeps ==
  ASSUME IInv, ToggleSleep
  PROVE  IInv'
<1>1. UNCHANGED <<plugged, session, resumed, state, present, fbs, kernel, counts, flipping>>
      /\ sleep' = ~sleep
  BY DEF ToggleSleep
<1>2. Lists' /\ Flights' /\ Presents'
  BY <1>1, Quiet DEF state
<1>3. changes' \in 0..MaxChanges
  BY Changes DEF ToggleSleep, IInv
<1>4. TypeOK'
  BY <1>1, <1>3 DEF IInv, TypeOK, state, present, fbs, kernel, counts, flipping
<1>5. Connected' /\ Believed'
  BY <1>1 DEF IInv, Connected, Believed, PropsAreKernels, state, present, kernel
<1> QED
  BY <1>2, <1>4, <1>5 DEF IInv

LEMMA SuspendKeeps ==
  ASSUME IInv, Suspend
  PROVE  IInv'
<1>1. /\ UNCHANGED <<plugged, sleep, resumed, conn, pend, cur, props, present, fbs, counts, flipping>>
      /\ session' = FALSE /\ scan' = {} /\ next' = {} /\ flips = 0
  BY DEF Suspend
<1>2. lit' \in Configs
  <2>1. PICK c \in {lit, Off} \cup [conn : plugged, mode : Modes] : lit' = c
    BY DEF Suspend
  <2>2. [conn : plugged, mode : Modes] \subseteq Configs
    BY DEF IInv, TypeOK, Configs
  <2> QED
    BY <2>1, <2>2, Configurations DEF IInv, TypeOK
<1>3. changes' \in 0..MaxChanges
  BY Changes DEF Suspend, IInv
<1>4. /\ needs' \in BOOLEAN /\ paused' \in BOOLEAN /\ dirty' \in 0..2
  BY <1>1, Dirties DEF Suspend, IInv, TypeOK
<1>5. TypeOK'
  BY <1>1, <1>2, <1>3, <1>4, ZenonT(60) DEF IInv, TypeOK, present, fbs, counts, flipping
<1>6. Connected' /\ Believed'
  BY <1>1 DEF IInv, Connected, Believed, PropsAreKernels, present
<1>7. Lists' /\ Presents'
  BY <1>1 DEF IInv, Lists, Presents, Flying, present, fbs, counts, flipping
<1>8. Flights'
  BY <1>1 DEF IInv, Flights, Flying, LastIsOurs, present, counts, flipping
<1> QED
  BY <1>5, <1>6, <1>7, <1>8 DEF IInv

LEMMA ResumeKeeps ==
  ASSUME IInv, Resume
  PROVE  IInv'
<1>1. /\ UNCHANGED <<plugged, sleep, changes, state, present, fbs, kernel, counts, flipping>>
      /\ session' = TRUE /\ resumed' = TRUE /\ pc # "accepted"
  BY DEF Resume
<1>2. Lists' /\ Flights' /\ Presents'
  BY <1>1, Quiet DEF state
<1>3. TypeOK'
  BY <1>1 DEF IInv, TypeOK, state, present, fbs, kernel, counts, flipping
<1>4. Connected' /\ Believed'
  BY <1>1 DEF IInv, Connected, Believed, PropsAreKernels, state, present, kernel
<1> QED
  BY <1>2, <1>3, <1>4 DEF IInv

LEMMA SessionActiveKeeps ==
  ASSUME IInv, SessionActive
  PROVE  IInv'
<1>1. /\ UNCHANGED <<plugged, sleep, session, changes, conn, pend, cur, props, present, fbs, kernel,
                     counts, flipping>>
      /\ resumed' = FALSE
  BY DEF SessionActive
<1>2. Lists' /\ Flights' /\ Presents'
  BY <1>1, Quiet
<1>3. /\ needs' \in BOOLEAN /\ paused' \in BOOLEAN /\ dirty' \in 0..2 /\ ~(dirty' < 2)
  BY <1>1, Dirties DEF SessionActive, IInv, TypeOK
<1>4. TypeOK'
  BY <1>1, <1>3, ZenonT(60) DEF IInv, TypeOK, present, fbs, kernel, counts, flipping
<1>5. Connected' /\ Believed'
  BY <1>1, <1>3 DEF IInv, Connected, Believed, PropsAreKernels, present, kernel
<1> QED
  BY <1>2, <1>4, <1>5 DEF IInv

LEMMA SetModeKeeps ==
  ASSUME IInv, NEW m \in Modes, SetMode(m)
  PROVE  IInv'
<1>1. /\ UNCHANGED <<plugged, sleep, session, resumed, conn, cur, dirty, paused, props, present,
                     fbs, kernel, counts, flipping>>
      /\ pend' = m /\ needs' = TRUE
  BY DEF SetMode
<1>2. Lists' /\ Flights' /\ Presents'
  BY <1>1, Quiet
<1>3. changes' \in 0..MaxChanges
  BY Changes DEF SetMode, IInv
<1>4. TypeOK'
  BY <1>1, <1>3 DEF IInv, TypeOK, present, fbs, kernel, counts, flipping
<1>5. Connected' /\ Believed'
  BY <1>1, Numbers DEF IInv, Connected, Believed, PropsAreKernels, present, kernel
<1> QED
  BY <1>2, <1>4, <1>5 DEF IInv

LEMMA PollStateKeeps ==
  ASSUME IInv, PollState
  PROVE  IInv'
<1>1. /\ UNCHANGED <<world, paused, present, fbs, kernel, counts, flipping>>
      /\ pc = "idle" /\ pc' = "idle" /\ dirty' = 0 /\ props' = lit
  BY DEF PollState, RefreshState, present
<1>2. Lists' /\ Flights' /\ Presents'
  BY <1>1, QuietIdle
<1>3. /\ conn' \in Conns \cup {None} /\ pend' \in Modes \cup {0} /\ cur' \in Modes \cup {0}
      /\ needs' \in BOOLEAN
      /\ conn' # None => pend' # 0 /\ cur' # 0
  <2>1. (dirty = 2) \in BOOLEAN
    OBVIOUS
  <2> QED
    BY <2>1, Connects DEF PollState, IInv
<1>4. TypeOK'
  BY <1>1, <1>3 DEF IInv, TypeOK, world, present, fbs, kernel, counts, flipping
<1>5. Connected' /\ Believed'
  BY <1>1, <1>3 DEF IInv, Connected, Believed, PropsAreKernels, world, present, kernel
<1> QED
  BY <1>2, <1>4, <1>5 DEF IInv

-----------------------------------------------------------------------------
(* Present.                                                                *)

Hows == {"generated", "direct", "composite"}

\* What all attempts leave alone.
Attempting ==
  /\ pc \in {"idle", "composite", "retry"} /\ conn # None
  /\ UNCHANGED <<plugged, sleep, session, resumed, queuedFbs, visibleFbs, kernel, counts, flipping>>
  /\ changes' \in 0..MaxChanges

\* A request asks for a configuration, and a frame for one of the connector.
LEMMA WantedType ==
  ASSUME TypeOK, Connected, conn # None, NEW modeset \in BOOLEAN,
         ~modeset => Asleep = sleep
  PROVE  /\ Wanted(modeset) \in Configs
         /\ ~sleep => Wanted(modeset).conn = conn
<1>1. conn \in Conns /\ pend \in Modes /\ props \in Configs /\ sleep \in BOOLEAN
  BY DEF TypeOK, Connected
<1>2. CASE ~modeset
  <2>1. Wanted(modeset) = props
    BY <1>2 DEF Wanted
  <2>2. ~sleep => props.conn = conn
    BY <1>1, <1>2 DEF Asleep
  <2> QED
    BY <1>1, <2>1, <2>2
<1>3. CASE modeset
  BY <1>1, <1>3, Configurations DEF Wanted
<1> QED
  BY <1>2, <1>3

LEMMA PreparedKeeps ==
  ASSUME IInv, Attempting, NEW modeset \in BOOLEAN, NEW fb \in Fbs, Prepared(modeset, {fb}),
         ~modeset => Asleep = sleep
  PROVE  IInv'
<1>1. /\ UNCHANGED <<conn, pend, cur, dirty, paused, props>>
      /\ UNCHANGED <<plugged, sleep, session, resumed, queuedFbs, visibleFbs, kernel, counts, flipping>>
      /\ pc' = "commit" /\ needs' = FALSE
      /\ req' = [modeset |-> modeset, flip |-> ~sleep, to |-> Wanted(modeset)]
      /\ inRequest' = IF sleep THEN {} ELSE {fb}
      /\ pc \in {"idle", "composite", "retry"} /\ conn # None
      /\ changes' \in 0..MaxChanges /\ sleep \in BOOLEAN
  BY DEF Prepared, Attempting, IInv, TypeOK
<1>2. /\ Wanted(modeset) \in Configs
      /\ ~sleep => Wanted(modeset).conn = conn
  BY <1>1, WantedType DEF IInv
<1>3. /\ req' \in [modeset : BOOLEAN, flip : BOOLEAN, to : Configs]
      /\ req'.flip = ~sleep /\ req'.to = Wanted(modeset)
  BY <1>1, <1>2
<1>4. TypeOK'
  BY <1>1, <1>3 DEF IInv, TypeOK, kernel, counts, flipping
<1>5. Connected'
  BY <1>1, <1>2, <1>3 DEF IInv, Connected
<1>6. Lists'
  BY <1>1, <1>3 DEF IInv, Lists, Flights, Flying, kernel, counts, flipping
<1>7. Flights' /\ Presents'
  BY <1>1 DEF IInv, Flights, Presents, Flying, kernel, counts, flipping
<1>8. Believed'
  BY <1>1 DEF IInv, Believed, PropsAreKernels, kernel
<1> QED
  BY <1>4, <1>5, <1>6, <1>7, <1>8 DEF IInv

LEMMA FailKeeps ==
  ASSUME IInv, Attempting, NEW modeset \in BOOLEAN, NEW how \in Hows, Fail(modeset, how)
  PROVE  IInv'
<1>1. /\ UNCHANGED <<conn, cur, req, paused, dirty, props>>
      /\ UNCHANGED <<plugged, sleep, session, resumed, queuedFbs, visibleFbs, kernel, counts, flipping>>
      /\ needs' = modeset /\ inRequest' = {} /\ inRequest = {} /\ pend' \in {pend, cur}
      /\ pc \in {"idle", "composite", "retry"} /\ conn # None
      /\ changes' \in 0..MaxChanges /\ session \in BOOLEAN
  BY DEF Fail, RolledBack, Attempting, IInv, TypeOK, Lists
<1>2. pc' \in {"idle", "composite", "retry"}
  BY <1>1 DEF Fail, Hows
<1>3. Lists' /\ Flights' /\ Presents'
  BY <1>1, <1>2, QuietIdle DEF fbs
<1>4. TypeOK'
  BY <1>1, <1>2 DEF IInv, TypeOK, kernel, counts, flipping
<1>5. Connected' /\ Believed'
  BY <1>1, <1>2 DEF IInv, TypeOK, Connected, Believed, PropsAreKernels, kernel
<1> QED
  BY <1>3, <1>4, <1>5 DEF IInv

LEMMA FailEntirelyKeeps ==
  ASSUME IInv, Attempting, NEW modeset \in BOOLEAN, FailEntirely(modeset)
  PROVE  IInv'
<1>1. /\ UNCHANGED <<plugged, sleep, session, resumed, queuedFbs, visibleFbs, kernel, counts, flipping>>
      /\ inRequest' = {} /\ inRequest = {} /\ dirty' = 0 /\ pc' = "idle" /\ req' = req
      /\ pc \in {"idle", "composite", "retry"} /\ conn # None
      /\ changes' \in 0..MaxChanges
      /\ {session, resumed} \subseteq BOOLEAN
  BY DEF FailEntirely, Attempting, IInv, TypeOK, Lists
<1>2. Lists' /\ Flights' /\ Presents'
  BY <1>1, QuietIdle DEF fbs
<1>3. /\ conn' \in Conns \cup {None} /\ pend' \in Modes \cup {0} /\ cur' \in Modes \cup {0}
      /\ needs' \in BOOLEAN /\ paused' \in BOOLEAN
      /\ conn' # None => pend' # 0 /\ cur' # 0
      /\ props' = IF session THEN lit ELSE props
  <2>1. CASE session
    BY <1>1, <2>1, Connects DEF FailEntirely, RefreshState, Active, IInv
  <2>2. CASE ~session
    BY <1>1, <2>2 DEF FailEntirely, IInv, TypeOK, Connected
  <2> QED
    BY <2>1, <2>2
<1>4. TypeOK'
  BY <1>1, <1>3 DEF IInv, TypeOK, kernel, counts, flipping
<1>5. Connected' /\ Believed'
  BY <1>1, <1>3 DEF IInv, Connected, Believed, PropsAreKernels, kernel
<1> QED
  BY <1>2, <1>4, <1>5 DEF IInv

LEMMA AttemptKeeps ==
  ASSUME IInv, NEW how \in Hows, NEW fb \in Fbs, Attempt(how, {fb}),
         pc \in {"idle", "composite", "retry"}, conn # None,
         UNCHANGED <<plugged, sleep, session, resumed, queuedFbs, visibleFbs, kernel, counts,
                     flipping>>
  PROVE  IInv'
<1> DEFINE asks == needs \/ (Asleep # sleep)
<1>1. asks \in BOOLEAN /\ (~asks => Asleep = sleep)
  OBVIOUS
<1>2. \/ Prepared(asks, {fb}) /\ UNCHANGED changes
      \/ ~asks /\ Prepared(TRUE, {fb}) /\ Change
      \/ /\ Change \/ UNCHANGED changes
         /\ Fail(asks, how) \/ FailEntirely(asks)
  BY DEF Attempt, MayRefuse
<1>3. Attempting
  BY <1>2, Changes DEF Attempting, IInv
<1> HIDE DEF asks
<1> QED
  BY <1>1, <1>2, <1>3, PreparedKeeps, FailKeeps, FailEntirelyKeeps

LEMMA PresentKeeps ==
  ASSUME IInv, NEW how \in Hows, Present(how)
  PROVE  IInv'
BY AttemptKeeps DEF Present

LEMMA PresentAgainKeeps ==
  ASSUME IInv, PresentAgain
  PROVE  IInv'
BY AttemptKeeps DEF PresentAgain, Hows, IInv, Connected

-----------------------------------------------------------------------------
(* Commit.                                                                 *)

\* No event is left over from the commits before, to grow older or younger.
LEMMA NoneAges ==
  ASSUME events = <<>>
  PROVE  /\ Aged = <<>>
         /\ [i \in DOMAIN events |-> [events[i] EXCEPT !.age = @ - 1]] = <<>>
BY DEF Aged

LEMMA SubmitRefusedKeeps ==
  ASSUME IInv, Submit, Refused
  PROVE  IInv'
<1>1. /\ pc = "commit" /\ pc' = "refused" /\ ~Flying /\ events = <<>> /\ flips = 0
      /\ next = {} /\ handler = "idle" /\ queuedFbs = {}
      /\ conn # None /\ inFlight \in Nat
  BY DEF Submit, Refused, IInv, TypeOK, Connected, Lists, Flights, Flying
<1>2. /\ UNCHANGED <<plugged, sleep, session, resumed, state, req, visibleFbs, handler, kernel, slept>>
      /\ events' = <<>> /\ inFlight' = inFlight + 1
      /\ flips' = IF req.flip THEN 1 ELSE 0
      /\ queuedFbs' = (IF req.flip THEN inRequest ELSE {}) /\ inRequest' = {}
  BY <1>1, NoneAges DEF Submit, Refused, Swap, IInv, Lists
<1>3. changes' \in 0..MaxChanges
  BY Changes DEF Refused, IInv
<1>4. TypeOK'
  BY <1>1, <1>2, <1>3 DEF IInv, TypeOK, state, kernel
<1>5. Connected' /\ Believed'
  BY <1>1, <1>2 DEF IInv, Connected, Believed, PropsAreKernels, state, kernel
<1>6. Lists'
  BY <1>1, <1>2 DEF IInv, Lists, Flying, kernel
<1>7. Flights'
  BY <1>1, <1>2 DEF IInv, Flights, Flying, kernel
<1>8. Presents'
  BY <1>1, <1>2 DEF IInv, Presents, Flying
<1> QED
  BY <1>4, <1>5, <1>6, <1>7, <1>8 DEF IInv

LEMMA SubmitAcceptedKeeps ==
  ASSUME IInv, Submit, Accepted
  PROVE  IInv'
<1>1. /\ pc = "commit" /\ pc' = "accepted" /\ ~Flying /\ events = <<>> /\ flips = 0
      /\ next = {} /\ handler = "idle" /\ queuedFbs = {} /\ scan \subseteq visibleFbs
      /\ conn # None /\ inFlight \in Nat /\ (inRequest # {} <=> req.flip)
      /\ req.flip \in BOOLEAN /\ req.to \in Configs /\ (req.flip => req.to.conn = conn)
      /\ lit \in Configs
  BY DEF Submit, Accepted, IInv, TypeOK, Connected, Lists, Flights, Flying
<1>2. /\ UNCHANGED <<plugged, sleep, session, resumed, state, req, visibleFbs, handler, changes>>
      /\ inFlight' = inFlight + 1 /\ flips' = (IF req.flip THEN 1 ELSE 0)
      /\ queuedFbs' = inRequest /\ inRequest' = {} /\ lit' = req.to
      /\ next' = inRequest /\ scan' = (IF req.flip THEN scan ELSE {})
      /\ slept' \in BOOLEAN /\ (~req.flip => slept')
  <2>1. /\ UNCHANGED <<plugged, sleep, session, resumed, state, req, visibleFbs, handler, changes>>
        /\ inFlight' = inFlight + 1 /\ flips' = (IF req.flip THEN 1 ELSE 0)
        /\ slept' \in BOOLEAN /\ (~req.flip => slept') /\ lit' = req.to
    <3>1. slept' = (slept \/ ~req.flip) /\ lit' = req.to /\ UNCHANGED changes
      BY DEF Accepted
    <3>2. slept' \in BOOLEAN /\ (~req.flip => slept')
      BY <3>1
    <3> QED
      BY <1>1, <3>1, <3>2 DEF Submit
  <2>2. CASE req.flip
    BY <1>1, <2>2 DEF Submit, Accepted, Swap
  <2>3. CASE ~req.flip
    BY <1>1, <2>3 DEF Submit, Accepted, Swap
  <2> QED
    BY <2>1, <2>2, <2>3
<1>3. \/ events' = <<>>
      \/ /\ req.flip /\ lit.conn \in Conns /\ lit.conn # conn
         /\ events' = <<[crtc |-> lit.conn, age |-> 0]>>
  <2>1. Append(<<>>, [crtc |-> lit.conn, age |-> 0]) = <<[crtc |-> lit.conn, age |-> 0]>>
    OBVIOUS
  <2> QED
    BY <1>1, <2>1, NoneAges, Configurations DEF Accepted
<1>4. /\ events' \in Seq([crtc : Conns, age : Nat])
      /\ \A i \in DOMAIN events' : events'[i].age = 0 /\ events'[i].crtc # conn
      /\ ~req.flip => events' = <<>>
  <2>1. CASE events' = <<>>
    BY <2>1
  <2>2. CASE /\ req.flip /\ lit.conn \in Conns /\ lit.conn # conn
             /\ events' = <<[crtc |-> lit.conn, age |-> 0]>>
    <3>1. [crtc |-> lit.conn, age |-> 0] \in [crtc : Conns, age : Nat]
      BY <2>2
    <3>2. events' \in Seq([crtc : Conns, age : Nat]) /\ DOMAIN events' = {1}
      BY <2>2, <3>1
    <3>3. events'[1] = [crtc |-> lit.conn, age |-> 0]
      BY <2>2
    <3> QED
      BY <2>2, <3>2, <3>3
  <2> QED
    BY <1>3, <2>1, <2>2
<1>5. TypeOK'
  BY <1>1, <1>2, <1>4 DEF IInv, TypeOK, state
<1>6. Connected' /\ Believed'
  BY <1>1, <1>2 DEF IInv, Connected, Believed, PropsAreKernels, state
<1>7. Lists'
  BY <1>1, <1>2 DEF IInv, Lists, Flying
<1>8. Flights'
  <2>1. CASE req.flip
    BY <1>1, <1>2, <1>4, <2>1 DEF Flights, Flying, Ours, state
  <2>2. CASE ~req.flip
    BY <1>1, <1>2, <1>4, <2>2 DEF Flights, Flying, state
  <2> QED
    BY <2>1, <2>2
<1>9. Presents'
  BY <1>1, <1>2 DEF IInv, Presents, Flying
<1> QED
  BY <1>5, <1>6, <1>7, <1>8, <1>9 DEF IInv

LEMMA AfterAcceptedKeeps ==
  ASSUME IInv, AfterAccepted
  PROVE  IInv'
<1>1. /\ UNCHANGED <<world, conn, pend, needs, dirty, paused, queuedFbs, visibleFbs, kernel, counts,
                     flipping>>
      /\ pc = "accepted" /\ inRequest' = {} /\ inRequest = {} /\ cur' = pend /\ props' = req.to
      /\ pc' = (IF req.flip THEN "wait" ELSE "idle") /\ req' = NoRequest
      /\ conn # None /\ pend # 0
  BY DEF AfterAccepted, IInv, Connected, Lists
<1>2. req' \in [modeset : BOOLEAN, flip : BOOLEAN, to : Configs] /\ req'.flip = FALSE
  BY <1>1, Configurations DEF NoRequest
<1>3. Flying' = Flying
  BY <1>1, <1>2 DEF Flying
<1>4. TypeOK'
  BY <1>1, <1>2 DEF IInv, TypeOK, world, kernel, counts, flipping
<1>5. Connected' /\ Believed'
  BY <1>1 DEF IInv, Connected, Believed, PropsAreKernels, world, kernel
<1>6. Lists'
  BY <1>1, <1>3 DEF IInv, Lists, kernel, counts, flipping
<1>7. Flights'
  BY <1>1, <1>3 DEF IInv, Flights, LastIsOurs, Ours, kernel, counts, flipping
<1>8. Presents'
  BY <1>1, <1>3 DEF IInv, Presents, Flying, counts, flipping
<1> QED
  BY <1>4, <1>5, <1>6, <1>7, <1>8 DEF IInv

LEMMA AfterRefusedKeeps ==
  ASSUME IInv, AfterRefused
  PROVE  IInv'
<1>1. /\ UNCHANGED <<world, conn, cur, needs, dirty, paused, props, visibleFbs, kernel, slept, handler>>
      /\ pc = "refused" /\ ~Flying /\ events = <<>> /\ next = {} /\ handler = "idle"
      /\ flips = (IF req.flip THEN 1 ELSE 0) /\ inRequest = {} /\ conn # None /\ pend' = cur
      /\ inRequest' = {} /\ queuedFbs' = inRequest /\ pc' = "idle" /\ req' = NoRequest
      /\ inFlight \in Nat /\ inFlight > 0 /\ inFlight' = inFlight - 1
  BY DEF AfterRefused, Uncount, IInv, TypeOK, Connected, Lists, Flights, Presents, Flying
<1>2. events' = <<>> /\ flips' = 0
  BY <1>1, NoneAges DEF AfterRefused
<1>3. req' \in [modeset : BOOLEAN, flip : BOOLEAN, to : Configs] /\ req'.flip = FALSE
  BY <1>1, Configurations DEF NoRequest
<1>4. TypeOK'
  BY <1>1, <1>2, <1>3 DEF IInv, TypeOK, world, kernel
<1>5. Connected' /\ Believed'
  BY <1>1 DEF IInv, TypeOK, Connected, Believed, PropsAreKernels, world, kernel
<1>6. Lists'
  BY <1>1, <1>2 DEF IInv, Lists, Flying, kernel
<1>7. Flights'
  BY <1>1, <1>2 DEF IInv, Flights, Flying, kernel
<1>8. Presents'
  BY <1>1 DEF IInv, Presents, Flying
<1> QED
  BY <1>4, <1>5, <1>6, <1>7, <1>8 DEF IInv

LEMMA FlipWaitedKeeps ==
  ASSUME IInv, FlipWaited
  PROVE  IInv'
<1>1. /\ UNCHANGED <<world, state, req, fbs, kernel, counts, flipping>>
      /\ pc = "wait" /\ flips = 0 /\ pc' = "idle" /\ Flying /\ ~Flying'
      /\ next = {} /\ handler = "idle" /\ events = <<>> /\ inFlight = 0
  BY DEF FlipWaited, IInv, Flights, Presents, Flying
<1>2. TypeOK'
  BY <1>1 DEF IInv, TypeOK, world, state, fbs, kernel, counts, flipping
<1>3. Connected' /\ Believed'
  BY <1>1 DEF IInv, Connected, Believed, PropsAreKernels, world, state, kernel
<1>4. Lists'
  BY <1>1 DEF IInv, Lists, fbs, kernel, counts, flipping
<1>5. Flights' /\ Presents'
  BY <1>1 DEF IInv, Flights, Presents, Flying, kernel, counts, flipping
<1> QED
  BY <1>2, <1>3, <1>4, <1>5 DEF IInv

-----------------------------------------------------------------------------
(* The kernel, and the handler of flips.                                   *)

Event == [crtc : Conns, age : Nat]

LEMMA KernelFlipsKeeps ==
  ASSUME IInv, KernelFlips
  PROVE  IInv'
<1>1. /\ UNCHANGED <<world, state, present, fbs, lit, counts, handler>>
      /\ next # {} /\ scan' = next /\ next' = {} /\ Flying /\ flips = 1 /\ handler = "idle"
      /\ lit.conn = conn /\ conn \in Conns /\ next = queuedFbs /\ events \in Seq(Event)
      /\ \A i \in DOMAIN events : ~Ours(events[i]) /\ events[i].age = 0
  BY DEF KernelFlips, IInv, TypeOK, Connected, Lists, Flights, Flying, Event
<1> DEFINE e == [crtc |-> conn, age |-> 0]
<1>2. e \in Event /\ e.crtc = conn /\ e.age = 0 /\ events' = Append(events, e)
  BY <1>1 DEF Event, KernelFlips
<1> HIDE DEF e
<1>3. /\ events' \in Seq(Event) /\ Len(events') = Len(events) + 1 /\ Len(events) \in Nat
      /\ events'[Len(events')] = e
      /\ \A i \in 1..Len(events) : events'[i] = events[i]
  BY <1>1, <1>2
<1>4. /\ \A i \in DOMAIN events' : events'[i].age = 0
      /\ events' # <<>> /\ events'[Len(events')].crtc = conn
      /\ \A i \in 1..(Len(events') - 1) : events'[i].crtc # conn
  BY <1>1, <1>2, <1>3 DEF Ours
<1>5. Flying' = Flying
  BY <1>1 DEF Flying, present
<1>6. TypeOK'
  BY <1>1, <1>3 DEF IInv, TypeOK, Event, world, state, present, fbs, counts
<1>7. Connected' /\ Believed'
  BY <1>1 DEF IInv, Connected, Believed, PropsAreKernels, world, state, present
<1>8. Lists'
  BY <1>1, <1>5 DEF IInv, Lists, present, fbs, counts
<1>9. Flights'
  BY <1>1, <1>4, <1>5 DEF IInv, Flights, LastIsOurs, Ours, state, present, counts
<1>10. Presents'
  BY <1>1, <1>5 DEF IInv, Presents, present, counts
<1> QED
  BY <1>6, <1>7, <1>8, <1>9, <1>10 DEF IInv

\* An event that is handled leaves the others, one younger in the queue.
LEMMA Handles ==
  ASSUME IInv, events # <<>>, handler = "idle"
  PROVE  /\ events \in Seq(Event) /\ Head(events) = events[1] /\ Head(events).age = 0
         /\ Len(events) \in Nat \ {0} /\ Flying /\ flips = 1
         /\ Tail(events) \in Seq(Event) /\ Len(Tail(events)) = Len(events) - 1
         /\ \A i \in 1..(Len(events) - 1) : Tail(events)[i] = events[i + 1]
         /\ \A i \in DOMAIN Tail(events) : Tail(events)[i].age = 0
         /\ next = {} => LastIsOurs
         /\ next # {} => lit.conn = conn /\ \A i \in 1..Len(events) : ~Ours(events[i])
<1>1. /\ events \in Seq(Event) /\ Flying /\ flips = 1 /\ (next = {} => LastIsOurs)
      /\ next # {} => lit.conn = conn /\ \A i \in DOMAIN events : ~Ours(events[i])
      /\ \A i \in DOMAIN events : events[i].age = 0
  BY DEF IInv, TypeOK, Flights, Event
<1>2. /\ Len(events) \in Nat \ {0} /\ DOMAIN events = 1..Len(events)
      /\ Head(events) = events[1]
      /\ Tail(events) \in Seq(Event) /\ Len(Tail(events)) = Len(events) - 1
      /\ \A i \in 1..(Len(events) - 1) : Tail(events)[i] = events[i + 1]
      /\ DOMAIN Tail(events) = 1..(Len(events) - 1)
  BY <1>1
<1>3. \A i \in DOMAIN Tail(events) : Tail(events)[i].age = 0
  BY <1>1, <1>2
<1> QED
  BY <1>1, <1>2, <1>3

LEMMA HandleOtherKeeps ==
  ASSUME IInv, HandleOther
  PROVE  IInv'
<1>1. /\ UNCHANGED <<world, state, present, fbs, kernel, flips, slept, handler>>
      /\ events # <<>> /\ handler = "idle" /\ ~Ours(events[1])
      /\ inFlight' = 0 /\ events' = Tail(events)
  BY Handles DEF HandleOther
<1>2. Flying /\ Flying' /\ flips = 1
  BY <1>1, Handles DEF Flying, present
<1>3. TypeOK'
  BY <1>1, Handles DEF IInv, TypeOK, Event, world, state, present, fbs, kernel
<1>4. Connected' /\ Believed'
  BY <1>1 DEF IInv, Connected, Believed, PropsAreKernels, world, state, present, kernel
<1>5. Lists'
  BY <1>1, <1>2 DEF IInv, Lists, present, fbs, kernel
<1>6. Flights'
  <2>1. next = {} => LastIsOurs'
    <3>1. SUFFICES ASSUME next = {} PROVE LastIsOurs'
      OBVIOUS
    <3>2. Len(events) > 1 /\ Len(events) \in Nat /\ Ours(events[Len(events)])
      BY <1>1, <3>1, Handles DEF LastIsOurs
    <3>3. /\ Len(events') = Len(events) - 1
          /\ events'[Len(events')] = events[Len(events)]
          /\ \A i \in 1..(Len(events') - 1) : events'[i] = events[i + 1]
      BY <1>1, <3>2, Handles
    <3>4. \A i \in 1..(Len(events') - 1) : ~Ours(events[i + 1])
      <4>1. \A j \in 1..(Len(events) - 1) : ~Ours(events[j])
        BY <1>1, <3>1, Handles DEF LastIsOurs
      <4> QED
        BY <3>2, <3>3, <4>1
    <3>5. events' # <<>>
      BY <3>2, <3>3
    <3> QED
      BY <1>1, <3>2, <3>3, <3>4, <3>5 DEF LastIsOurs, Ours, state
  <2>2. next # {} => lit.conn = conn /\ \A i \in DOMAIN events' : ~Ours(events'[i])
    <3>1. SUFFICES ASSUME next # {} PROVE lit.conn = conn /\ \A i \in DOMAIN events' : ~Ours(events'[i])
      OBVIOUS
    <3>2. DOMAIN events' = 1..(Len(events) - 1)
      BY <1>1, Handles
    <3> QED
      BY <1>1, <3>1, <3>2, Handles
  <2>3. \A i \in DOMAIN events' : events'[i].age = 0
    BY <1>1, Handles
  <2> QED
    BY <1>1, <1>2, <2>1, <2>2, <2>3 DEF Flights, Ours, state, kernel
<1>7. Presents'
  BY <1>1, <1>2 DEF IInv, Presents, Flying, present
<1> QED
  BY <1>3, <1>4, <1>5, <1>6, <1>7 DEF IInv

LEMMA HandleFlipKeeps ==
  ASSUME IInv, HandleFlip
  PROVE  IInv'
<1>1. /\ UNCHANGED <<world, state, present, fbs, kernel, flips>>
      /\ events # <<>> /\ handler = "idle" /\ handler' = "swap" /\ Ours(events[1])
      /\ inFlight' = 0 /\ slept' = FALSE /\ events' = Tail(events)
  BY Handles DEF HandleFlip
<1>2. Flying /\ Flying' /\ flips = 1
  BY <1>1, Handles DEF Flying, present
<1>3. next = {} /\ Len(events) = 1
  BY <1>1, Handles DEF LastIsOurs
<1>4. events' = <<>> /\ events' \in Seq(Event)
  <2>1. events' \in Seq(Event) /\ Len(events') = 0
    BY <1>1, <1>3, Handles
  <2> QED
    BY <2>1
<1>5. TypeOK'
  <2>1. {sleep', session', resumed', needs', paused', slept'} \subseteq BOOLEAN
    BY <1>1 DEF IInv, TypeOK, world, state
  <2> QED
    BY <1>1, <1>2, <1>4, <2>1 DEF IInv, TypeOK, Event, world, state, present, fbs, kernel
<1>6. Connected' /\ Believed'
  BY <1>1 DEF IInv, Connected, Believed, PropsAreKernels, world, state, present, kernel
<1>7. Lists'
  BY <1>1, <1>2, <1>3 DEF IInv, Lists, present, fbs, kernel
<1>8. Flights' /\ Presents'
  BY <1>1, <1>2, <1>3, <1>4 DEF IInv, Flights, Presents, kernel, Flying
<1> QED
  BY <1>5, <1>6, <1>7, <1>8 DEF IInv

LEMMA HandleSwapKeeps ==
  ASSUME IInv, HandleSwap
  PROVE  IInv'
<1>1. /\ UNCHANGED <<world, state, present, inRequest, kernel, counts, events>>
      /\ handler = "swap" /\ handler' = "count" /\ visibleFbs' = queuedFbs /\ queuedFbs' = {}
      /\ Flying /\ next = {} /\ flips = 1 /\ events = <<>> /\ scan \subseteq queuedFbs
  BY DEF HandleSwap, BecomeVisible, IInv, Lists, Flights
<1>2. Flying' = Flying
  BY <1>1 DEF Flying, present
<1>3. TypeOK'
  BY <1>1 DEF IInv, TypeOK, world, state, present, kernel, counts
<1>4. Connected' /\ Believed'
  BY <1>1 DEF IInv, Connected, Believed, PropsAreKernels, world, state, present, kernel
<1>5. Lists'
  BY <1>1, <1>2 DEF IInv, Lists, present, kernel, counts
<1>6. Flights' /\ Presents'
  BY <1>1, <1>2 DEF IInv, Flights, Presents, present, kernel, counts, LastIsOurs
<1> QED
  BY <1>3, <1>4, <1>5, <1>6 DEF IInv

LEMMA HandleCountKeeps ==
  ASSUME IInv, HandleCount
  PROVE  IInv'
<1>1. /\ UNCHANGED <<world, state, present, fbs, kernel, inFlight, slept, events>>
      /\ handler = "count" /\ handler' = "idle" /\ flips' = 0
      /\ Flying /\ next = {} /\ flips = 1 /\ events = <<>> /\ queuedFbs = {}
      /\ scan \subseteq visibleFbs /\ inFlight = 0
  BY DEF HandleCount, IInv, Lists, Flights, Presents
<1>2. Flying' = Flying
  BY <1>1 DEF Flying, present
<1>3. TypeOK'
  BY <1>1 DEF IInv, TypeOK, world, state, present, fbs, kernel
<1>4. Connected' /\ Believed'
  BY <1>1 DEF IInv, Connected, Believed, PropsAreKernels, world, state, present, kernel
<1>5. Lists'
  BY <1>1, <1>2 DEF IInv, Lists, present, fbs, kernel
<1>6. Flights' /\ Presents'
  BY <1>1, <1>2 DEF IInv, Flights, Presents, Flying, present, kernel
<1> QED
  BY <1>3, <1>4, <1>5, <1>6 DEF IInv

-----------------------------------------------------------------------------
(* All steps.                                                              *)

LEMMA InitIInv ==
  ASSUME Init
  PROVE  IInv
<1>1. lit \in Configs
  BY Numbers, Configurations DEF Init
<1>2. TypeOK
  <2>1. /\ {sleep, session, resumed, needs, paused, slept} \subseteq BOOLEAN
        /\ changes \in 0..MaxChanges /\ events \in Seq(Event)
    <3>1. {sleep, session, resumed, needs, paused, slept} \subseteq BOOLEAN
      BY DEF Init
    <3>2. changes \in 0..MaxChanges
      BY DrmAssumption DEF Init
    <3>3. events \in Seq(Event)
      BY DEF Init
    <3> QED
      BY <3>1, <3>2, <3>3
  <2>2. req \in [modeset : BOOLEAN, flip : BOOLEAN, to : Configs]
    BY Configurations DEF Init, NoRequest
  <2>3. /\ conn \in Conns \cup {None} /\ pend \in Modes \cup {0} /\ cur \in Modes \cup {0}
        /\ cur # 0
    BY Numbers DEF Init
  <2> QED
    BY <1>1, <2>1, <2>2, <2>3 DEF Init, TypeOK, Event
<1>3. Connected /\ Lists /\ Flights /\ Presents /\ Believed
  BY Numbers DEF Init, Connected, Lists, Flights, Presents, Believed, PropsAreKernels, Flying, None
<1> QED
  BY <1>2, <1>3 DEF IInv

LEMMA NextKeeps ==
  ASSUME IInv, [Next]_vars
  PROVE  IInv'
<1>1. CASE Hotplug \/ ToggleSleep \/ Suspend \/ Resume \/ SessionActive
  BY <1>1, HotplugKeeps, ToggleSleepKeeps, SuspendKeeps, ResumeKeeps, SessionActiveKeeps
<1>2. CASE (\E m \in Modes : SetMode(m)) \/ PollState
  BY <1>2, SetModeKeeps, PollStateKeeps
<1>3. CASE (\E how \in Hows : Present(how)) \/ PresentAgain
  BY <1>3, PresentKeeps, PresentAgainKeeps
<1>4. CASE Submit \/ AfterAccepted \/ AfterRefused \/ FlipWaited
  <2>1. Submit => Submit /\ (Accepted \/ Refused)
    BY DEF Submit
  <2> QED
    BY <1>4, <2>1, SubmitAcceptedKeeps, SubmitRefusedKeeps, AfterAcceptedKeeps, AfterRefusedKeeps,
       FlipWaitedKeeps
<1>5. CASE KernelFlips \/ Handler
  BY <1>5, KernelFlipsKeeps, HandleOtherKeeps, HandleFlipKeeps, HandleSwapKeeps, HandleCountKeeps
     DEF Handler
<1>6. CASE UNCHANGED vars
  <2>1. /\ UNCHANGED <<world, state, present, fbs, kernel, counts, flipping>>
    BY <1>6 DEF vars
  <2>2. Lists' /\ Flights' /\ Presents'
    BY <2>1, Quiet DEF state
  <2>3. TypeOK' /\ Connected' /\ Believed'
    BY <2>1 DEF IInv, TypeOK, Connected, Believed, PropsAreKernels, world, state, present, fbs,
       kernel, counts, flipping
  <2> QED
    BY <2>2, <2>3 DEF IInv
<1> QED
  BY <1>1, <1>2, <1>3, <1>4, <1>5, <1>6 DEF Next, Hows

\* The backend's lists, its counters, the kernel and the events under way agree in
\* every reachable state.
THEOREM Inductive == Spec => []IInv
<1>1. Init => IInv
  BY InitIInv
<1>2. IInv /\ [Next]_vars => IInv'
  BY NextKeeps
<1> QED
  BY <1>1, <1>2, PTL DEF Spec

\* At most one flip is pending, a connector in use always has a mode to go back to,
\* and the handler of flips never counts below zero.
THEOREM TypeCorrect == Spec => []TypeOK
<1>1. IInv => TypeOK
  BY DEF IInv
<1> QED
  BY <1>1, Inductive, PTL

\* Whatever the kernel scans out, or has been given to scan out, is referenced.
THEOREM ScanoutStaysHeld == Spec => []ScanoutHeld
<1>1. IInv => ScanoutHeld
  BY DEF IInv, Lists, Flights, ScanoutHeld
<1> QED
  BY <1>1, Inductive, PTL

\* Once Commit has returned no flip is pending, no list holds a framebuffer of a
\* frame under way, and unless the screen was put to sleep no present is in flight.
THEOREM NothingStaysInFlight == Spec => []NothingInFlight
<1>1. IInv => NothingInFlight
  BY DEF IInv, Lists, Flights, Presents, Flying, NothingInFlight
<1> QED
  BY <1>1, Inductive, PTL

\* While the session is the compositor's, what the backend believes of the kernel's
\* configuration is true.
THEOREM PropsStayKernels == Spec => []PropsAreKernels
<1>1. IInv => PropsAreKernels
  BY DEF IInv, Believed
<1> QED
  BY <1>1, Inductive, PTL
============================================================================
