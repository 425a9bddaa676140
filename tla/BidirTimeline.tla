--------------------------- MODULE BidirTimeline ---------------------------
(***************************************************************************)
(* The delayed timeline of bidirectional frame generation                  *)
(* (src/rendervulkan.cpp, src/framegen/deadline.hpp): a frame of the game  *)
(* is composited when it comes, but queued, and shown one interval later,  *)
(* so that frames between it and its predecessor can be shown first.       *)
(*                                                                         *)
(* `h' is g_framegenHistory.  One step is one opportunity of the display   *)
(* (a pass of the compositor that takes the vblank), or something that     *)
(* happens between two passes: the GPU finishes a batch, the backend lets  *)
(* an image go or reports a flip, the focus changes.                       *)
(*                                                                         *)
(* The queue is sorted by display target and no two entries share one, so  *)
(* it is a set here.  Source times are in ticks, `Ticks' to a vblank.  A   *)
(* frame's content is 2*id for a real one and 2*id-1 for one generated     *)
(* between it and its predecessor: content grows in the order in which     *)
(* the game drew it.  An image of the ring is named by its frame; the      *)
(* second image of a frame that is composited again is not counted.        *)
(***************************************************************************)
EXTENDS Integers, Sequences, FiniteSets

CONSTANTS
  Ticks,     \* source times to a vblank
  Mult,      \* eff.multiplier
  Ring,      \* images in the output ring
  Before,    \* those the backend holds at first, of frames before the first
  Lag,       \* bound of the model: vblanks a frame is put off
  Last,      \* bound of the model: display opportunities
  Frames,    \* bound of the model: frames of the game
  Scenes,    \* bound of the model: scene changes and cuts
  Slips      \* bound of the model: missed opportunities and flips, lost reports

ASSUME BidirAssumption ==
  /\ Ticks \in Nat \ {0} /\ Mult \in Nat \ {0} /\ Ring \in Nat \ {0} /\ Before \in Nat
  /\ Lag \in Nat /\ Last \in Nat /\ Frames \in Nat /\ Scenes \in Nat /\ Slips \in Nat

None == 0

VARIABLES
  now,     \* the next display opportunity, GetNextVBlank(0)
  frame,   \* ulCurrentRealFrameId, its source time, and whether its texture
           \* is the one recorded last
  h,       \* g_framegenHistory
  gpu,     \* the last batch the GPU has finished
  shown,   \* the content last committed
  host,    \* frames whose images the backend holds
  flight,  \* delayed reals committed whose feedback has not been drained
  scenes,  \* bound of the model: how often the scene changed
  since,   \* history: the frames up to this one are from earlier scenes
  back,    \* history: in this scene a report has moved the mapping back, to before a
           \* queued entry
  overdue, \* history: a frame came when its opportunity had passed
  slips    \* bound of the model: what the display missed

vars == <<now, frame, h, gpu, shown, host, flight, scenes, since, back, overdue, slips>>

NoEpoch == [valid |-> FALSE, src |-> 0, disp |-> 0, n |-> 0]

Init ==
  /\ now = 1 /\ gpu = 0 /\ shown = None /\ host = (1 - Before)..0 /\ flight = <<>>
  /\ frame = [id |-> 0, src |-> 0, again |-> FALSE]
  /\ scenes = 0 /\ since = 0 /\ back = FALSE /\ overdue = FALSE /\ slips = 0
  /\ h = [pending |-> {},      \* the queue
          target |-> 0,        \* uBidirPendingTarget
          epoch |-> NoEpoch,   \* bidirEpoch
          grid |-> 0,          \* ulBidirGridEpoch
          origin |-> 0,        \* ulBidirGridTargetNs
          recs |-> {},         \* bidirFeedbackEndpoints
          hold |-> None,       \* bidirLastOutput
          prev |-> None, cur |-> None,  \* previousReal, currentReal
          src |-> 0,           \* ulCurrentCadenceTimeNs
          valid |-> FALSE,
          base |-> None,       \* ulLastBaseCommitID, pLastBaseTexture
          cut |-> FALSE,       \* bidirCutEpisode
          unread |-> FALSE,    \* a batch's statistics are still to be consumed
          batch |-> 0,         \* lastGeneratedSeqNo
          pins |-> {},         \* genReadA, genReadB
          failures |-> 0]      \* nBidirRingPressureFailures

-----------------------------------------------------------------------------
(* The queue.                                                              *)

Made(content) == content % 2 = 1

Lesser(a, b) == IF a < b THEN a ELSE b
Greater(a, b) == IF a > b THEN a ELSE b

HardCap == Lesser(Greater(Ring - 2, 0), 2 * (Greater(2, Mult) + 1))

Real(q) == {e \in q : e.real}
Front(q) == CHOOSE e \in q : \A f \in q : e.target <= f.target
Ready(e) == e.real \/ e.seq <= gpu

\* the newest real entry, the first of them in the queue
Newest(q) == CHOOSE e \in Real(q) : \A f \in Real(q) :
               \/ e.id > f.id
               \/ e.id = f.id /\ e.target <= f.target

\* whether `e' enters the queue, against an entry with its target
Yields(o, e) == IF e.real THEN ~o.real \/ e.id >= o.id
                          ELSE ~o.real /\ e.id >= o.id
Enters(q, e) == \A o \in q : o.target = e.target => Yields(o, e)

Insert(q, e) ==
  IF Enters(q, e) THEN {o \in q : o.target # e.target} \cup {e} ELSE q

ForcesDrain(g) ==
  LET depth == Cardinality(g.pending)
      plan == IF g.target # 0 THEN Lesser(g.target, HardCap) ELSE HardCap
  IN  depth > 0 /\ (depth >= HardCap \/ depth > plan)

Due(g) == Front(g.pending).target <= now \/ ForcesDrain(g)

Establish(src, disp, n) == [valid |-> TRUE, src |-> src, disp |-> disp, n |-> n]

\* a new epoch, on the newest endpoint left and its record
Resync(g) ==
  LET kept == IF Real(g.pending) = {} THEN {}
              ELSE {r \in g.recs : r.id = Newest(g.pending).id}
      n == g.grid + 1
  IN  IF kept = {}
      THEN [g EXCEPT !.grid = n, !.recs = {}, !.epoch = NoEpoch]
      ELSE LET r == CHOOSE x \in kept : TRUE
           IN  [g EXCEPT !.grid = n, !.recs = {[r EXCEPT !.n = n]},
                  !.epoch = Establish(r.src, Ticks * Newest(g.pending).target, n)]

Oldest(q, n) == {e \in q : Cardinality({f \in q : f.target < e.target}) < n}

\* generated entries go first, then endpoints, the oldest first
Doomed(q, n) ==
  LET made == q \ Real(q)
      over == n - Cardinality(made)
  IN  IF over <= 0 THEN Oldest(made, n) ELSE made \cup Oldest(Real(q), over)

Shed(g, cap) ==
  LET gone == Doomed(g.pending, Cardinality(g.pending) - cap)
      left == [g EXCEPT !.pending = @ \ gone]
  IN  IF Cardinality(g.pending) <= cap THEN g
      ELSE IF Real(gone) = {} THEN left ELSE Resync(left)

-----------------------------------------------------------------------------
(* A new scene, and the images of the ring.                                *)

Unpinned(g) == IF g.batch <= gpu THEN [g EXCEPT !.pins = {}] ELSE g

Forget(g) ==
  [g EXCEPT !.epoch = NoEpoch, !.grid = 0, !.origin = 0, !.recs = {},
            !.prev = None, !.cur = None, !.src = 0, !.valid = FALSE,
            !.base = None, !.cut = FALSE, !.unread = FALSE]

\* Fault: interpolations stay.
InvalidatedKept(g) == Forget(Unpinned(g))

\* vulkan_framegen_invalidate_history: real frames stay in the queue
Invalidated(g) == [Forget(Unpinned(g)) EXCEPT !.pending = Real(@)]

\* the same for "real_output_ring_pressure": all goes, but the first time one hold
RingFlushed(g) ==
  LET keep == IF g.failures > 0 THEN None
              ELSE IF Real(g.pending) # {} THEN Newest(g.pending).content
              ELSE IF g.cur # None THEN 2 * g.cur ELSE g.hold
  IN  [Forget(Unpinned(g)) EXCEPT !.pending = {}, !.hold = keep, !.failures = 1]

\* images that a texture reference or the backend keeps in use
InUse(g) ==
  {f \in (1 - Before)..frame.id :
     \/ 2 * f \in {e.content : e \in g.pending} \cup {g.hold}
     \/ f \in {g.prev, g.cur} \cup g.pins \cup host}
HasFree(g) == Cardinality(InUse(g)) < Ring

\* the queue gives way entry by entry, but for the last
Shrunk(g) ==
  LET f[n \in 0..Cardinality(g.pending)] ==
        IF n = 0 THEN g ELSE Shed(f[n - 1], Cardinality(g.pending) - n)
      enough == {n \in 0..(Cardinality(g.pending) - 1) : HasFree(f[n])}
  IN  IF enough = {} THEN RingFlushed(f[Greater(Cardinality(g.pending) - 1, 0)])
      ELSE f[CHOOSE n \in enough : \A m \in enough : n <= m]

\* before a composite: an image to draw into
Acquired(g) ==
  LET s == Shed(Unpinned(g), HardCap)
  IN  IF HasFree(s) THEN s ELSE Shrunk(s)

-----------------------------------------------------------------------------
(* Planning a pair of frames.                                              *)

CeilDiv(a, b) == (a + b - 1) \div b

\* a source time's display time, under the mapping
Ideal(g, s) == g.epoch.disp + s - g.epoch.src

\* Fault: rounds down.
TargetFloor(g, s) ==
  IF Ideal(g, s) <= Ticks * g.origin THEN g.origin ELSE Ideal(g, s) \div Ticks

\* the first opportunity of the grid not before it
Target(g, s) ==
  IF Ideal(g, s) <= Ticks * g.origin THEN g.origin ELSE CeilDiv(Ideal(g, s), Ticks)

\* the opportunities between two endpoints that may be filled
Between(a, b) ==
  LET n == IF b - a > 1 THEN b - a - 1 ELSE 0
      most == Mult - 1
  IN  IF n <= most THEN (a + 1)..(a + n)
      ELSE {a + 1 + ((2 * i + 1) * n) \div (2 * most) : i \in 0..(most - 1)}

First(S, n) == {t \in S : Cardinality({u \in S : u < t}) < n}

RealEntry(f, content, t) ==
  [real |-> TRUE, id |-> f, content |-> content, target |-> t, seq |-> 0]
MadeEntry(f, t, seq) ==
  [real |-> FALSE, id |-> f, content |-> 2 * f - 1, target |-> t, seq |-> seq]

Queued(g, f, src, content, t) ==
  LET e == RealEntry(f, content, t)
  IN  IF Enters(g.pending, e)
      THEN [g EXCEPT !.pending = Insert(@, e),
                     !.recs = {r \in @ : r.id # f}
                              \cup {[id |-> f, src |-> src, n |-> g.epoch.n]}]
      ELSE g

\* a frame whose source time is `s', of which at most `most' frames are made
Planned(g0, f, s, most) ==
  LET gridded == IF g0.grid # 0 THEN g0
                 ELSE [g0 EXCEPT !.epoch = NoEpoch, !.recs = {}, !.grid = 1]
      est == ~gridded.epoch.valid
      g == IF ~est THEN gridded
           ELSE [gridded EXCEPT !.origin = now,
                   !.epoch = Establish(g0.src, Ticks * now, gridded.grid)]
      a == Target(g, g0.src)
      b == Target(g, s)
      incoming == IF est /\ a # b THEN 2 ELSE 1
      plan == Lesser(HardCap, CeilDiv(s - g0.src, Ticks) + 1)
      depth == Cardinality(g.pending)
      room == Greater(plan - depth - incoming, 0)
      wanted == IF g.batch > gpu THEN {}
                ELSE First({t \in Between(a, b) :
                              t > now /\ \A e \in g.pending : e.target # t}, room)
      made == First(wanted, most)
      over == Greater(depth + incoming - plan, 0)
      shed == Shed([g EXCEPT !.target = plan], depth - Lesser(over, depth))
      filled == IF made = {} THEN shed
                ELSE [shed EXCEPT !.batch = @ + 1, !.unread = TRUE,
                        !.pins = {shed.prev, shed.cur},
                        !.pending = @ \cup {MadeEntry(f, t, shed.batch + 1) : t \in made}]
      paired == IF est /\ a # b
                THEN Queued(filled, f - 1, g0.src, 2 * g0.prev, a) ELSE filled
      ended == Queued(paired, f, s, 2 * g0.cur, b)
      final == Shed(ended, plan)
      lost == Real(g.pending) \ Real(shed.pending) # {}
      lostLast == Real(ended.pending) \ Real(final.pending) # {}
  IN  IF lost /\ ~lostLast THEN Resync(final) ELSE final

\* the statistics of the last batch: a cut drops what was made across it
Observed(g, cut) ==
  LET seen == [g EXCEPT !.unread = FALSE, !.cut = cut]
  IN  IF g.batch > gpu \/ ~g.unread THEN g
      ELSE IF ~cut THEN seen
      ELSE IF g.cut THEN [seen EXCEPT !.pending = Real(@)]
      ELSE [seen EXCEPT !.pending = Real(@), !.epoch = NoEpoch, !.recs = {}]

\* framegen_record_real_frame; `scene': it finds that the scene has changed
Pairs(g, scene) == ~scene /\ g.valid /\ g.src # 0 /\ frame'.src > g.src /\ g.cur # None

Recorded(g, scene, cut, most) ==
  LET f == frame'.id
      s == frame'.src
      old == IF scene THEN Invalidated(g) ELSE [g EXCEPT !.base = f]
      kept == [old EXCEPT !.prev = old.cur, !.cur = f]
      seen == Observed(kept, cut)
      done == IF Pairs(g, scene) THEN Planned(seen, f, s, most) ELSE seen
  IN  IF ~old.valid THEN [kept EXCEPT !.valid = TRUE, !.src = s]
      ELSE [done EXCEPT !.src = s]

-----------------------------------------------------------------------------
(* What is committed.                                                      *)

\* framegen_bidir_take_front: interpolations that are late or unfinished go
Stale(g) ==
  LET e == Front(g.pending)
  IN  /\ e.target <= now \/ ForcesDrain(g)
      /\ ~e.real /\ (e.target < now \/ ~Ready(e))

Caught(g) ==
  LET f[n \in 0..Cardinality(g.pending)] ==
        IF n = 0 THEN g
        ELSE IF f[n - 1].pending = {} \/ ~Stale(f[n - 1]) THEN f[n - 1]
        ELSE [f[n - 1] EXCEPT !.pending = @ \ {Front(@)}]
  IN  f[Cardinality(g.pending)]

\* content `c' is committed and is the new hold; a delayed real asks for feedback
Commit(g, c, tag) ==
  /\ h' = g
  /\ shown' = c
  /\ host' = IF Made(c) THEN host ELSE host \cup {c \div 2}
  /\ flight' = IF tag = None THEN flight ELSE Append(flight, [id |-> tag, at |-> now])

Shows(g, e) ==
  Commit([g EXCEPT !.pending = @ \ {e}, !.hold = e.content], e.content,
         IF e.real THEN e.id ELSE None)

TakeFront(g0, composite) ==
  LET g == Caught(g0)
  IN  IF g.pending # {} /\ Due(g) THEN Shows(g, Front(g.pending))
      ELSE Commit(g, IF g.hold # None THEN g.hold ELSE composite, None)

\* vulkan_framegen_bidir_flip_texture
Flip(g, composite, queued, same) ==
  IF \/ queued
     \/ same /\ g.pending # {}
     \/ g.hold # None
     \/ g.epoch.valid
  THEN TakeFront(g, composite)
  ELSE Commit([g EXCEPT !.pending = {}, !.hold = composite], composite, None)

\* vulkan_composite: only a new base layer is recorded
Composite(g0, scene, cut, most) ==
  \E a \in {Acquired(g0)} :
    LET g == [a EXCEPT !.failures = 0]
        new == a.base # frame'.id
    IN  IF HasFree(a)
        THEN \E r \in {IF new THEN Recorded(g, scene, cut, most) ELSE g} :
               Flip(r, 2 * frame'.id, new /\ Pairs(g, scene), ~new)
        ELSE h' = a /\ UNCHANGED <<shown, host, flight>>

\* the paint: with the texture recorded last, an entry that is due is consumed
Consumes(g) ==
  /\ g.pending # {} /\ Due(g)
  /\ g.base # None /\ (g.base = frame'.id \/ frame'.again)

Paint(g, scene, cut, most) ==
  LET front == Front(g.pending)
  IN  IF ~Consumes(g) THEN Composite(g, scene, cut, most)
      ELSE IF Ready(front) THEN Shows(g, front)
      ELSE Composite([g EXCEPT !.pending = @ \ {front}], scene, cut, most)

-----------------------------------------------------------------------------
(* A display opportunity.                                                  *)

Passes == now <= Last /\ now' = now + 1

Changes(n) == scenes' = scenes + n /\ scenes' <= Scenes
Misses(n) == slips' = slips + n /\ slips' <= Slips

\* What a paint meets: the scene of the frame it records is new, or the last batch
\* is found to lie across a cut; and how many frames the GPU and the pool have
\* room for.
Painted(g) ==
  \E scene, cut \in BOOLEAN, most \in 0..(Mult - 1) :
    /\ scene \/ cut => g.base # frame'.id /\ ~(Consumes(g) /\ Ready(Front(g.pending)))
    /\ cut => g.unread /\ g.batch <= gpu
    /\ Changes(IF scene \/ cut THEN 1 ELSE 0)
    /\ since' = IF scene THEN frame'.id ELSE IF cut THEN frame'.id - 1 ELSE since
    /\ back' = (back /\ since' = since)
    /\ Paint(g, scene, cut, most)

\* a new frame of the game, at the time its fence signalled: since the last
\* opportunity, or before if the frame was put off (in order, or by the limiter)
NewFrame ==
  /\ Passes /\ frame.id < Frames
  /\ \E s \in (Ticks * (now - 1 - Lag))..(Ticks * now - 1), again \in BOOLEAN :
       /\ s > frame.src
       /\ frame' = [id |-> frame.id + 1, src |-> s, again |-> again]
       /\ overdue' = (overdue \/ (h.epoch.valid /\ Ideal(h, s) <= Ticks * (now - 1)))
  /\ Painted(h)
  /\ UNCHANGED <<gpu, slips>>

\* the pass has no frame, perhaps an overlay, or the loop sleeps through it all
Reals(g) == [g EXCEPT !.pending = Real(@)]

Repaint ==
  LET due == h.pending # {} /\ Due(h)
      ready == due /\ Ready(Front(h.pending))
  IN  /\ Passes /\ frame.id # 0 /\ UNCHANGED <<frame, gpu, overdue, slips>>
      /\ \E overlay, budget \in BOOLEAN :
           LET g == IF due /\ ~(ready /\ (~overlay \/ budget)) THEN Reals(h) ELSE h
           IN  IF overlay \/ ready THEN Painted(g)
               ELSE h' = g /\ UNCHANGED <<shown, host, flight, scenes, since, back>>

Missed ==
  /\ Passes /\ Misses(1)
  /\ UNCHANGED <<frame, h, gpu, shown, host, flight, scenes, since, back, overdue>>

-----------------------------------------------------------------------------
(* Between opportunities.                                                  *)

FocusChange ==
  /\ h.valid \/ h.pending # {} \/ h.src # 0
  /\ h' = Invalidated(h) /\ Changes(1) /\ since' = frame.id
  /\ back' = (back /\ since' = since)
  /\ UNCHANGED <<now, frame, gpu, shown, host, flight, overdue, slips>>

Finish ==
  /\ gpu < h.batch /\ gpu' = h.batch
  /\ UNCHANGED <<now, frame, h, shown, host, flight, scenes, since, back, overdue, slips>>

Release ==
  /\ \/ \E f \in host : f > 0 /\ shown # 2 * f /\ host' = host \ {f}
     \/ \E f \in host : f <= 0 /\ host' = host \cap 1..frame.id
  /\ UNCHANGED <<now, frame, h, gpu, shown, flight, scenes, since, back, overdue, slips>>

\* framegen_apply_bidir_flip_feedback
Corrected(g, f, flip) ==
  LET r == CHOOSE x \in g.recs : x.id = f
      moves == /\ r.n = g.epoch.n /\ g.epoch.valid
               /\ r.src >= g.epoch.src /\ r.src - g.epoch.src <= flip
      later == {x \in g.recs : x.id > f}
  IN  IF \A x \in g.recs : x.id # f THEN g
      ELSE IF moves
      THEN [g EXCEPT !.recs = later, !.epoch.disp = flip - (r.src - g.epoch.src)]
      ELSE [g EXCEPT !.recs = later]

\* the flip was reported, for its own opportunity or the next, or it was discarded
Feedback ==
  /\ flight # <<>> /\ flight' = Tail(flight)
  /\ \E slip \in {0, 1} :
       /\ Head(flight).at + slip < now /\ Misses(slip)
       /\ h' = Corrected(h, Head(flight).id, Ticks * (Head(flight).at + slip))
  /\ back' = (back \/ \E e \in h'.pending : e.id > since /\ e.target > Target(h', h'.src))
  /\ UNCHANGED <<now, frame, gpu, shown, host, scenes, since, overdue>>

Discarded ==
  /\ flight # <<>> /\ flight' = Tail(flight) /\ Misses(1)
  /\ UNCHANGED <<now, frame, h, gpu, shown, host, scenes, since, back, overdue>>

Next == \/ NewFrame \/ Repaint \/ Missed
        \/ FocusChange \/ Finish \/ Release \/ Feedback \/ Discarded

Spec == Init /\ [][Next]_vars

-----------------------------------------------------------------------------
(* Properties.                                                             *)

\* As long as no report has moved the mapping back behind the queue, content never goes
\* back, whatever is missed, shed or late, but for what the scenes before left; and no
\* interpolation lies across a change of scene that was noticed, whatever was
\* reported ("Endpoints remain ordered and may catch up after a hitch",
\* rendervulkan.cpp:8224).
Forward ==
  [][ /\ ~back => shown' >= shown \/ shown' <= 2 * since
      /\ Made(shown') => shown' > 2 * since' ]_shown

\* No real frame is left behind: unless the display misses one, or a frame comes when
\* its opportunity has passed (it was put off, and a report has moved the mapping back),
\* each is shown at its own; and until the scene changes, or a report moves the mapping
\* back behind the queue, the newest one that was recorded is on the display or still to
\* come ("a stall is an honest hold on the newest real frame", rendervulkan.cpp:8143).
RealsArrive ==
  /\ slips = 0 /\ ~overdue => \A e \in Real(h.pending) : e.target >= now
  /\ since = 0 /\ ~back /\ h.epoch.valid /\ h.cur = frame.id =>
       shown = 2 * frame.id \/ \E e \in Real(h.pending) : e.id = frame.id
=============================================================================
