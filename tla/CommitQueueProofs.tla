------------------------- MODULE CommitQueueProofs -------------------------
(***************************************************************************)
(* Proofs about the commit queue, for any windows, frames, times and       *)
(* limiter: the types, that nobody's buffer is given back under a fence,   *)
(* that the compositor never goes back to an older frame, holds the newest *)
(* of the focused window and paces FIFO frames, that an Xwayland server's  *)
(* list loses no frame, that each frame is reported once and FIFO frames   *)
(* in the order in which they became ready, and that all of it implements  *)
(* FrameDelivery.                                                          *)
(***************************************************************************)
EXTENDS CommitQueue, TLAPS

-----------------------------------------------------------------------------
(* The inductive invariant.                                                *)

\* What has passed through update_wayland_res into a queue.
Imported == Queued \cup done \cup fenced

\* The queues are first in, first out.
Numbered ==
  /\ \A c \in Imported, b \in batch \cup incoming : c < b
  /\ \A b \in batch, i \in incoming : b < i

\* A window's queue holds its own frames, and a window that has gone has none.
Owned ==
  /\ \A w \in Wins : \A c \in queue[w] : Win(c) = w
  /\ \A w \in Wins \ wins : queue[w] = {}

\* A latched frame is the first of its queue.
DoneFirst == \A w \in Wins : \A c \in queue[w] \cap done, d \in queue[w] : c <= d

\* Nothing in a queue is older than what is held of its window.
HeldFirst == held \in done => \A d \in queue[Win(held)] : held <= d

\* A latched frame of the focused window is what is held.
HeldLatched ==
  focus # NoWin => \A c \in queue[focus] \cap done : held = c

\* The windows that had a FIFO frame in this pass are those that had one since
\* the limiter opened.
Paced == loop.open => loop.pc = "done" /\ paced = loop.seen

Queues == Numbered /\ Owned /\ DoneFirst
Holds == BufferHeldForFence /\ HeldFirst /\ HeldLatched
IInv == TypeOK /\ Queues /\ Holds /\ Paced

\* The disjuncts of Next, flattened.
LEMMA Steps ==
  ASSUME Next
  PROVE  \/ \E w \in Wins : Commit(w) \/ DestroyWin(w)
         \/ \E c \in DOMAIN frames : OnPollIn(c)
         \/ \E vblank \in BOOLEAN : PassBegin(vblank)
         \/ loop.pc = "done" /\ list # <<>>
              /\ (Postpone(Head(list)) \/ Latch(Head(list)) \/ Forget(Head(list)))
         \/ FlushFrameDone \/ Retrieve \/ PassEnd
         \/ \E c \in DOMAIN frames :
              \/ NoWindow(c) \/ Discard(c) \/ ImportFails(c)
              \/ ImportSignalled(c) \/ ImportFenced(c)
BY DEF Next, Compositor, HandleEntry, Import

-----------------------------------------------------------------------------
(* Types.                                                                  *)

LEMMA FrameNumbers ==
  ASSUME TypeOK
  PROVE  /\ Len(frames) \in Nat /\ DOMAIN frames = 1..Len(frames)
         /\ \A c \in DOMAIN frames :
              Win(c) \in Wins /\ frames[c] \in Frames /\ frames[c].buf \in Ids
<1>1. frames \in Seq(Frames)
  BY DEF TypeOK
<1>2. \A c \in DOMAIN frames : frames[c] \in Frames
  BY <1>1
<1> QED
  BY <1>1, <1>2 DEF Frames, Win

LEMMA HeadTail ==
  ASSUME NEW S, NEW s \in Seq(S), s # <<>>
  PROVE  Head(s) \in S /\ Tail(s) \in Seq(S)
OBVIOUS

LEMMA SeqGrows ==
  ASSUME NEW S, NEW T, S \subseteq T, NEW s \in Seq(S)
  PROVE  s \in Seq(T)
OBVIOUS

LEMMA Buffers ==
  ASSUME TypeOK, Len(frames) < MaxCommits, NEW w, NEW kind
  PROVE  BufferOf(w, kind) \subseteq Ids
<1>1. Len(frames) + 1 \in Ids
  BY FrameNumbers, QueueAssumption DEF Ids
<1> QED
  BY <1>1, FrameNumbers DEF BufferOf

\* A commit appends one frame of the window.
LEMMA CommitAppends ==
  ASSUME TypeOK, NEW w \in Wins, Commit(w)
  PROVE  /\ frames' \in Seq(Frames) /\ Len(frames') <= MaxCommits
         /\ Len(frames) + 1 \notin DOMAIN frames
         /\ DOMAIN frames' = DOMAIN frames \cup {Len(frames) + 1}
         /\ frames'[Len(frames) + 1].win = w
         /\ \A c \in DOMAIN frames : frames'[c] = frames[c]
<1>1. PICK kind \in Kinds, at \in 0..MaxTime, b \in Ids :
        frames' = Append(frames, [win |-> w, kind |-> kind, at |-> at, buf |-> b])
  <2>1. PICK kind \in Kinds : \E at \in IF kind \in Timed THEN 0..MaxTime ELSE {0},
                                   b \in BufferOf(w, kind) :
          frames' = Append(frames, [win |-> w, kind |-> kind, at |-> at, buf |-> b])
    BY DEF Commit
  <2>2. (IF kind \in Timed THEN 0..MaxTime ELSE {0}) \subseteq 0..MaxTime
    BY QueueAssumption
  <2> QED
    BY <2>1, <2>2, Buffers DEF Commit
<1> DEFINE r == [win |-> w, kind |-> kind, at |-> at, buf |-> b]
<1>2. r \in Frames
  BY DEF Frames
<1>3. frames \in Seq(Frames) /\ Len(frames) < MaxCommits /\ frames' = Append(frames, r)
  BY <1>1 DEF TypeOK, Commit
<1>4. r.win = w
  OBVIOUS
<1> HIDE DEF r
<1>5. frames'[Len(frames) + 1] = r
  BY <1>2, <1>3
<1> QED
  BY <1>2, <1>3, <1>4, <1>5, QueueAssumption

LEMMA CommitTypes ==
  ASSUME TypeOK, NEW w \in Wins, Commit(w)
  PROVE  TypeOK'
<1>1. DOMAIN frames \subseteq DOMAIN frames' /\ Len(frames) + 1 \in DOMAIN frames'
  BY CommitAppends
<1>2. list \in Seq(DOMAIN frames') /\ loop.keep \in Seq(DOMAIN frames')
  <2>1. list \in Seq(DOMAIN frames) /\ loop.keep \in Seq(DOMAIN frames)
    BY DEF TypeOK
  <2> QED
    BY <1>1, <2>1, SeqGrows
<1>3. loop \in [pc : {"idle", "done", "retrieve", "import"}, vblank : BOOLEAN,
                open : BOOLEAN, keep : Seq(DOMAIN frames'), seen : SUBSET Wins]
  BY <1>2 DEF TypeOK
<1>4. queue \in [Wins -> SUBSET DOMAIN frames']
  BY <1>1 DEF TypeOK
<1> QED
  BY <1>1, <1>2, <1>3, <1>4, CommitAppends
  DEF TypeOK, Commit, windows, pass, shown, history

LEMMA UnlockedLess == ASSUME Unlocked PROVE locked' \subseteq locked
BY DEF Unlocked

LEMMA OnPollInTypes ==
  ASSUME TypeOK, NEW c \in DOMAIN frames, OnPollIn(c)
  PROVE  incoming \subseteq locked' /\ batch \subseteq locked' => TypeOK'
BY UnlockedLess DEF TypeOK, OnPollIn, Signal, windows, pass, shown, history

LEMMA PassBeginTypes ==
  ASSUME TypeOK, NEW vblank \in BOOLEAN, PassBegin(vblank)
  PROVE  TypeOK'
<1>1. clock' \in [idx : 0..(Divisor - 1), target : 0..MaxTime]
  BY QueueAssumption DEF TypeOK, PassBegin
<1> QED
  BY <1>1 DEF TypeOK, PassBegin, shown

\* The record of the pass, for a step that changes what it has put off or seen.
Loops == [pc : {"idle", "done", "retrieve", "import"}, vblank : BOOLEAN,
          open : BOOLEAN, keep : Seq(DOMAIN frames), seen : SUBSET Wins]

LEMMA PostponeTypes ==
  ASSUME TypeOK, loop.pc = "done", list # <<>>, Postpone(Head(list))
  PROVE  TypeOK'
<1>1. Head(list) \in DOMAIN frames /\ Tail(list) \in Seq(DOMAIN frames)
  BY HeadTail DEF TypeOK
<1>2. loop \in Loops
  BY DEF TypeOK, Loops
<1>3. Keep(Head(list)) \in Seq(DOMAIN frames)
  BY <1>1, <1>2 DEF Keep, Loops
<1>4. loop' \in Loops /\ loop'.pc = "done"
  BY <1>2, <1>3 DEF Postpone, Loops
<1>5. list' \in Seq(DOMAIN frames)
  <2>1. <<>> \in Seq(DOMAIN frames) /\ list' \in {<<>>, Tail(list)}
    BY DEF Postpone
  <2> QED
    BY <1>1, <2>1
<1> QED
  BY <1>4, <1>5 DEF TypeOK, Loops, Postpone, windows, shown, history

LEMMA LatchTypes ==
  ASSUME TypeOK, Owned, loop.pc = "done", list # <<>>, Latch(Head(list)),
         incoming \subseteq locked' /\ batch \subseteq locked'
  PROVE  TypeOK'
<1> DEFINE c == Head(list)
           w == Win(c)
<1>1. c \in DOMAIN frames /\ Tail(list) \in Seq(DOMAIN frames)
  BY HeadTail DEF TypeOK
<1>2. w \in Wins
  BY <1>1, FrameNumbers
<1>3. w \in wins
  BY <1>2 DEF Owned, Latch
<1>4. loop' \in Loops /\ loop'.pc = "done"
  <2>1. loop \in Loops
    BY DEF TypeOK, Loops
  <2> QED
    BY <1>2, <2>1 DEF Latch, Loops
<1>5. list' \in Seq(DOMAIN frames) /\ done' \subseteq DOMAIN frames /\ held' \in {0} \cup done'
  BY <1>1 DEF Latch, TypeOK
<1>6. queue' \in [Wins -> SUBSET DOMAIN frames]
  BY <1>1, <1>2 DEF Latch, QueueFrom, TypeOK
<1>7. received' \subseteq wins /\ paced' \subseteq Wins
  BY <1>2, <1>3 DEF Latch, TypeOK
<1> QED
  BY <1>4, <1>5, <1>6, <1>7, UnlockedLess DEF TypeOK, Loops, Latch

LEMMA ForgetTypes ==
  ASSUME TypeOK, list # <<>>, Forget(Head(list))
  PROVE  TypeOK'
<1>1. Tail(list) \in Seq(DOMAIN frames)
  BY HeadTail DEF TypeOK
<1> QED
  BY <1>1 DEF TypeOK, Forget, windows, pass, shown

LEMMA FlushTypes ==
  ASSUME TypeOK, FlushFrameDone
  PROVE  TypeOK'
<1>1. loop.keep \in Seq(DOMAIN frames)
  BY DEF TypeOK
<1>2. loop' \in Loops /\ loop'.keep = <<>> /\ loop'.seen = {}
  BY DEF FlushFrameDone, ListHandled, Loops
<1> QED
  BY <1>1, <1>2 DEF TypeOK, Loops, FlushFrameDone, StillReceived, shown, history

LEMMA RetrieveTypes ==
  ASSUME TypeOK, Retrieve
  PROVE  TypeOK'
<1>1. loop' \in Loops /\ loop'.keep = <<>> /\ loop'.seen = {}
  BY DEF TypeOK, Retrieve, Loops
<1> QED
  BY <1>1 DEF TypeOK, Loops, Retrieve, windows, shown, history

LEMMA PassEndTypes ==
  ASSUME TypeOK, PassEnd, incoming \subseteq locked' /\ batch \subseteq locked', DoneFirst
  PROVE  TypeOK'
<1>1. loop' \in Loops /\ loop'.keep = <<>> /\ loop'.seen = {}
  BY DEF TypeOK, PassEnd, Loops
<1>2. \A w \in wins : HeldFor(w) \in {0} \cup done
  BY DEF TypeOK, HeldFor, DoneFirst
<1>3. focus' \in wins \cup {NoWin} /\ held' \in {0} \cup done
  BY <1>2 DEF PassEnd, TypeOK
<1> QED
  BY <1>1, <1>3, UnlockedLess DEF TypeOK, Loops, PassEnd, windows, history

LEMMA DestroyWinTypes ==
  ASSUME TypeOK, NEW w \in Wins, DestroyWin(w),
         incoming \subseteq locked' /\ batch \subseteq locked'
  PROVE  TypeOK'
BY UnlockedLess, QueueAssumption DEF TypeOK, DestroyWin, pass, history

LEMMA RefusalTypes ==
  ASSUME TypeOK, NEW c \in DOMAIN frames, NoWindow(c) \/ Discard(c) \/ ImportFails(c),
         Numbered
  PROVE  TypeOK'
<1>1. locked' \subseteq locked /\ locked \ {c} \subseteq locked'
  BY DEF NoWindow, Discard, ImportFails
<1>2. c \in batch /\ batch' = batch \ {c} /\ c \notin incoming
  BY FrameNumbers DEF NoWindow, Discard, ImportFails, InTurn, Took, Numbered, TypeOK
<1>3. incoming \subseteq locked' /\ batch' \subseteq locked'
  BY <1>1, <1>2 DEF TypeOK
<1>4. received' \subseteq wins
  BY DEF TypeOK, NoWindow, Discard, ImportFails, windows
<1> QED
  BY <1>1, <1>3, <1>4
  DEF TypeOK, NoWindow, Discard, ImportFails, windows, shown, history

LEMMA ImportTypes ==
  ASSUME TypeOK, NEW c \in DOMAIN frames, ImportSignalled(c) \/ ImportFenced(c)
  PROVE  TypeOK'
<1>1. Imports(c)
  BY DEF ImportSignalled, ImportFenced
<1>2. batch' \subseteq batch
  BY <1>1 DEF Imports, Took
<1>3. queue' \in [Wins -> SUBSET DOMAIN frames]
  <2>1. Win(c) \in Wins /\ queue' = [queue EXCEPT ![Win(c)] = @ \cup {c}]
    BY <1>1, FrameNumbers DEF Imports
  <2>2. queue \in [Wins -> SUBSET DOMAIN frames]
    BY DEF TypeOK
  <2> QED
    BY <2>1, <2>2
<1>4. list \in Seq(DOMAIN frames) /\ fenced \subseteq DOMAIN frames
  BY DEF TypeOK
<1>5. list' \in Seq(DOMAIN frames) /\ fenced' \subseteq DOMAIN frames
  <2>1. CASE ImportSignalled(c)
    <3>1. list' = Append(list, c) /\ fenced' = fenced
      BY <2>1 DEF ImportSignalled, Signal
    <3> QED
      BY <1>4, <3>1
  <2>2. CASE ImportFenced(c)
    BY <2>2, <1>4 DEF ImportFenced, WaitFor
  <2> QED
    BY <2>1, <2>2
<1> QED
  BY <1>1, <1>2, <1>3, <1>5 DEF TypeOK, Imports, windows

-----------------------------------------------------------------------------
(* References.                                                             *)

\* What the compositor has not looked at yet is referenced by nothing, so no
\* destructor of a commit_t unlocks its buffer.
LEMMA WaitingKept ==
  ASSUME TypeOK, Numbered, Unlocked
  PROVE  incoming \subseteq locked' /\ batch \subseteq locked'
<1> SUFFICES ASSUME NEW c \in incoming \cup batch
             PROVE  c \in locked'
  OBVIOUS
<1>1. c \in locked /\ c \in DOMAIN frames
  BY DEF TypeOK
<1>2. c \notin Imported
  BY <1>1, FrameNumbers DEF Numbered
<1>3. ~Referenced(c)
  BY <1>1, <1>2, FrameNumbers DEF Referenced, Imported, Queued, TypeOK
<1> QED
  BY <1>1, <1>3 DEF Unlocked

\* A step on the same frames that adds no fence keeps the fenced buffers.
LEMMA FencedKept ==
  ASSUME BufferHeldForFence, Unlocked, fenced' \subseteq fenced
  PROVE  BufferHeldForFence'
BY DEF BufferHeldForFence, Unlocked, Referenced

LEMMA TypeStep ==
  ASSUME IInv, [Next]_vars
  PROVE  TypeOK'
<1> USE DEF IInv, Queues, Holds
<1>1. CASE UNCHANGED vars
  BY <1>1 DEF TypeOK, vars, windows, pass, shown, history
<1>2. CASE Next
  <2>1. ASSUME NEW w \in Wins, Commit(w) PROVE TypeOK'
    BY <2>1, CommitTypes
  <2>2. ASSUME NEW w \in Wins, DestroyWin(w) PROVE TypeOK'
    BY <2>2, DestroyWinTypes, WaitingKept DEF DestroyWin
  <2>3. ASSUME NEW c \in DOMAIN frames, OnPollIn(c) PROVE TypeOK'
    BY <2>3, OnPollInTypes, WaitingKept DEF OnPollIn
  <2>4. ASSUME NEW vblank \in BOOLEAN, PassBegin(vblank) PROVE TypeOK'
    BY <2>4, PassBeginTypes
  <2>5. ASSUME loop.pc = "done", list # <<>>,
               Postpone(Head(list)) \/ Latch(Head(list)) \/ Forget(Head(list))
        PROVE  TypeOK'
    BY <2>5, PostponeTypes, LatchTypes, ForgetTypes, WaitingKept DEF Latch
  <2>6. CASE FlushFrameDone \/ Retrieve \/ PassEnd
    BY <2>6, FlushTypes, RetrieveTypes, PassEndTypes, WaitingKept DEF PassEnd
  <2>7. ASSUME NEW c \in DOMAIN frames,
               \/ NoWindow(c) \/ Discard(c) \/ ImportFails(c)
               \/ ImportSignalled(c) \/ ImportFenced(c)
        PROVE  TypeOK'
    BY <2>7, RefusalTypes, ImportTypes
  <2> QED
    BY <1>2, <2>1, <2>2, <2>3, <2>4, <2>5, <2>6, <2>7, Steps
<1> QED
  BY <1>1, <1>2

-----------------------------------------------------------------------------
(* The queues and what is held, one lemma for each kind of step.           *)

\* Steps that move no frame.
LEMMA QuietStep ==
  ASSUME IInv, UNCHANGED <<frames, incoming, wins, queue, done, fenced, batch, focus, held>>,
         locked' = locked
  PROVE  Queues' /\ Holds'
BY DEF IInv, Queues, Holds, Numbered, Imported, Queued, Owned, DoneFirst, HeldFirst,
       HeldLatched, BufferHeldForFence, Win

\* The frames that are numbered already keep their window.
LEMMA CommitStep ==
  ASSUME IInv, NEW w \in Wins, Commit(w)
  PROVE  Queues' /\ Holds'
<1> DEFINE n == Len(frames) + 1
<1>1. \A c \in DOMAIN frames : c < n /\ Win(c)' = Win(c)
  BY CommitAppends, FrameNumbers DEF IInv, Win
<1>2. /\ UNCHANGED <<batch, queue, done, fenced, wins, focus, held>>
      /\ incoming' = incoming \cup {n} /\ locked \subseteq locked'
  BY DEF Commit, pass, shown
<1>3. Imported \cup batch \subseteq DOMAIN frames
  BY DEF IInv, TypeOK, Imported, Queued
<1>4. Numbered'
  BY <1>1, <1>2, <1>3 DEF IInv, Queues, Numbered, Imported, Queued
<1>5. Owned'
  BY <1>1, <1>2 DEF IInv, Queues, Owned, TypeOK
<1>6. DoneFirst'
  BY <1>2 DEF IInv, Queues, DoneFirst
<1>7. HeldFirst' /\ HeldLatched'
  BY <1>1, <1>2 DEF IInv, Holds, HeldFirst, HeldLatched, TypeOK
<1>8. BufferHeldForFence'
  BY <1>2 DEF IInv, Holds, BufferHeldForFence
<1> QED
  BY <1>4, <1>5, <1>6, <1>7, <1>8 DEF Queues, Holds

LEMMA DestroyWinStep ==
  ASSUME IInv, NEW w \in Wins, DestroyWin(w)
  PROVE  Queues' /\ Holds'
<1>1. /\ UNCHANGED <<frames, incoming, batch, done, fenced, held>>
      /\ queue' = [queue EXCEPT ![w] = {}] /\ wins' = wins \ {w}
      /\ focus' \in {focus, NoWin} /\ focus' # w /\ Unlocked
  BY QueueAssumption DEF DestroyWin, pass
<1>2. queue \in [Wins -> SUBSET DOMAIN frames] /\ wins \subseteq Wins
      /\ focus \in wins \cup {NoWin}
  BY DEF IInv, TypeOK
<1>3. \A v \in Wins : queue'[v] = IF v = w THEN {} ELSE queue[v]
  BY <1>1, <1>2
<1>4. Numbered'
  BY <1>1, <1>3 DEF IInv, Queues, Numbered, Imported, Queued
<1>5. Owned' /\ DoneFirst'
  BY <1>1, <1>3 DEF IInv, Queues, Owned, DoneFirst, Win
<1>6. HeldFirst'
  BY <1>1, <1>3, FrameNumbers DEF IInv, Holds, HeldFirst, Win, TypeOK
<1>7. HeldLatched'
  BY <1>1, <1>2, <1>3 DEF IInv, Holds, HeldLatched
<1>8. BufferHeldForFence'
  BY <1>1, FencedKept DEF IInv, Holds
<1> QED
  BY <1>4, <1>5, <1>6, <1>7, <1>8 DEF Queues, Holds

LEMMA OnPollInStep ==
  ASSUME IInv, NEW c \in DOMAIN frames, OnPollIn(c)
  PROVE  Queues' /\ Holds'
<1>1. /\ UNCHANGED <<frames, incoming, batch, wins, queue, done, focus, held>>
      /\ fenced' \subseteq fenced /\ Unlocked
  BY DEF OnPollIn, windows, pass, shown
<1>2. Queues'
  BY <1>1 DEF IInv, Queues, Numbered, Imported, Queued, Owned, DoneFirst, Win
<1>3. HeldFirst' /\ HeldLatched'
  BY <1>1 DEF IInv, Holds, HeldFirst, HeldLatched, Win
<1>4. BufferHeldForFence'
  BY <1>1, FencedKept DEF IInv, Holds
<1> QED
  BY <1>2, <1>3, <1>4 DEF Holds

\* What Latch does to the queues, in every window.
LEMMA LatchQueues ==
  ASSUME IInv, loop.pc = "done", list # <<>>, Latch(Head(list))
  PROVE  LET c == Head(list)
             w == Win(c)
         IN  /\ c \in DOMAIN frames /\ w \in Wins /\ c \in queue[w]
             /\ \A v \in Wins : queue'[v] = IF v = w THEN {d \in queue[w] : d >= c}
                                                    ELSE queue[v]
             /\ done' = done \cup {c}
<1>1. Head(list) \in DOMAIN frames
  BY HeadTail DEF IInv, TypeOK
<1>2. Win(Head(list)) \in Wins
  BY <1>1, FrameNumbers DEF IInv
<1>3. queue \in [Wins -> SUBSET DOMAIN frames]
  BY DEF IInv, TypeOK
<1> QED
  BY <1>1, <1>2, <1>3 DEF Latch, QueueFrom

LEMMA LatchStep ==
  ASSUME IInv, loop.pc = "done", list # <<>>, Latch(Head(list))
  PROVE  Queues' /\ Holds'
<1> DEFINE c == Head(list)
           w == Win(c)
<1>1. /\ c \in DOMAIN frames /\ w \in Wins /\ c \in queue[w]
      /\ \A v \in Wins : queue'[v] = IF v = w THEN {d \in queue[w] : d >= c} ELSE queue[v]
      /\ done' = done \cup {c}
  BY LatchQueues
<1>2. /\ UNCHANGED <<frames, incoming, batch, wins, fenced, focus>> /\ Unlocked
      /\ held' = IF focus = w THEN c ELSE held
  BY DEF Latch
<1>3. /\ \A v \in Wins : queue[v] \subseteq DOMAIN frames /\ \A d \in queue[v] : Win(d) = v
      /\ \A d \in DOMAIN frames : d \in Nat /\ d # 0 /\ Win(d) \in Wins /\ Win(d)' = Win(d)
      /\ done \subseteq DOMAIN frames /\ held \in {0} \cup done
      /\ focus \in wins \cup {NoWin} /\ wins \subseteq Wins /\ Len(frames) \in Nat
  BY <1>2, FrameNumbers DEF IInv, TypeOK, Queues, Owned, Win
<1> HIDE DEF c, w
<1>4. Numbered'
  <2>1. Imported' \subseteq Imported
    BY <1>1, <1>2, ZenonT(60) DEF Imported, Queued
  <2> QED
    BY <1>2, <2>1 DEF IInv, Queues, Numbered
<1>5. Owned'
  BY <1>1, <1>2, <1>3 DEF IInv, Queues, Owned
<1>6. DoneFirst'
  <2> SUFFICES ASSUME NEW v \in Wins, NEW d \in queue'[v], d \in done', NEW e \in queue'[v]
               PROVE  d <= e
    BY DEF DoneFirst
  <2>1. CASE v = w
    <3>1. d \in queue[w] /\ e \in queue[w] /\ e >= c /\ d >= c
      BY <2>1, <1>1
    <3>2. CASE d = c
      BY <3>1, <3>2, <1>3
    <3>3. CASE d \in done
      BY <3>1, <3>3, <1>1 DEF IInv, Queues, DoneFirst
    <3> QED
      BY <3>2, <3>3, <1>1
  <2>2. CASE v # w
    <3>1. d \in queue[v] /\ e \in queue[v] /\ d # c
      BY <2>2, <1>1, <1>3
    <3> QED
      BY <3>1, <1>1 DEF IInv, Queues, DoneFirst
  <2> QED
    BY <2>1, <2>2
<1>7. HeldFirst'
  <2>1. CASE focus = w
    BY <2>1, <1>1, <1>2, <1>3 DEF HeldFirst
  <2>2. CASE focus # w
    <3>1. held' = held /\ (held = c => c \in queue[w])
      BY <2>2, <1>1, <1>2
    <3>2. CASE held \in done
      BY <3>1, <3>2, <1>1, <1>3 DEF IInv, Holds, HeldFirst
    <3>3. CASE held = 0
      BY <3>1, <3>3, <1>1, <1>3 DEF HeldFirst
    <3> QED
      BY <3>2, <3>3, <1>3
  <2> QED
    BY <2>1, <2>2
<1>8. HeldLatched'
  <2> SUFFICES ASSUME focus # NoWin, NEW d \in queue'[focus], d \in done'
               PROVE  held' = d
    BY <1>2 DEF HeldLatched
  <2>1. CASE focus = w
    <3>1. d \in queue[w] /\ d >= c /\ c \in queue[w]
      BY <2>1, <1>1
    <3>2. d = c \/ d <= c
      BY <3>1, <1>1 DEF IInv, Queues, DoneFirst
    <3> QED
      BY <2>1, <3>1, <3>2, <1>2, <1>3, <1>1
  <2>2. CASE focus # w
    <3>1. focus \in Wins /\ d \in queue[focus]
      BY <2>2, <1>1, <1>3
    <3>2. d # c
      BY <2>2, <3>1, <1>3 DEF w
    <3> QED
      BY <2>2, <3>1, <3>2, <1>1, <1>2 DEF IInv, Holds, HeldLatched
  <2> QED
    BY <2>1, <2>2
<1>9. BufferHeldForFence'
  BY <1>2, FencedKept DEF IInv, Holds
<1> QED
  BY <1>4, <1>5, <1>6, <1>7, <1>8, <1>9 DEF Queues, Holds

LEMMA RetrieveStep ==
  ASSUME IInv, Retrieve
  PROVE  Queues' /\ Holds'
<1>1. /\ UNCHANGED <<frames, wins, queue, done, fenced, focus, held, locked>>
      /\ batch' = incoming /\ incoming' = {}
  BY DEF Retrieve, windows, shown
<1>2. Queues'
  BY <1>1 DEF IInv, Queues, Numbered, Imported, Queued, Owned, DoneFirst, Win
<1>3. Holds'
  BY <1>1 DEF IInv, Holds, BufferHeldForFence, HeldFirst, HeldLatched, Win
<1> QED
  BY <1>2, <1>3

LEMMA PassEndStep ==
  ASSUME IInv, PassEnd
  PROVE  Queues' /\ Holds'
<1>1. /\ UNCHANGED <<frames, incoming, batch, wins, queue, done, fenced>> /\ Unlocked
  BY DEF PassEnd, windows
<1>2. Queues'
  BY <1>1 DEF IInv, Queues, Numbered, Imported, Queued, Owned, DoneFirst, Win
<1>3. BufferHeldForFence'
  BY <1>1, FencedKept DEF IInv, Holds
<1>4. PICK w \in wins \cup {NoWin} :
        focus' = w /\ held' = IF w \in {focus, NoWin} THEN held ELSE HeldFor(w)
  BY DEF PassEnd
<1>5. CASE held' = held /\ (focus' = focus \/ focus' = NoWin)
  BY <1>1, <1>2, <1>3, <1>5 DEF IInv, Holds, HeldFirst, HeldLatched, Win
<1>6. CASE held' = held /\ focus' = w /\ w \in wins /\ queue[w] \cap done = {}
  BY <1>1, <1>2, <1>3, <1>6 DEF IInv, Holds, HeldFirst, HeldLatched, Win
<1>7. CASE w \in wins /\ focus' = w /\ held' = HeldFor(w) /\ queue[w] \cap done # {}
  <2>1. w \in Wins
    BY <1>7 DEF IInv, TypeOK
  <2>2. queue[w] \subseteq DOMAIN frames /\ \A d \in DOMAIN frames : d \in Nat
    BY <2>1, FrameNumbers DEF IInv, TypeOK
  <2>3. PICK c \in queue[w] \cap done : TRUE
    BY <1>7
  <2>4. \A d \in queue[w] \cap done : d = c
    BY <2>1, <2>2, <2>3 DEF IInv, Queues, DoneFirst
  <2>5. held' = c
    BY <1>7, <2>2, <2>3, <2>4 DEF HeldFor
  <2>6. HeldFirst'
    <3>1. Win(c)' = w
      BY <1>1, <2>1, <2>3 DEF IInv, Queues, Owned, Win
    <3>2. \A d \in queue[w] : c <= d
      BY <2>1, <2>3 DEF IInv, Queues, DoneFirst
    <3> QED
      BY <1>1, <2>5, <3>1, <3>2 DEF HeldFirst, Win
  <2>7. HeldLatched'
    BY <1>1, <1>7, <2>4, <2>5 DEF HeldLatched
  <2> QED
    BY <1>2, <1>3, <2>6, <2>7 DEF Holds
<1> QED
  BY <1>2, <1>3, <1>4, <1>5, <1>6, <1>7 DEF Holds, HeldFor

LEMMA RefusalStep ==
  ASSUME IInv, NEW c \in DOMAIN frames, NoWindow(c) \/ Discard(c) \/ ImportFails(c)
  PROVE  Queues' /\ Holds'
<1>1. /\ UNCHANGED <<frames, incoming, wins, queue, done, fenced, focus, held>>
      /\ c \in batch /\ batch' \subseteq batch
  BY DEF NoWindow, Discard, ImportFails, InTurn, Took, windows, shown
<1>2. Queues'
  BY <1>1 DEF IInv, Queues, Numbered, Imported, Queued, Owned, DoneFirst, Win
<1>3. HeldFirst' /\ HeldLatched'
  BY <1>1 DEF IInv, Holds, HeldFirst, HeldLatched, Win
<1>4. BufferHeldForFence'
  <2>1. c \notin fenced
    BY <1>1, FrameNumbers DEF IInv, Queues, Numbered, Imported
  <2>2. locked \ {c} \subseteq locked'
    BY DEF NoWindow, Discard, ImportFails
  <2> QED
    BY <1>1, <2>1, <2>2 DEF IInv, Holds, BufferHeldForFence
<1> QED
  BY <1>2, <1>3, <1>4 DEF Holds

LEMMA ImportStep ==
  ASSUME IInv, NEW c \in DOMAIN frames, ImportSignalled(c) \/ ImportFenced(c)
  PROVE  Queues' /\ Holds'
<1> DEFINE w == Win(c)
<1>1. /\ UNCHANGED <<frames, incoming, locked, wins, done, focus, held>>
      /\ c \in batch /\ \A b \in batch : c <= b
      /\ batch' = batch \ {c} /\ w \in wins /\ fenced' \in {fenced, fenced \cup {c}}
      /\ queue' = [queue EXCEPT ![w] = @ \cup {c}]
  BY DEF ImportSignalled, ImportFenced, Imports, InTurn, Took, WaitFor, windows
<1>2. /\ queue \in [Wins -> SUBSET DOMAIN frames] /\ w \in Wins
      /\ done \subseteq DOMAIN frames /\ batch \subseteq DOMAIN frames
      /\ focus \in wins \cup {NoWin} /\ wins \subseteq Wins
      /\ \A d \in DOMAIN frames : d \in Nat
  BY FrameNumbers DEF IInv, TypeOK
<1>3. \A v \in Wins : queue'[v] = IF v = w THEN queue[w] \cup {c} ELSE queue[v]
  BY <1>1, <1>2
<1>4. \A d \in Imported : d < c /\ d # c
  <2>1. Imported \subseteq DOMAIN frames
    BY DEF IInv, TypeOK, Imported, Queued
  <2> QED
    BY <1>1, <1>2, <2>1 DEF IInv, Queues, Numbered
<1>5. \A v \in Wins : queue[v] \subseteq Imported /\ done \subseteq Imported
  BY DEF Imported, Queued
<1> HIDE DEF w
<1>6. Numbered'
  <2>1. Imported' \subseteq Imported \cup {c}
    BY <1>1, <1>3 DEF Imported, Queued
  <2>2. \A b \in batch' \cup incoming' : c < b
    BY <1>1, <1>2 DEF IInv, Queues, Numbered
  <2> QED
    BY <1>1, <2>1, <2>2 DEF IInv, Queues, Numbered
<1>7. Owned'
  BY <1>1, <1>3 DEF IInv, Queues, Owned, Win, w
<1>8. DoneFirst'
  BY <1>1, <1>2, <1>3, <1>4, <1>5 DEF IInv, Queues, DoneFirst
<1>9. HeldFirst'
  <2>1. CASE held \in done
    <3>1. held < c /\ Win(held)' = Win(held) /\ Win(held) \in Wins
      BY <2>1, <1>1, <1>2, <1>4, <1>5, FrameNumbers DEF IInv, Win
    <3> QED
      BY <2>1, <3>1, <1>1, <1>2, <1>3 DEF IInv, Holds, HeldFirst
  <2>2. CASE held \notin done
    BY <2>2, <1>1 DEF HeldFirst
  <2> QED
    BY <2>1, <2>2
<1>10. HeldLatched'
  BY <1>1, <1>2, <1>3, <1>4, <1>5 DEF IInv, Holds, HeldLatched
<1>11. BufferHeldForFence'
  BY <1>1 DEF IInv, TypeOK, Holds, BufferHeldForFence
<1> QED
  BY <1>6, <1>7, <1>8, <1>9, <1>10, <1>11 DEF Queues, Holds

LEMMA FrameStep ==
  ASSUME IInv, [Next]_vars
  PROVE  Queues' /\ Holds'
<1>1. CASE UNCHANGED vars
  BY <1>1, QuietStep DEF vars, windows, pass, shown
<1>2. CASE Next
  <2>1. ASSUME NEW w \in Wins, Commit(w) \/ DestroyWin(w) PROVE Queues' /\ Holds'
    BY <2>1, CommitStep, DestroyWinStep
  <2>2. ASSUME NEW c \in DOMAIN frames, OnPollIn(c) PROVE Queues' /\ Holds'
    BY <2>2, OnPollInStep
  <2>3. ASSUME NEW vblank \in BOOLEAN, PassBegin(vblank) PROVE Queues' /\ Holds'
    BY <2>3, QuietStep DEF PassBegin, shown
  <2>4. ASSUME loop.pc = "done", list # <<>>,
               Postpone(Head(list)) \/ Latch(Head(list)) \/ Forget(Head(list))
        PROVE  Queues' /\ Holds'
    <3>1. CASE Postpone(Head(list)) \/ Forget(Head(list))
      BY <3>1, QuietStep DEF Postpone, Forget, windows, pass, shown
    <3> QED
      BY <2>4, <3>1, LatchStep
  <2>5. CASE FlushFrameDone
    BY <2>5, QuietStep DEF FlushFrameDone, shown
  <2>6. CASE Retrieve \/ PassEnd
    BY <2>6, RetrieveStep, PassEndStep
  <2>7. ASSUME NEW c \in DOMAIN frames,
               \/ NoWindow(c) \/ Discard(c) \/ ImportFails(c)
               \/ ImportSignalled(c) \/ ImportFenced(c)
        PROVE  Queues' /\ Holds'
    BY <2>7, RefusalStep, ImportStep
  <2> QED
    BY <1>2, <2>1, <2>2, <2>3, <2>4, <2>5, <2>6, <2>7, Steps
<1> QED
  BY <1>1, <1>2

LEMMA PacedStep ==
  ASSUME IInv, [Next]_vars
  PROVE  Paced'
<1>1. CASE UNCHANGED <<loop, paced>>
  BY <1>1 DEF IInv, Paced
<1>2. CASE Next
  <2>1. ASSUME NEW w \in Wins, Commit(w) \/ DestroyWin(w) PROVE Paced'
    BY <2>1, <1>1 DEF Commit, DestroyWin, pass, history
  <2>2. ASSUME NEW c \in DOMAIN frames, OnPollIn(c) PROVE Paced'
    BY <2>2, <1>1 DEF OnPollIn, pass
  <2>3. ASSUME NEW vblank \in BOOLEAN, PassBegin(vblank) PROVE Paced'
    BY <2>3 DEF PassBegin, Paced
  <2>4. ASSUME loop.pc = "done",
               Postpone(Head(list)) \/ Latch(Head(list)) \/ Forget(Head(list))
        PROVE  Paced'
    BY <2>4 DEF Postpone, Latch, Forget, IInv, TypeOK, Paced, pass, history
  <2>5. CASE FlushFrameDone
    BY <2>5 DEF FlushFrameDone, ListHandled, Paced
  <2>6. CASE Retrieve \/ PassEnd
    BY <2>6 DEF Retrieve, PassEnd, IInv, TypeOK, Paced, history
  <2>7. ASSUME NEW c \in DOMAIN frames,
               \/ NoWindow(c) \/ Discard(c) \/ ImportFails(c)
               \/ ImportSignalled(c) \/ ImportFenced(c)
        PROVE  Paced'
    BY <2>7, <1>1
    DEF NoWindow, Discard, ImportFails, ImportSignalled, ImportFenced, Imports, Signal, history
  <2> QED
    BY <1>2, <2>1, <2>2, <2>3, <2>4, <2>5, <2>6, <2>7, Steps
<1> QED
  BY <1>1, <1>2 DEF vars, pass, history

LEMMA Inductive == Spec => []IInv
<1>1. Init => IInv
  BY QueueAssumption
  DEF Init, IInv, TypeOK, Queues, Numbered, Imported, Queued, Owned, DoneFirst, Holds,
      BufferHeldForFence, HeldFirst, HeldLatched, Paced
<1>2. IInv /\ [Next]_vars => IInv'
  BY TypeStep, FrameStep, PacedStep DEF IInv
<1> QED
  BY <1>1, <1>2, PTL DEF Spec

-----------------------------------------------------------------------------
(* Theorems.                                                               *)

\* Frames, queues, lists and the pass keep their types: of steamcompmgr.cpp's
\* two static containers nothing is left over.
THEOREM TypeCorrect == Spec => []TypeOK
BY Inductive, PTL DEF IInv

\* The image waiter's reference keeps the buffer of a frame locked until its
\* fence has signalled, whatever becomes of the frame and its window.
THEOREM FenceProtects == Spec => []BufferHeldForFence
BY Inductive, PTL DEF IInv, Holds

\* Between passes, and in fact always, the held commit is the newest latched
\* frame of the focused window.
THEOREM NewestHeld == Spec => []HeldIsNewest
<1>1. IInv => HeldIsNewest
  <2> SUFFICES ASSUME IInv, focus # NoWin, queue[focus] \cap done # {}
               PROVE  /\ held \in queue[focus] \cap done
                      /\ \A d \in queue[focus] \cap done : d <= held
    BY DEF HeldIsNewest
  <2>1. focus \in Wins /\ queue[focus] \subseteq DOMAIN frames
        /\ \A d \in DOMAIN frames : d \in Nat
    BY FrameNumbers DEF IInv, TypeOK
  <2> QED
    BY <2>1 DEF IInv, Holds, HeldLatched
<1> QED
  BY <1>1, Inductive, PTL

\* The frames that a step latches, if any, are the one at the head of the list.
LEMMA OnlyLatch ==
  ASSUME IInv, [Next]_vars, UNCHANGED <<held, done>> => FALSE
  PROVE  \/ /\ list # <<>> /\ loop.pc = "done" /\ Latch(Head(list))
         \/ UNCHANGED done /\ PassEnd
<1>1. ~UNCHANGED vars
  BY DEF vars, shown
<1>2. Next
  BY <1>1
<1> QED
  BY <1>2, Steps
  DEF Commit, DestroyWin, OnPollIn, PassBegin, Postpone, Forget, FlushFrameDone, Retrieve,
      NoWindow, Discard, ImportFails, ImportSignalled, ImportFenced, Imports, PassEnd,
      shown

\* The held commit of a window is only ever replaced by a newer one of it.
NeverLatchOlder ==
  [][held # 0 /\ held' # held /\ Win(held') = Win(held) => held' > held]_vars

\* Whatever the order in which fences signal and entries are put off, painting
\* never goes back to an older frame of the same window.
THEOREM NeverOlder == Spec => NeverLatchOlder
<1>1. IInv /\ [Next]_vars =>
        [held # 0 /\ held' # held /\ Win(held') = Win(held) => held' > held]_vars
  <2> SUFFICES ASSUME IInv, [Next]_vars, held # 0, held' # held, Win(held') = Win(held)
               PROVE  held' > held
    OBVIOUS
  <2> DEFINE w == Win(held)
  <2>1. /\ held \in done /\ w \in Wins /\ queue[w] \subseteq DOMAIN frames
        /\ \A d \in DOMAIN frames : d \in Nat
        /\ \A d \in queue[w] : held <= d
        /\ held \in DOMAIN frames
    BY FrameNumbers DEF IInv, TypeOK, Holds, HeldFirst
  <2>2. CASE list # <<>> /\ loop.pc = "done" /\ Latch(Head(list))
    <3>1. held' = Head(list) /\ Head(list) \in queue[Win(Head(list))]
      BY <2>2 DEF Latch
    <3> QED
      BY <2>1, <3>1
  <2>3. CASE PassEnd
    <3>1. PICK v \in wins : held' = HeldFor(v) /\ queue[v] \cap done # {}
      BY <2>3 DEF PassEnd, HeldFor
    <3>2. v \in Wins /\ queue[v] \subseteq DOMAIN frames
      BY DEF IInv, TypeOK
    <3>3. \A c, d \in queue[v] \cap done : c <= d
      BY <3>2 DEF IInv, Queues, DoneFirst
    <3>4. held' \in queue[v]
      BY <3>1, <3>3 DEF HeldFor
    <3>5. Win(held') = v
      BY <3>2, <3>4 DEF IInv, Queues, Owned
    <3> QED
      BY <2>1, <3>4, <3>5
  <2> QED
    BY <2>2, <2>3, OnlyLatch
<1> QED
  BY <1>1, Inductive, PTL DEF Spec, NeverLatchOlder

\* However many passes there are between two openings of the limiter, a window
\* gets one FIFO frame.
THEOREM Pacing == Spec => FifoPaced
<1>1. IInv /\ [Next]_vars =>
        [\A c \in done' \ done : Fifo(c) => Win(c) \notin paced]_vars
  <2> SUFFICES ASSUME IInv, [Next]_vars, NEW c \in done' \ done, Fifo(c)
               PROVE  Win(c) \notin paced
    OBVIOUS
  <2>1. Latch(Head(list)) /\ c = Head(list)
    BY OnlyLatch DEF Latch
  <2> QED
    BY <2>1 DEF Latch, WaitsItsTurn, IInv, Paced
<1> QED
  BY <1>1, Inductive, PTL DEF Spec, FifoPaced

-----------------------------------------------------------------------------
(* An Xwayland server's list loses nothing.                                *)

LEMMA TailMembers ==
  ASSUME NEW S, NEW s \in Seq(S), s # <<>>
  PROVE  Members(s) = {Head(s)} \cup Members(Tail(s))
<1>1. Len(s) \in Nat \ {0} /\ DOMAIN s = 1..Len(s) /\ Head(s) = s[1]
  OBVIOUS
<1>2. Len(Tail(s)) = Len(s) - 1 /\ DOMAIN Tail(s) = 1..(Len(s) - 1)
      /\ \A i \in 1..(Len(s) - 1) : Tail(s)[i] = s[i + 1]
  BY <1>1
<1>3. \A i \in DOMAIN s : i = 1 \/ (i - 1 \in DOMAIN Tail(s) /\ Tail(s)[i - 1] = s[i])
  BY <1>1, <1>2
<1>4. \A i \in DOMAIN Tail(s) : i + 1 \in DOMAIN s /\ Tail(s)[i] = s[i + 1]
  BY <1>1, <1>2
<1>5. ASSUME NEW x \in Members(s) PROVE x \in {Head(s)} \cup Members(Tail(s))
  BY <1>1, <1>3, <1>5 DEF Members
<1>6. ASSUME NEW x \in Members(Tail(s)) PROVE x \in Members(s)
  BY <1>4, <1>6 DEF Members
<1>7. Head(s) \in Members(s)
  BY <1>1 DEF Members
<1> QED
  BY <1>5, <1>6, <1>7

LEMMA AppendMembers ==
  ASSUME NEW S, NEW s \in Seq(S), NEW x
  PROVE  Members(Append(s, x)) = Members(s) \cup {x}
<1>1. Len(s) \in Nat /\ DOMAIN s = 1..Len(s)
  OBVIOUS
<1>2. DOMAIN Append(s, x) = 1..(Len(s) + 1) /\ Append(s, x)[Len(s) + 1] = x
      /\ \A i \in 1..Len(s) : Append(s, x)[i] = s[i]
  BY <1>1
<1> QED
  BY <1>1, <1>2 DEF Members

\* A frame is accounted for by its fence, by an entry, or by a kept entry.
Known == fenced \cup Members(list) \cup Members(loop.keep)

LEMMA PostponeKeeps ==
  ASSUME IInv, Xdg = FALSE, list # <<>>, Postpone(Head(list))
  PROVE  Known \subseteq Known'
<1>1. list' = Tail(list) /\ fenced' = fenced /\ loop'.keep = Append(loop.keep, Head(list))
  BY DEF Postpone, Keep, IInv, TypeOK
<1>2. Members(list) = {Head(list)} \cup Members(Tail(list))
  BY TailMembers DEF IInv, TypeOK
<1>3. Members(Append(loop.keep, Head(list))) = Members(loop.keep) \cup {Head(list)}
  BY AppendMembers DEF IInv, TypeOK
<1>4. Members(list)' = Members(Tail(list))
      /\ Members(loop.keep)' = Members(Append(loop.keep, Head(list)))
  BY <1>1 DEF Members
<1> QED
  BY <1>1, <1>2, <1>3, <1>4 DEF Known

\* Latch and Forget consume the entry of a frame that is then done or not queued.
LEMMA HandledKeeps ==
  ASSUME IInv, list # <<>>, list' = Tail(list), UNCHANGED fenced, loop'.keep = loop.keep
  PROVE  Known \subseteq Known' \cup {Head(list)}
<1>1. Members(list) = {Head(list)} \cup Members(Tail(list))
  BY TailMembers DEF IInv, TypeOK
<1>2. Members(list)' = Members(Tail(list)) /\ Members(loop.keep)' = Members(loop.keep)
  BY DEF Members
<1> QED
  BY <1>1, <1>2 DEF Known

LEMMA SignalKeeps ==
  ASSUME IInv, NEW c, list' = Append(list, c), fenced \ {c} \subseteq fenced',
         loop'.keep = loop.keep
  PROVE  Known \cup {c} \subseteq Known'
<1>1. Members(list)' = Members(list) \cup {c}
  <2>1. Members(Append(list, c)) = Members(list) \cup {c}
    BY AppendMembers DEF IInv, TypeOK
  <2>2. Members(list)' = Members(Append(list, c))
    BY DEF Members
  <2> QED
    BY <2>1, <2>2
<1>2. Members(loop.keep)' = Members(loop.keep)
  BY DEF Members
<1> QED
  BY <1>1, <1>2 DEF Known

\* A step under which no frame becomes unknown, or wanted.
LEMMA KnownStays ==
  ASSUME NothingLost, Known \subseteq Known', wins' \subseteq wins,
         \A w \in wins' : queue'[w] \ done' \subseteq (queue[w] \ done) \cup Known'
  PROVE  NothingLost'
BY DEF NothingLost, Known

LEMMA NothingLostStep ==
  ASSUME IInv, Xdg = FALSE, NothingLost, [Next]_vars
  PROVE  NothingLost'
<1>1. ASSUME UNCHANGED <<fenced, list, queue, done, loop>>, wins' \subseteq wins
      PROVE  NothingLost'
  BY <1>1 DEF NothingLost, Members
<1>2. CASE UNCHANGED vars
  BY <1>1, <1>2 DEF vars, windows, pass, shown
<1>3. CASE Next
  <2>1. ASSUME NEW w \in Wins, Commit(w) PROVE NothingLost'
    BY <2>1, <1>1 DEF Commit, pass, shown
  <2>2. ASSUME NEW w \in Wins, DestroyWin(w) PROVE NothingLost'
    <3>1. wins' = wins \ {w} /\ queue' = [queue EXCEPT ![w] = {}] /\ UNCHANGED <<done, loop>>
          /\ UNCHANGED <<fenced, list>>
      BY <2>2 DEF DestroyWin, pass
    <3>2. \A v \in wins' : queue'[v] = queue[v]
      BY <3>1 DEF IInv, TypeOK
    <3>3. Members(list)' = Members(list) /\ Members(loop.keep)' = Members(loop.keep)
      BY <3>1 DEF Members
    <3> QED
      BY <3>1, <3>2, <3>3 DEF NothingLost
  <2>3. ASSUME NEW c \in DOMAIN frames, OnPollIn(c) PROVE NothingLost'
    <3>1. /\ UNCHANGED <<wins, queue, done, loop>> /\ fenced' = fenced \ {c}
          /\ list' = Append(list, c)
      BY <2>3 DEF OnPollIn, Signal, windows, pass, shown
    <3>2. Known \subseteq Known'
      BY <3>1, SignalKeeps
    <3> QED
      BY <3>1, <3>2, KnownStays
  <2>4. ASSUME NEW vblank \in BOOLEAN, PassBegin(vblank) PROVE NothingLost'
    <3>1. loop.keep = <<>> /\ loop'.keep = <<>>
      BY <2>4 DEF PassBegin, IInv, TypeOK
    <3>2. UNCHANGED <<wins, queue, done, fenced, list>>
      BY <2>4 DEF PassBegin, shown
    <3>3. Members(list)' = Members(list) /\ Members(loop.keep)' = Members(loop.keep)
      BY <3>1, <3>2 DEF Members
    <3> QED
      BY <3>2, <3>3 DEF NothingLost
  <2>5. ASSUME loop.pc = "done", list # <<>>, Postpone(Head(list)) PROVE NothingLost'
    <3>1. UNCHANGED <<wins, queue, done>>
      BY <2>5 DEF Postpone, windows, shown
    <3> QED
      BY <2>5, <3>1, PostponeKeeps, KnownStays
  <2>6. ASSUME loop.pc = "done", list # <<>>, Latch(Head(list)) PROVE NothingLost'
    <3>1. list' = Tail(list) /\ fenced' = fenced /\ wins' = wins /\ loop'.keep = loop.keep
      BY <2>6 DEF Latch, IInv, TypeOK
    <3>2. Known \subseteq Known' \cup {Head(list)}
      BY <2>6, <3>1, HandledKeeps
    <3>3. done' = done \cup {Head(list)} /\ \A v \in Wins : queue'[v] \subseteq queue[v]
      BY <2>6, LatchQueues
    <3>4. wins \subseteq Wins
      BY DEF IInv, TypeOK
    <3> QED
      BY <3>1, <3>2, <3>3, <3>4 DEF NothingLost, Known
  <2>7. ASSUME loop.pc = "done", list # <<>>, Forget(Head(list)) PROVE NothingLost'
    <3>1. /\ UNCHANGED <<frames, fenced, wins, queue, done, loop>> /\ list' = Tail(list)
          /\ Head(list) \notin queue[Win(Head(list))]
      BY <2>7 DEF Forget, windows, pass, shown
    <3>2. Known \subseteq Known' \cup {Head(list)}
      BY <2>7, <3>1, HandledKeeps
    <3>3. \A v \in wins : Head(list) \notin queue[v]
      BY <3>1 DEF IInv, TypeOK, Queues, Owned
    <3> QED
      BY <3>1, <3>2, <3>3 DEF NothingLost, Known
  <2>8. CASE FlushFrameDone
    <3>1. /\ UNCHANGED <<wins, queue, done, fenced>> /\ list = <<>> /\ list' = loop.keep
      BY <2>8 DEF FlushFrameDone, shown
    <3>2. Members(list) = {} /\ Members(list)' = Members(loop.keep)
      BY <3>1 DEF Members
    <3> QED
      BY <3>1, <3>2 DEF NothingLost
  <2>9. CASE Retrieve \/ PassEnd
    <3>1. loop.keep = <<>> /\ loop'.keep = <<>>
      BY <2>9 DEF Retrieve, PassEnd, IInv, TypeOK
    <3>2. UNCHANGED <<wins, queue, done, fenced, list>>
      BY <2>9 DEF Retrieve, PassEnd, windows, shown
    <3>3. Members(list)' = Members(list) /\ Members(loop.keep)' = Members(loop.keep)
      BY <3>1, <3>2 DEF Members
    <3> QED
      BY <3>2, <3>3 DEF NothingLost
  <2>10. ASSUME NEW c \in DOMAIN frames, NoWindow(c) \/ Discard(c) \/ ImportFails(c)
         PROVE  NothingLost'
    BY <2>10, <1>1 DEF NoWindow, Discard, ImportFails, windows, shown
  <2>11. ASSUME NEW c \in DOMAIN frames, ImportSignalled(c) \/ ImportFenced(c)
         PROVE  NothingLost'
    <3>1. /\ UNCHANGED <<wins, done, loop>>
          /\ queue' = [queue EXCEPT ![Win(c)] = @ \cup {c}]
      BY <2>11 DEF ImportSignalled, ImportFenced, Imports, windows
    <3>2. Known \cup {c} \subseteq Known'
      <4>1. CASE ImportSignalled(c)
        BY <4>1, <3>1, SignalKeeps DEF ImportSignalled, Signal
      <4>2. CASE ImportFenced(c)
        <5>1. list' = list /\ fenced' = fenced \cup {c}
          BY <4>2 DEF ImportFenced, WaitFor
        <5> QED
          BY <3>1, <5>1 DEF Known, Members
      <4> QED
        BY <2>11, <4>1, <4>2
    <3>3. \A v \in wins : queue'[v] \subseteq queue[v] \cup {c}
      BY <3>1 DEF IInv, TypeOK
    <3> QED
      BY <3>1, <3>2, <3>3, KnownStays
  <2> QED
    BY <1>3, <2>1, <2>2, <2>3, <2>4, <2>5, <2>6, <2>7, <2>8, <2>9, <2>10, <2>11, Steps
<1> QED
  BY <1>2, <1>3

\* Every frame that is queued and not latched still has a fence somebody waits
\* for, or an entry in the done list: the list of an Xwayland server loses none.
THEOREM XwaylandLosesNothing == Xdg = FALSE /\ Spec => []NothingLost
<1>1. Init => NothingLost
  BY DEF Init, NothingLost
<1>2. Xdg = FALSE /\ IInv /\ NothingLost /\ [Next]_vars => NothingLost'
  BY NothingLostStep
<1>3. CASE Xdg = FALSE
  <2>1. IInv /\ NothingLost /\ [Next]_vars => NothingLost'
    BY <1>2, <1>3
  <2> QED
    BY <1>1, <2>1, Inductive, PTL DEF Spec
<1> QED
  BY <1>3

-----------------------------------------------------------------------------
(* A frame is reported once.                                               *)

Distinct(s) == \A i, j \in DOMAIN s : s[i] = s[j] => i = j

\* Entries are of different frames, which have neither a fence nor been latched,
\* and which have left the commits that wait (w) to be imported.
Apart(l, k, f, d, w) ==
  /\ Distinct(l) /\ Distinct(k) /\ Members(l) \cap Members(k) = {}
  /\ f \cap (Members(l) \cup Members(k)) = {}
  /\ d \cap (Members(l) \cup Members(k) \cup f) = {}
  /\ \A c \in Members(l) \cup Members(k) \cup f, b \in w : c < b

Once ==
  /\ loop.pc # "import" => batch = {}
  /\ Apart(list, loop.keep, fenced, done, batch \cup incoming)

LEMMA EmptyMembers == Members(<<>>) = {} /\ Distinct(<<>>)
BY DEF Members, Distinct

LEMMA TailDistinct ==
  ASSUME NEW S, NEW s \in Seq(S), s # <<>>, Distinct(s)
  PROVE  Distinct(Tail(s)) /\ Head(s) \notin Members(Tail(s))
<1>1. /\ Len(s) \in Nat \ {0} /\ DOMAIN s = 1..Len(s) /\ Head(s) = s[1]
      /\ DOMAIN Tail(s) = 1..(Len(s) - 1)
      /\ \A i \in 1..(Len(s) - 1) : Tail(s)[i] = s[i + 1]
  OBVIOUS
<1>2. \A i \in DOMAIN Tail(s) : i + 1 \in DOMAIN s /\ Tail(s)[i] = s[i + 1] /\ i + 1 # 1
  BY <1>1
<1>3. Distinct(Tail(s))
  <2> SUFFICES ASSUME NEW i \in DOMAIN Tail(s), NEW j \in DOMAIN Tail(s), Tail(s)[i] = Tail(s)[j]
               PROVE  i = j
    BY DEF Distinct
  <2>1. i + 1 = j + 1
    BY <1>2 DEF Distinct
  <2> QED
    BY <1>1, <2>1
<1>4. Head(s) \notin Members(Tail(s))
  BY <1>1, <1>2 DEF Distinct, Members
<1> QED
  BY <1>3, <1>4

LEMMA AppendDistinct ==
  ASSUME NEW S, NEW s \in Seq(S), NEW x, x \notin Members(s), Distinct(s)
  PROVE  Distinct(Append(s, x))
<1>1. /\ Len(s) \in Nat /\ DOMAIN s = 1..Len(s)
      /\ DOMAIN Append(s, x) = 1..(Len(s) + 1) /\ Append(s, x)[Len(s) + 1] = x
      /\ \A i \in 1..Len(s) : Append(s, x)[i] = s[i]
  OBVIOUS
<1> QED
  BY <1>1 DEF Distinct, Members

\* Fewer fences, and fewer commits that wait.
LEMMA ApartShrinks ==
  ASSUME NEW l, NEW k, NEW f, NEW d, NEW w, Apart(l, k, f, d, w),
         NEW f1 \in SUBSET f, NEW w1 \in SUBSET w
  PROVE  Apart(l, k, f1, d, w1)
BY DEF Apart

\* The first entry is put off, with or without those after it, forgotten, or
\* latched.
LEMMA ApartHead ==
  ASSUME NEW S, NEW l \in Seq(S), NEW k \in Seq(S), NEW f, NEW d, NEW w, Apart(l, k, f, d, w),
         l # <<>>
  PROVE  /\ Apart(Tail(l), Append(k, Head(l)), f, d, w)
         /\ Apart(<<>>, Append(k, Head(l)), f, d, w)
         /\ Apart(Tail(l), k, f, d, w)
         /\ Apart(Tail(l), k, f, d \cup {Head(l)}, w)
<1>1. /\ Members(l) = {Head(l)} \cup Members(Tail(l)) /\ Distinct(Tail(l))
      /\ Head(l) \notin Members(Tail(l))
  BY TailMembers, TailDistinct DEF Apart
<1>2. /\ Members(Append(k, Head(l))) = Members(k) \cup {Head(l)} /\ Distinct(Append(k, Head(l)))
  BY <1>1, AppendMembers, AppendDistinct DEF Apart
<1> QED
  BY <1>1, <1>2, EmptyMembers DEF Apart

\* x is reported: its fence signals, or it was imported without one.
LEMMA ApartReported ==
  ASSUME NEW S, NEW l \in Seq(S), NEW k, NEW f, NEW d, NEW w, NEW x, Apart(l, k, f \cup {x}, d, w),
         x \notin f
  PROVE  Apart(Append(l, x), k, f, d, w)
<1>1. Members(Append(l, x)) = Members(l) \cup {x} /\ Distinct(Append(l, x))
  BY AppendMembers, AppendDistinct DEF Apart
<1> QED
  BY <1>1 DEF Apart

LEMMA OnceStep ==
  ASSUME IInv, Once, [Next]_vars
  PROVE  Once'
<1>1. list \in Seq(DOMAIN frames) /\ loop.keep \in Seq(DOMAIN frames)
  BY DEF IInv, TypeOK
<1>2. ASSUME list' = list, loop'.keep = loop.keep, fenced' \subseteq fenced, done' = done,
             batch' \cup incoming' \subseteq batch \cup incoming,
             loop'.pc # "import" => batch' = {}
      PROVE  Once'
  BY <1>2, ApartShrinks DEF Once
<1>3. CASE UNCHANGED vars
  BY <1>2, <1>3 DEF vars, pass, shown, Once
<1>4. CASE Next
  <2>1. ASSUME NEW w \in Wins, Commit(w) PROVE Once'
    <3>1. /\ UNCHANGED <<fenced, list, done, loop, batch>>
          /\ incoming' = incoming \cup {Len(frames) + 1}
      BY <2>1 DEF Commit, pass, shown
    <3>2. /\ Members(list) \subseteq DOMAIN frames /\ Members(loop.keep) \subseteq DOMAIN frames
          /\ fenced \subseteq DOMAIN frames
      BY <1>1 DEF Members, IInv, TypeOK
    <3>3. \A c \in DOMAIN frames : c < Len(frames) + 1
      BY FrameNumbers DEF IInv
    <3>4. Apart(list, loop.keep, fenced, done, batch \cup (incoming \cup {Len(frames) + 1}))
      <4>1. \A c \in Members(list) \cup Members(loop.keep) \cup fenced,
               b \in batch \cup (incoming \cup {Len(frames) + 1}) : c < b
        BY <3>2, <3>3 DEF Once, Apart
      <4> QED
        BY <4>1 DEF Once, Apart
    <3> QED
      BY <3>1, <3>4 DEF Once
  <2>2. ASSUME NEW w \in Wins, DestroyWin(w) PROVE Once'
    BY <2>2, <1>2 DEF DestroyWin, pass, Once
  <2>3. ASSUME NEW c \in DOMAIN frames, OnPollIn(c) PROVE Once'
    <3>1. /\ list' = Append(list, c) /\ fenced' = fenced \ {c} /\ c \in fenced
          /\ UNCHANGED <<done, loop, batch, incoming>>
      BY <2>3 DEF OnPollIn, Signal, pass, shown
    <3>2. (fenced \ {c}) \cup {c} = fenced
      BY <3>1
    <3>3. Apart(Append(list, c), loop.keep, fenced \ {c}, done, batch \cup incoming)
      BY <1>1, <3>2, ApartReported DEF Once
    <3> QED
      BY <3>1, <3>3 DEF Once
  <2>4. ASSUME NEW vblank \in BOOLEAN, PassBegin(vblank) PROVE Once'
    <3>1. loop.keep = <<>> /\ loop'.keep = <<>> /\ loop.pc = "idle"
      BY <2>4 DEF PassBegin, IInv, TypeOK
    <3> QED
      BY <2>4, <1>2, <3>1 DEF PassBegin, shown, Once
  <2>5. ASSUME loop.pc = "done", list # <<>>,
               Postpone(Head(list)) \/ Latch(Head(list)) \/ Forget(Head(list))
        PROVE  Once'
    <3>1. /\ UNCHANGED <<fenced, batch, incoming>> /\ loop'.pc = "done" /\ batch = {}
      BY <2>5 DEF Postpone, Latch, Forget, pass, IInv, TypeOK, Once
    <3>2. \/ /\ list' \in {<<>>, Tail(list)} /\ done' = done
             /\ loop'.keep = Append(loop.keep, Head(list))
          \/ /\ list' = Tail(list) /\ done' \in {done, done \cup {Head(list)}}
             /\ loop'.keep = loop.keep
      BY <2>5 DEF Postpone, Latch, Forget, Keep, pass, shown, IInv, TypeOK
    <3> DEFINE l == list
               k == loop.keep
               w == batch \cup incoming
    <3>3. /\ Apart(<<>>, Append(k, Head(l)), fenced, done, w)
          /\ Apart(Tail(l), Append(k, Head(l)), fenced, done, w)
          /\ Apart(Tail(l), k, fenced, done, w)
          /\ Apart(Tail(l), k, fenced, done \cup {Head(l)}, w)
      BY <1>1, <2>5, ApartHead DEF Once
    <3>4. Apart(list', loop'.keep, fenced, done', w)
      BY <3>2, <3>3
    <3> QED
      BY <3>1, <3>4 DEF Once
  <2>6. CASE FlushFrameDone
    <3>1. /\ UNCHANGED <<fenced, done, batch, incoming>> /\ loop.pc = "done" /\ list = <<>>
          /\ list' = loop.keep /\ loop'.keep = <<>>
      BY <2>6 DEF FlushFrameDone, ListHandled, shown
    <3> QED
      BY <3>1, EmptyMembers DEF Once, Apart
  <2>7. CASE Retrieve \/ PassEnd
    <3>1. /\ UNCHANGED <<fenced, list, done>> /\ loop'.keep = loop.keep
          /\ batch' \cup incoming' \subseteq batch \cup incoming
          /\ loop'.pc # "import" => batch' = {}
      BY <2>7 DEF Retrieve, PassEnd, shown, IInv, TypeOK, Once
    <3> QED
      BY <1>2, <3>1
  <2>8. ASSUME NEW c \in DOMAIN frames, NoWindow(c) \/ Discard(c) \/ ImportFails(c)
        PROVE  Once'
    <3>1. /\ UNCHANGED <<fenced, list, done, loop, incoming>> /\ batch' = batch \ {c}
          /\ loop.pc = "import"
      BY <2>8 DEF NoWindow, Discard, ImportFails, InTurn, Took, shown
    <3> QED
      BY <1>2, <3>1
  <2>9. ASSUME NEW c \in DOMAIN frames, ImportSignalled(c) \/ ImportFenced(c)
        PROVE  Once'
    <3>1. /\ UNCHANGED <<done, loop, incoming>> /\ batch' = batch \ {c} /\ c \in batch
          /\ \A b \in batch : c <= b /\ loop.pc = "import"
          /\ \/ list' = Append(list, c) /\ fenced' = fenced
             \/ list' = list /\ fenced' = fenced \cup {c}
      BY <2>9 DEF ImportSignalled, ImportFenced, Imports, InTurn, Took, Signal, WaitFor
    <3>2. /\ c \in Nat /\ \A b \in batch \cup incoming : b \in Nat
          /\ \A b \in batch' \cup incoming' : c < b
      <4>1. \A b \in DOMAIN frames : b \in Nat
        BY FrameNumbers DEF IInv
      <4>2. batch \cup incoming \subseteq DOMAIN frames
        BY DEF IInv, TypeOK
      <4> QED
        BY <3>1, <4>1, <4>2 DEF IInv, Queues, Numbered
    <3>3. c \notin done /\ c \notin fenced
      BY <3>1, <3>2 DEF IInv, Queues, Numbered, Imported
    <3>4. c \notin Members(list) /\ c \notin Members(loop.keep)
      BY <3>1, <3>2 DEF Once, Apart
    <3>5. Apart(list, loop.keep, fenced \cup {c}, done, batch' \cup incoming')
      BY <3>1, <3>2, <3>3, <3>4 DEF Once, Apart
    <3>6. Apart(Append(list, c), loop.keep, fenced, done, batch' \cup incoming')
      BY <1>1, <3>3, <3>5, ApartReported
    <3> QED
      BY <3>1, <3>5, <3>6 DEF Once
  <2> QED
    BY <1>4, <2>1, <2>2, <2>3, <2>4, <2>5, <2>6, <2>7, <2>8, <2>9, Steps
<1> QED
  BY <1>3, <1>4

\* Each frame is reported once: an entry, kept or not, is of no other entry's
\* frame, nor of one whose fence still has to signal or that was latched.
THEOREM ReportedOnce == Spec => []Once
<1>1. Init => Once
  BY EmptyMembers DEF Init, Once, Apart
<1>2. IInv /\ Once /\ [Next]_vars => Once'
  BY OnceStep
<1> QED
  BY <1>1, <1>2, Inductive, PTL DEF Spec

-----------------------------------------------------------------------------
(* An Xwayland server's list keeps the order in which frames were reported:  *)
(* what this pass put off comes first, and each of those still has to wait,  *)
(* for the limiter's opening and the windows served only grow in a pass.     *)

MustWait(c) == WaitsItsTurn(c) \/ TooEarly(c)

InOrder ==
  /\ order = loop.keep \o list
  /\ \A i \in DOMAIN loop.keep : MustWait(loop.keep[i])

LEMMA MoveHead ==
  ASSUME NEW S, NEW k \in Seq(S), NEW l \in Seq(S), l # <<>>
  PROVE  Append(k, Head(l)) \o Tail(l) = k \o l
<1>1. /\ Len(k) \in Nat /\ Len(l) \in Nat \ {0} /\ Head(l) = l[1]
      /\ Tail(l) \in Seq(S) /\ Len(Tail(l)) = Len(l) - 1
      /\ \A i \in 1..(Len(l) - 1) : Tail(l)[i] = l[i + 1]
  OBVIOUS
<1>2. /\ Append(k, Head(l)) \in Seq(S) /\ Len(Append(k, Head(l))) = Len(k) + 1
      /\ \A i \in 1..(Len(k) + 1) :
           Append(k, Head(l))[i] = IF i <= Len(k) THEN k[i] ELSE l[1]
  BY <1>1
<1> DEFINE a == Append(k, Head(l)) \o Tail(l)
           b == k \o l
<1>3. a \in Seq(S) /\ b \in Seq(S) /\ Len(a) = Len(k) + Len(l) /\ Len(b) = Len(k) + Len(l)
  BY <1>1, <1>2
<1>4. \A i \in 1..(Len(k) + Len(l)) : a[i] = b[i]
  <2> TAKE i \in 1..(Len(k) + Len(l))
  <2>1. CASE i <= Len(k) + 1
    BY <1>1, <1>2, <2>1
  <2>2. CASE i > Len(k) + 1
    <3>1. i - (Len(k) + 1) \in 1..(Len(l) - 1) /\ i - (Len(k) + 1) + 1 = i - Len(k)
      BY <1>1, <2>2
    <3>2. a[i] = Tail(l)[i - (Len(k) + 1)]
      BY <1>1, <1>2, <2>2
    <3>3. b[i] = l[i - Len(k)]
      BY <1>1, <2>2
    <3> QED
      BY <1>1, <3>1, <3>2, <3>3
  <2> QED
    BY <1>1, <2>1, <2>2
<1> QED
  BY <1>3, <1>4

LEMMA DropMiddle ==
  ASSUME NEW S, NEW k \in Seq(S), NEW l \in Seq(S), l # <<>>
  PROVE  RemoveAt(k \o l, Len(k) + 1) = k \o Tail(l)
<1>1. /\ Len(k) \in Nat /\ Len(l) \in Nat \ {0}
      /\ Tail(l) \in Seq(S) /\ Len(Tail(l)) = Len(l) - 1
      /\ \A i \in 1..(Len(l) - 1) : Tail(l)[i] = l[i + 1]
  OBVIOUS
<1> DEFINE s == k \o l
<1>2. /\ s \in Seq(S) /\ Len(s) = Len(k) + Len(l)
      /\ \A i \in 1..Len(s) : s[i] = IF i <= Len(k) THEN k[i] ELSE l[i - Len(k)]
  BY <1>1
<1> HIDE DEF s
<1>3. SubSeq(s, 1, Len(k)) = k
  BY <1>1, <1>2
<1>4. SubSeq(s, Len(k) + 2, Len(s)) = Tail(l)
  <2> DEFINE t == SubSeq(s, Len(k) + 2, Len(s))
  <2>1. t \in Seq(S) /\ Len(t) = Len(l) - 1
    BY <1>1, <1>2
  <2>2. \A i \in 1..(Len(l) - 1) : t[i] = s[Len(k) + 1 + i]
    BY <1>1, <1>2, <2>1
  <2>3. \A i \in 1..(Len(l) - 1) : s[Len(k) + 1 + i] = l[i + 1]
    BY <1>1, <1>2
  <2> HIDE DEF t
  <2>4. \A i \in 1..(Len(l) - 1) : t[i] = Tail(l)[i]
    BY <1>1, <2>2, <2>3
  <2>5. t = Tail(l)
    BY <1>1, <2>1, <2>4
  <2> QED
    BY <2>5 DEF t
<1>5. PICK n \in Nat : n = Len(k) + 1
  BY <1>1
<1>6. n - 1 = Len(k) /\ n + 1 = Len(k) + 2
  BY <1>1, <1>5
<1>7. RemoveAt(s, n) = SubSeq(s, 1, n - 1) \o SubSeq(s, n + 1, Len(s))
  BY Zenon DEF RemoveAt
<1>8. RemoveAt(s, n) = k \o Tail(l)
  BY <1>3, <1>4, <1>6, <1>7, Zenon
<1> QED
  BY <1>5, <1>8 DEF s

\* The entry at the head of the list leaves the history where it stood.
LEMMA HeadReported ==
  ASSUME IInv, Once, InOrder, list # <<>>
  PROVE  Reported(Head(list)) = loop.keep \o Tail(list)
<1> DEFINE k == loop.keep
           l == list
           D == DOMAIN frames
<1>1. k \in Seq(D) /\ l \in Seq(D) /\ l # <<>> /\ order = k \o l
  BY DEF IInv, TypeOK, InOrder
<1>2. Distinct(l) /\ Members(l) \cap Members(k) = {}
  BY DEF Once, Apart
<1> HIDE DEF k, l, D
<1>3. /\ Len(k) \in Nat /\ DOMAIN k = 1..Len(k) /\ DOMAIN l = 1..Len(l)
      /\ Len(l) \in Nat \ {0} /\ Head(l) = l[1]
      /\ DOMAIN order = 1..(Len(k) + Len(l))
      /\ \A i \in 1..(Len(k) + Len(l)) : order[i] = IF i <= Len(k) THEN k[i] ELSE l[i - Len(k)]
  BY <1>1
<1>4. \A i \in DOMAIN order : order[i] = Head(l) <=> i = Len(k) + 1
  <2> TAKE i \in DOMAIN order
  <2>1. CASE i <= Len(k)
    <3>1. k[i] \in Members(k) /\ Head(l) \in Members(l)
      BY <1>3, <2>1 DEF Members
    <3> QED
      BY <1>2, <1>3, <2>1, <3>1
  <2>2. CASE i > Len(k)
    <3>1. i - Len(k) \in DOMAIN l /\ 1 \in DOMAIN l /\ order[i] = l[i - Len(k)]
      BY <1>3, <2>2
    <3>2. order[i] = Head(l) <=> i - Len(k) = 1
      BY <1>2, <1>3, <3>1 DEF Distinct
    <3> QED
      BY <1>3, <3>2
  <2> QED
    BY <1>3, <2>1, <2>2
<1>5. Len(k) + 1 \in DOMAIN order
  BY <1>3
<1>6. (CHOOSE i \in DOMAIN order : order[i] = Head(l)) = Len(k) + 1
  BY <1>4, <1>5
<1>7. Reported(Head(l)) = k \o Tail(l)
  BY <1>1, <1>6, DropMiddle DEF Reported
<1> QED
  BY <1>7 DEF k, l

LEMMA InOrderStep ==
  ASSUME IInv, Once, Xdg = FALSE, InOrder, [Next]_vars
  PROVE  InOrder'
<1>1. list \in Seq(DOMAIN frames) /\ loop.keep \in Seq(DOMAIN frames)
  BY DEF IInv, TypeOK
<1>2. loop.pc # "done" => loop.keep = <<>> /\ order = list
  <2>1. loop.pc # "done" => loop.keep = <<>>
    BY DEF IInv, TypeOK
  <2>2. order = loop.keep \o list
    BY DEF InOrder
  <2>3. <<>> \o list = list
    BY <1>1
  <2> QED
    BY <2>1, <2>2, <2>3
<1>3. ASSUME order' = list', list' \in Seq(DOMAIN frames), loop'.keep = <<>> PROVE InOrder'
  BY <1>3 DEF InOrder
<1>4. CASE UNCHANGED vars
  BY <1>4 DEF vars, windows, pass, shown, history, InOrder, MustWait, WaitsItsTurn, TooEarly,
              Fifo, Win
<1>5. CASE Next
  <2>1. ASSUME NEW w \in Wins, Commit(w) PROVE InOrder'
    <3>1. UNCHANGED <<list, loop, clock, order>>
      BY <2>1 DEF Commit, pass, history
    <3>2. \A c \in DOMAIN frames : frames'[c] = frames[c]
      BY <2>1, CommitAppends DEF IInv
    <3>3. \A i \in DOMAIN loop.keep : loop.keep[i] \in DOMAIN frames
      BY <1>1
    <3> QED
      BY <3>1, <3>2, <3>3 DEF InOrder, MustWait, WaitsItsTurn, TooEarly, Fifo, Win
  <2>2. ASSUME NEW w \in Wins, DestroyWin(w) PROVE InOrder'
    <3>1. UNCHANGED <<frames, list, loop, clock, order>>
      BY <2>2 DEF DestroyWin, pass, history
    <3> QED
      BY <3>1 DEF InOrder, MustWait, WaitsItsTurn, TooEarly, Fifo, Win
  <2>3. ASSUME NEW c \in DOMAIN frames, OnPollIn(c) \/ ImportSignalled(c) PROVE InOrder'
    <3>1. /\ loop.pc # "done" /\ loop' = loop
          /\ list' = Append(list, c) /\ order' = Append(order, c)
      BY <2>3 DEF OnPollIn, ImportSignalled, Imports, Signal, pass
    <3> QED
      BY <1>1, <1>2, <1>3, <3>1
  <2>4. ASSUME NEW vblank \in BOOLEAN, PassBegin(vblank) PROVE InOrder'
    <3>1. loop.pc # "done" /\ loop'.keep = <<>> /\ list' = list /\ order' = order
      BY <2>4 DEF PassBegin
    <3> QED
      BY <1>1, <1>2, <1>3, <3>1
  <2>5. ASSUME loop.pc = "done", list # <<>>, Postpone(Head(list)) PROVE InOrder'
    <3>1. /\ UNCHANGED <<frames, clock, order>> /\ list' = Tail(list)
          /\ loop'.keep = Append(loop.keep, Head(list))
          /\ loop'.open = loop.open /\ loop'.seen = loop.seen
      BY <2>5 DEF Postpone, Keep, history, IInv, TypeOK
    <3>2. order' = loop'.keep \o list'
      BY <1>1, <2>5, <3>1, MoveHead DEF InOrder
    <3>3. \A c \in DOMAIN frames : MustWait(c) => MustWait(c)'
      BY <3>1 DEF MustWait, WaitsItsTurn, TooEarly, Fifo, Win
    <3>4. MustWait(Head(list))
      BY <2>5 DEF Postpone, MustWait
    <3>5. \A i \in DOMAIN loop'.keep : loop'.keep[i] \in DOMAIN frames /\ MustWait(loop'.keep[i])
      <4>1. Head(list) \in DOMAIN frames
        BY <1>1, <2>5
      <4> QED
        BY <1>1, <3>1, <3>4, <4>1 DEF InOrder
    <3>6. \A i \in DOMAIN loop'.keep : MustWait(loop.keep[i])'
      BY <3>1, <3>5 DEF MustWait, WaitsItsTurn, TooEarly, Fifo, Win
    <3> QED
      BY <3>2, <3>6 DEF InOrder
  <2>6. ASSUME loop.pc = "done", list # <<>>, Latch(Head(list)) \/ Forget(Head(list))
        PROVE  InOrder'
    <3>1. /\ UNCHANGED <<frames, clock>> /\ list' = Tail(list) /\ loop'.keep = loop.keep
          /\ loop'.open = loop.open /\ loop.seen \subseteq loop'.seen
          /\ order' = Reported(Head(list))
      BY <2>6 DEF Latch, Forget, pass, IInv, TypeOK
    <3>2. order' = loop'.keep \o list'
      BY <2>6, <3>1, HeadReported
    <3>3. \A i \in DOMAIN loop'.keep : MustWait(loop.keep[i])'
      BY <3>1 DEF InOrder, MustWait, WaitsItsTurn, TooEarly, Fifo, Win
    <3> QED
      BY <3>2, <3>3 DEF InOrder
  <2>7. CASE FlushFrameDone
    <3>1. /\ list = <<>> /\ list' = loop.keep /\ loop'.keep = <<>> /\ order' = order
      BY <2>7 DEF FlushFrameDone, ListHandled, history
    <3>2. order' = list'
      BY <1>1, <3>1 DEF InOrder
    <3> QED
      BY <1>1, <1>3, <3>1, <3>2
  <2>8. CASE Retrieve \/ PassEnd
    <3>1. loop.pc # "done" /\ loop'.keep = loop.keep /\ list' = list /\ order' = order
      BY <2>8 DEF Retrieve, PassEnd, history, IInv, TypeOK
    <3> QED
      BY <1>1, <1>2, <1>3, <3>1
  <2>9. ASSUME NEW c \in DOMAIN frames,
               NoWindow(c) \/ Discard(c) \/ ImportFails(c) \/ ImportFenced(c)
        PROVE  InOrder'
    <3>1. loop.pc # "done" /\ loop' = loop /\ list' = list /\ order' = order
      BY <2>9 DEF NoWindow, Discard, ImportFails, ImportFenced, Imports, InTurn, history
    <3> QED
      BY <1>1, <1>2, <1>3, <3>1
  <2> QED
    BY <1>5, <2>1, <2>2, <2>3, <2>4, <2>5, <2>6, <2>7, <2>8, <2>9, Steps
<1> QED
  BY <1>4, <1>5

\* An Xwayland server's FIFO frames that are ready are latched in the order in
\* which they became so, however many passes put them off and whichever fences
\* signal meanwhile (commits_before_their_time keeps its order).
THEOREM FifoFirstInFirstOut == Xdg = FALSE /\ Spec => FifoInOrder
<1>1. Init => InOrder
  BY DEF Init, InOrder
<1>2. ASSUME Xdg = FALSE
      PROVE  IInv /\ Once /\ InOrder /\ [Next]_vars => InOrder'
  BY <1>2, InOrderStep
<1> DEFINE A == \A i, j \in DOMAIN order :
                  LET c == order[i]
                      d == order[j]
                  IN  i < j /\ d \in done' \ done /\ Win(c) = Win(d) /\ Fifo(c) /\ Fifo(d)
                        => c \notin queue[Win(c)] \/ frames[c].at > 0
<1>3. IInv /\ Once /\ InOrder /\ [Next]_vars => A
  <2> SUFFICES ASSUME IInv, Once, InOrder, [Next]_vars,
                      NEW i \in DOMAIN order, NEW j \in DOMAIN order, i < j,
                      order[j] \in done' \ done, Win(order[i]) = Win(order[j]),
                      Fifo(order[i]), Fifo(order[j])
               PROVE  frames[order[i]].at > 0
    OBVIOUS
  <2>0. done' # done /\ order[j] \notin done
    OBVIOUS
  <2>1. list # <<>> /\ loop.pc = "done" /\ Latch(Head(list)) /\ order[j] = Head(list)
    <3>1. list # <<>> /\ loop.pc = "done" /\ Latch(Head(list))
      BY <2>0, OnlyLatch
    <3>2. done' = done \cup {Head(list)}
      BY <3>1 DEF Latch
    <3> QED
      BY <2>0, <3>1, <3>2
  <2>2. loop.keep \in Seq(DOMAIN frames) /\ list \in Seq(DOMAIN frames)
        /\ order = loop.keep \o list
    BY DEF IInv, TypeOK, InOrder
  <2>3. i \in DOMAIN loop.keep /\ order[i] = loop.keep[i]
    <3>1. /\ Len(loop.keep) \in Nat /\ Len(list) \in Nat \ {0} /\ Head(list) = list[1]
          /\ DOMAIN loop.keep = 1..Len(loop.keep) /\ DOMAIN list = 1..Len(list)
          /\ DOMAIN order = 1..(Len(loop.keep) + Len(list))
          /\ \A n \in DOMAIN order :
               order[n] = IF n <= Len(loop.keep) THEN loop.keep[n] ELSE list[n - Len(loop.keep)]
      BY <2>1, <2>2
    <3>2. CASE j <= Len(loop.keep)
      BY <3>1, <3>2
    <3>3. CASE j > Len(loop.keep)
      <4>1. j - Len(loop.keep) \in DOMAIN list /\ 1 \in DOMAIN list
            /\ list[j - Len(loop.keep)] = list[1]
        BY <2>1, <3>1, <3>3
      <4>2. j - Len(loop.keep) = 1
        BY <4>1 DEF Once, Apart, Distinct
      <4> QED
        BY <3>1, <4>2
    <3> QED
      BY <3>1, <3>2, <3>3
  <2>4. ~WaitsItsTurn(Head(list))
    BY <2>1 DEF Latch
  <2>5. ~WaitsItsTurn(order[i])
    BY <2>1, <2>4 DEF WaitsItsTurn
  <2>6. TooEarly(order[i])
    BY <2>3, <2>5 DEF InOrder, MustWait
  <2>7. frames[order[i]].at \in Int /\ clock.target \in Nat
    <3>1. order[i] \in DOMAIN frames
      BY <2>2, <2>3
    <3>2. frames[order[i]] \in Frames
      BY <3>1, FrameNumbers DEF IInv
    <3>3. clock.target \in 0..MaxTime /\ 0..MaxTime \subseteq Nat
      BY QueueAssumption DEF IInv, TypeOK
    <3> QED
      BY <3>2, <3>3 DEF Frames
  <2> QED
    BY <2>6, <2>7 DEF TooEarly
<1>4. CASE Xdg = FALSE
  <2>1. IInv /\ Once /\ InOrder /\ [Next]_vars => InOrder'
    BY <1>2, <1>4
  <2>2. IInv /\ Once /\ InOrder /\ [Next]_vars => [A]_vars
    BY <1>3
  <2> QED
    BY <1>1, <2>1, <2>2, Inductive, ReportedOnce, PTL DEF Spec, FifoInOrder
<1> QED
  BY <1>4

-----------------------------------------------------------------------------
(* The refinement of FrameDelivery: what clients see of each frame.        *)

Sent == [c \in DOMAIN frames |-> Win(c)]
Statuses == [c \in DOMAIN frames |-> Status(c)]

Latched(c) == c \in queue[Win(c)] \cap done
Waits(c) == \/ Win(c) \in wins /\ c \in incoming \cup batch
            \/ c \in queue[Win(c)] \ done

\* In a queue a frame has an existing window, and it has left what waits.
LEMMA QueuedFrame ==
  ASSUME TypeOK, Queues, NEW c \in DOMAIN frames
  PROVE  /\ c \in Queued <=> c \in queue[Win(c)]
         /\ c \in Imported => c \notin incoming \cup batch
         /\ c \in Queued => Win(c) \in wins
<1>1. Win(c) \in Wins /\ c \in Nat
  BY FrameNumbers
<1> QED
  BY <1>1 DEF Queues, Owned, Numbered, Imported, Queued

LEMMA StatusIs ==
  ASSUME TypeOK, Queues, NEW c \in DOMAIN frames
  PROVE  /\ Latched(c) => Status(c) = "latched"
         /\ Waits(c) => Status(c) = "pending" /\ ~Latched(c)
         /\ ~Latched(c) /\ ~Waits(c) => Status(c) = "over"
<1>1. /\ c \in Queued <=> c \in queue[Win(c)]
      /\ c \in Imported => c \notin incoming \cup batch
      /\ c \in Queued => Win(c) \in wins
  BY QueuedFrame
<1>2. Latched(c) <=> Win(c) \in wins /\ c \in Queued \cap done
  BY <1>1 DEF Latched
<1>3. Waits(c) <=> Win(c) \in wins /\ c \in incoming \cup batch \cup (Queued \ done)
  BY <1>1 DEF Waits
<1>4. ~(Waits(c) /\ Latched(c))
  BY <1>1, <1>2, <1>3 DEF Imported
<1> QED
  BY <1>2, <1>3, <1>4 DEF Status

\* What StatusIs says of every frame, in a state and in the one after it.
StatusesTold ==
  TypeOK /\ Queues =>
    \A c \in DOMAIN frames :
      /\ Latched(c) => Status(c) = "latched"
      /\ Waits(c) => Status(c) = "pending" /\ ~Latched(c)
      /\ ~Latched(c) /\ ~Waits(c) => Status(c) = "over"

LEMMA StatusesNow == StatusesTold
BY StatusIs DEF StatusesTold

LEMMA StatusesNext == StatusesTold'
BY StatusesNow, PTL

LEMMA AppendIs ==
  ASSUME NEW S, NEW s \in Seq(S), NEW x \in S, NEW t, t = [i \in 1..(Len(s) + 1) |-> t[i]],
         t[Len(s) + 1] = x, \A i \in 1..Len(s) : t[i] = s[i]
  PROVE  t = Append(s, x)
<1> DEFINE a == Append(s, x)
<1>1. Len(s) \in Nat /\ a \in Seq(S) /\ Len(a) = Len(s) + 1
  OBVIOUS
<1>2. a[Len(s) + 1] = x /\ \A i \in 1..Len(s) : a[i] = s[i]
  OBVIOUS
<1> HIDE DEF a
<1>3. a = [i \in 1..(Len(s) + 1) |-> a[i]]
  BY <1>1
<1>4. \A i \in 1..(Len(s) + 1) : i = Len(s) + 1 \/ i \in 1..Len(s)
  BY <1>1
<1>5. \A i \in 1..(Len(s) + 1) : t[i] = a[i]
  BY <1>2, <1>4
<1>6. t = a
  BY <1>3, <1>5
<1> QED
  BY <1>6 DEF a

\* A step that latches, takes in and drops no frame shows clients nothing of it.
LEMMA StatusSame ==
  ASSUME IInv, IInv', UNCHANGED frames,
         \A c \in DOMAIN frames : (Latched(c)' <=> Latched(c)) /\ (Waits(c)' <=> Waits(c))
  PROVE  UNCHANGED <<Sent, Statuses>>
<1>1. \A c \in DOMAIN frames : Win(c)' = Win(c)
  BY DEF Win
<1>2. \A c \in DOMAIN frames : Status(c)' = Status(c)
  BY StatusesNow, StatusesNext DEF StatusesTold, IInv
<1> QED
  BY <1>1, <1>2 DEF Sent, Statuses

\* A buffer that a commit_t's destructor unlocks is of a frame that is over.
LEMMA UnlockedReturns ==
  ASSUME IInv, IInv', UNCHANGED frames, Unlocked,
         incoming' \cup batch' \subseteq incoming \cup batch
  PROVE  FD!Returns
<1> SUFFICES ASSUME NEW c \in locked \ locked'
             PROVE  Statuses'[c] = "over" /\ held' # c
  BY UnlockedLess DEF FD!Returns, Statuses
<1>1. c \in DOMAIN frames /\ Referenced(c) /\ ~Referenced(c)'
  BY DEF Unlocked, IInv, TypeOK
<1>2. c \in Imported
  <2>1. c # 0 /\ Win(c) \in Wins /\ held \in {0} \cup done
    BY <1>1, FrameNumbers, SMTT(60) DEF IInv, TypeOK
  <2> QED
    BY <1>1, <2>1 DEF Referenced, Imported, Queued
<1>3. c \notin incoming' \cup batch'
  BY <1>1, <1>2, QueuedFrame DEF IInv
<1>4. ~Latched(c)' /\ ~Waits(c)' /\ held' # c
  BY <1>1, <1>3 DEF Referenced, Latched, Waits, Win
<1>5. Status(c)' = "over"
  BY <1>1, <1>4, StatusesNext DEF StatusesTold, IInv
<1> QED
  BY <1>1, <1>4, <1>5 DEF Statuses

\* Steps of the threads that clients see nothing of but buffers that return.
LEMMA FreeStep ==
  ASSUME IInv, IInv', UNCHANGED <<frames, incoming, batch, queue, done, windows, held>>, Unlocked
  PROVE  FD!Free
<1>1. UNCHANGED <<Sent, Statuses>>
  BY StatusSame DEF Latched, Waits, Win, windows
<1>2. FD!Returns
  BY UnlockedReturns
<1> QED
  BY <1>1, <1>2 DEF FD!Free, Sent, Statuses, windows

LEMMA SendStep ==
  ASSUME IInv, IInv', NEW w \in Wins, Commit(w)
  PROVE  FD!Send(w)
<1> PICK n \in Nat : n = Len(frames) + 1
  BY FrameNumbers DEF IInv
<1>1. /\ DOMAIN frames = 1..Len(frames) /\ Len(frames) \in Nat
      /\ DOMAIN frames' = 1..n /\ frames'[n].win = w
      /\ \A c \in DOMAIN frames : frames'[c] = frames[c]
  <2>1. DOMAIN frames = 1..Len(frames) /\ Len(frames) \in Nat
    BY FrameNumbers DEF IInv
  <2>2. /\ DOMAIN frames' = DOMAIN frames \cup {n} /\ frames'[n].win = w
        /\ \A c \in DOMAIN frames : frames'[c] = frames[c]
    BY CommitAppends DEF IInv
  <2>3. (1..Len(frames)) \cup {n} = 1..n
    BY <2>1
  <2> QED
    BY <2>1, <2>2, <2>3
<1>2. /\ UNCHANGED <<wins, queue, done, batch, held, received>> /\ w \in wins
      /\ incoming' = incoming \cup {n} /\ locked' = locked \cup {n} /\ owed' = owed \cup {n}
  BY DEF Commit, pass, shown
<1>3. Win(n)' = w /\ Status(n)' = "pending"
  <2>1. Win(n)' = w
    BY <1>1 DEF Win
  <2>2. Waits(n)' /\ n \in DOMAIN frames'
    BY <1>1, <1>2, <2>1 DEF Waits
  <2> QED
    BY <2>1, <2>2, StatusesNext DEF StatusesTold, IInv
<1>4. \A c \in 1..Len(frames) : Win(c)' = Win(c) /\ Status(c)' = Status(c)
  <2> SUFFICES ASSUME NEW c \in DOMAIN frames
               PROVE  Win(c)' = Win(c) /\ Status(c)' = Status(c)
    BY <1>1
  <2>1. Win(c)' = Win(c) /\ c # n
    BY <1>1 DEF Win
  <2>2. (Latched(c)' <=> Latched(c)) /\ (Waits(c)' <=> Waits(c))
    BY <1>2, <2>1 DEF Latched, Waits
  <2>3. c \in DOMAIN frames'
    BY <1>1
  <2> QED
    BY <2>1, <2>2, <2>3, StatusesNow, StatusesNext DEF StatusesTold, IInv
<1>5. Sent' = Append(Sent, w)
  <2>1. /\ DOMAIN Sent' = 1..n /\ Sent'[n] = w /\ \A c \in 1..Len(frames) : Sent'[c] = Sent[c]
        /\ Sent' = [c \in 1..n |-> Sent'[c]]
    BY <1>1, <1>3, <1>4 DEF Sent
  <2>2. Sent \in Seq(Wins) /\ Len(Sent) = Len(frames)
    BY <1>1, FrameNumbers DEF Sent, IInv
  <2> QED
    BY <1>1, <2>1, <2>2, AppendIs
<1>6. Statuses' = Append(Statuses, "pending")
  <2>1. /\ DOMAIN Statuses' = 1..n /\ Statuses'[n] = "pending"
        /\ \A c \in 1..Len(frames) : Statuses'[c] = Statuses[c]
        /\ Statuses' = [c \in 1..n |-> Statuses'[c]]
    BY <1>1, <1>3, <1>4 DEF Statuses
  <2>2. Statuses \in Seq({"pending", "latched", "over"}) /\ Len(Statuses) = Len(frames)
    <3>1. \A c \in DOMAIN frames : Status(c) \in {"pending", "latched", "over"}
      BY DEF Status
    <3> QED
      BY <1>1, <3>1 DEF Statuses
  <2> QED
    BY <1>1, <2>1, <2>2, AppendIs
<1>7. Len(Sent') = n
  BY <1>1, <1>3, <1>4 DEF Sent
<1> QED
  BY <1>2, <1>5, <1>6, <1>7 DEF FD!Send, Sent, Statuses

LEMMA CloseStep ==
  ASSUME IInv, IInv', NEW w \in Wins, DestroyWin(w)
  PROVE  FD!Close(w)
<1>1. /\ UNCHANGED <<frames, incoming, batch, done, held>> /\ w \in wins
      /\ queue' = [queue EXCEPT ![w] = {}] /\ wins' = wins \ {w} /\ Unlocked
      /\ received' = received \ {w} /\ owed' = {c \in owed : Win(c) # w}
  BY DEF DestroyWin, pass
<1>2. \A v \in Wins : queue'[v] = IF v = w THEN {} ELSE queue[v]
  BY <1>1 DEF IInv, TypeOK
<1>3. \A c \in DOMAIN frames : Win(c)' = Win(c) /\ Win(c) \in Wins
  BY <1>1, FrameNumbers DEF IInv, Win
<1>4. ASSUME NEW c \in DOMAIN frames
      PROVE  Status(c)' = IF Win(c) = w THEN "over" ELSE Status(c)
  <2>1. CASE Win(c) = w
    <3>1. ~Latched(c)' /\ ~Waits(c)'
      BY <1>1, <1>2, <1>3, <2>1 DEF Latched, Waits
    <3> QED
      BY <1>1, <2>1, <3>1, StatusesNext DEF StatusesTold, IInv
  <2>2. CASE Win(c) # w
    <3>1. (Latched(c)' <=> Latched(c)) /\ (Waits(c)' <=> Waits(c))
      BY <1>1, <1>2, <1>3, <2>2 DEF Latched, Waits
    <3> QED
      BY <1>1, <2>2, <3>1, StatusesNow, StatusesNext DEF StatusesTold, IInv
  <2> QED
    BY <2>1, <2>2
<1>5. /\ Sent' = Sent
      /\ Statuses' = [c \in DOMAIN Statuses |-> IF Sent[c] = w THEN "over" ELSE Statuses[c]]
  BY <1>1, <1>3, <1>4 DEF Sent, Statuses
<1>6. owed' = {c \in owed : Sent[c] # w}
  BY <1>1 DEF Sent, IInv, TypeOK
<1>7. FD!Returns
  BY <1>1, UnlockedReturns
<1> QED
  BY <1>1, <1>5, <1>6, <1>7 DEF FD!Close, Sent, Statuses

\* The entry's frame is latched, what is before it in its queue is over.
LEMMA LatchRefines ==
  ASSUME IInv, IInv', Once, loop.pc = "done", list # <<>>, NEW c, c = Head(list), Latch(c)
  PROVE  c \in DOMAIN frames /\ FD!Latch(c)
<1> PICK w \in Wins : w = Win(c)
  BY LatchQueues
<1>1. /\ c \in DOMAIN frames /\ c \in queue[w]
      /\ \A v \in Wins : queue'[v] = IF v = w THEN {d \in queue[w] : d >= c} ELSE queue[v]
      /\ done' = done \cup {c}
  BY LatchQueues
<1>2. /\ UNCHANGED <<frames, incoming, batch, wins, owed>> /\ Unlocked
      /\ held' \in {held, c} /\ received' = received \cup {w}
  BY DEF Latch
<1>3. c \in Members(list) /\ c \notin done
  BY TailMembers DEF Once, Apart, IInv, TypeOK
<1>4. Waits(c) /\ Status(c) = "pending"
  BY <1>1, <1>3, StatusesNow DEF Waits, StatusesTold, IInv
<1>5. \A d \in DOMAIN frames : d \in Nat /\ Win(d) \in Wins /\ Win(d)' = Win(d)
  BY <1>2, FrameNumbers DEF IInv, Win
<1>6. \A d \in DOMAIN frames : Win(d) = w /\ Status(d) = "latched" => d < c
  <2> SUFFICES ASSUME NEW d \in DOMAIN frames, Win(d) = w, Status(d) = "latched"
               PROVE  d < c
    OBVIOUS
  <2>1. d \in queue[w] \cap done
    BY StatusesNow DEF StatusesTold, IInv, Latched
  <2>2. d <= c /\ d # c
    BY <1>1, <1>3, <2>1 DEF IInv, Queues, DoneFirst
  <2> QED
    BY <1>1, <1>5, <2>2
<1>7. \A d \in DOMAIN frames :
        d \in queue'[Win(d)] <=> d \in queue[Win(d)] /\ (Win(d) = w => d >= c)
  <2> SUFFICES ASSUME NEW d \in DOMAIN frames, NEW v \in Wins, v = Win(d)
               PROVE  d \in queue'[v] <=> d \in queue[v] /\ (v = w => d >= c)
    BY <1>5
  <2>1. CASE v = w
    BY <1>1, <2>1
  <2>2. CASE v # w
    BY <1>1, <2>2
  <2> QED
    BY <2>1, <2>2
<1>8. ASSUME NEW d \in DOMAIN frames
      PROVE  Status(d)' = IF d = c THEN "latched"
                          ELSE IF Win(d) = w /\ d < c THEN "over" ELSE Status(d)
  <2>1. CASE d = c
    <3>1. c >= c
      BY <1>1, <1>5
    <3>2. Latched(c)'
      BY <1>1, <1>2, <1>5, <1>7, <3>1 DEF Latched
    <3> QED
      BY <1>2, <2>1, <3>2, StatusesNext DEF StatusesTold, IInv
  <2>2. CASE d # c /\ Win(d) = w /\ d < c
    <3>1. d \notin queue'[w]
      BY <1>1, <1>5, <1>7, <2>2
    <3>2. d \notin incoming \cup batch
      <4>1. c \in Imported
        BY <1>1 DEF Imported, Queued
      <4>2. \A b \in incoming \cup batch : c < b /\ b \in Nat
        BY <1>5, <4>1 DEF IInv, Queues, Numbered, TypeOK
      <4> QED
        BY <1>1, <1>5, <2>2, <4>2
    <3>3. ~Latched(d)' /\ ~Waits(d)'
      BY <1>2, <1>5, <2>2, <3>1, <3>2 DEF Latched, Waits
    <3> QED
      BY <1>2, <2>2, <3>3, StatusesNext DEF StatusesTold, IInv
  <2>3. CASE d # c /\ ~(Win(d) = w /\ d < c)
    <3>1. d \in queue'[Win(d)] <=> d \in queue[Win(d)]
      BY <1>1, <1>5, <1>7, <2>3
    <3>2. (Latched(d)' <=> Latched(d)) /\ (Waits(d)' <=> Waits(d))
      BY <1>1, <1>2, <1>5, <2>3, <3>1 DEF Latched, Waits
    <3> QED
      BY <1>2, <2>3, <3>2, StatusesNow, StatusesNext DEF StatusesTold, IInv
  <2> QED
    BY <2>1, <2>2, <2>3
<1>9. /\ Sent' = Sent
      /\ Statuses' = [d \in DOMAIN Statuses |->
                        IF d = c THEN "latched"
                        ELSE IF Sent[d] = Sent[c] /\ d < c THEN "over" ELSE Statuses[d]]
  BY <1>1, <1>2, <1>5, <1>8 DEF Sent, Statuses
<1>10. /\ Statuses[c] = "pending" /\ Sent[c] = w
      /\ \A d \in DOMAIN Sent : Sent[d] = Sent[c] /\ Statuses[d] = "latched" => d < c
  BY <1>1, <1>4, <1>6 DEF Sent, Statuses
<1>11. FD!Returns
  BY <1>2, UnlockedReturns
<1> QED
  BY <1>1, <1>2, <1>9, <1>10, <1>11 DEF FD!Latch, Sent, Statuses

\* What is taken from the batch for no queue is over from then on, its buffer
\* unlocked or, without a window, not.
LEMMA RefusalRefines ==
  ASSUME IInv, IInv', NEW c \in DOMAIN frames
  PROVE  /\ NoWindow(c) => FD!Free
         /\ Discard(c) \/ ImportFails(c) => FD!Drop(c)
<1> SUFFICES ASSUME NoWindow(c) \/ Discard(c) \/ ImportFails(c)
             PROVE  /\ NoWindow(c) => FD!Free
                    /\ Discard(c) \/ ImportFails(c) => FD!Drop(c)
  OBVIOUS
<1>1. /\ UNCHANGED <<frames, incoming, wins, queue, done, held, owed>>
      /\ c \in batch /\ batch' = batch \ {c} /\ locked' \in {locked, locked \ {c}}
  BY DEF NoWindow, Discard, ImportFails, InTurn, Took, windows, shown
<1>2. c \notin Imported /\ c # 0 /\ c \notin incoming
  BY <1>1, FrameNumbers DEF IInv, Queues, Numbered
<1>3. Win(c) \in Wins /\ c \notin queue[Win(c)] /\ held # c
  BY <1>2, FrameNumbers DEF IInv, TypeOK, Imported, Queued
<1>4. Status(c)' = "over"
  <2>1. ~Latched(c)' /\ ~Waits(c)'
    BY <1>1, <1>2, <1>3 DEF Latched, Waits, Win
  <2> QED
    BY <1>1, <2>1, StatusesNext DEF StatusesTold, IInv
<1>5. \A d \in DOMAIN frames : d # c => Status(d)' = Status(d)
  <2> SUFFICES ASSUME NEW d \in DOMAIN frames, d # c
               PROVE  Status(d)' = Status(d)
    OBVIOUS
  <2>1. (Latched(d)' <=> Latched(d)) /\ (Waits(d)' <=> Waits(d))
    BY <1>1 DEF Latched, Waits, Win
  <2> QED
    BY <1>1, <2>1, StatusesNow, StatusesNext DEF StatusesTold, IInv
<1>6. Sent' = Sent /\ Statuses' = [Statuses EXCEPT ![c] = "over"]
  BY <1>1, <1>4, <1>5 DEF Sent, Statuses, Win
<1>7. FD!Returns
  BY <1>1, <1>3, <1>4 DEF FD!Returns, Statuses
<1>8. CASE NoWindow(c)
  <2>1. ~Latched(c) /\ ~Waits(c)
    BY <1>3, <1>8 DEF Latched, Waits, NoWindow
  <2>2. Statuses[c] = "over"
    BY <2>1, StatusesNow DEF StatusesTold, IInv, Statuses
  <2>3. Statuses' = Statuses
    BY <1>6, <2>2 DEF Statuses
  <2> QED
    BY <1>1, <1>6, <1>7, <1>8, <2>3
    DEF FD!Free, Sent, Statuses, NoWindow, Discard, ImportFails, windows
<1>9. CASE Discard(c) \/ ImportFails(c)
  <2>1. Win(c) \in wins /\ received' \in {received, received \cup {Win(c)}}
    BY <1>9 DEF Discard, ImportFails, windows
  <2>2. Waits(c)
    BY <1>1, <2>1 DEF Waits
  <2>3. Statuses[c] = "pending" /\ Sent[c] = Win(c)
    BY <2>2, StatusesNow DEF StatusesTold, IInv, Statuses, Sent
  <2>4. ~NoWindow(c)
    BY <2>1 DEF NoWindow
  <2> QED
    BY <1>1, <1>6, <1>7, <2>1, <2>3, <2>4 DEF FD!Drop, Sent, Statuses
<1> QED
  BY <1>8, <1>9

\* A frame that enters its queue is what it was: not latched yet.
LEMMA ImportRefines ==
  ASSUME IInv, IInv', NEW c \in DOMAIN frames, ImportSignalled(c) \/ ImportFenced(c)
  PROVE  UNCHANGED FD!vars
<1>1. /\ UNCHANGED <<frames, incoming, windows, done, held, locked>>
      /\ queue' = [queue EXCEPT ![Win(c)] = @ \cup {c}]
      /\ c \in batch /\ batch' = batch \ {c} /\ Win(c) \in wins
  BY DEF ImportSignalled, ImportFenced, Imports, InTurn, Took
<1>2. c \notin Imported
  BY <1>1, FrameNumbers DEF IInv, Queues, Numbered
<1>3. \A d \in DOMAIN frames :
        d \in queue'[Win(d)] <=> d \in queue[Win(d)] \/ d = c
  <2> SUFFICES ASSUME NEW d \in DOMAIN frames, NEW v \in Wins, v = Win(d)
               PROVE  d \in queue'[v] <=> d \in queue[v] \/ d = c
    BY FrameNumbers DEF IInv
  <2>1. queue'[v] = IF v = Win(c) THEN queue[v] \cup {c} ELSE queue[v]
    BY <1>1 DEF IInv, TypeOK
  <2> QED
    BY <2>1
<1>4. ASSUME NEW d \in DOMAIN frames
      PROVE  (Latched(d)' <=> Latched(d)) /\ (Waits(d)' <=> Waits(d))
  <2>1. CASE d = c
    BY <1>1, <1>2, <1>3, <2>1 DEF Latched, Waits, Win, Imported
  <2>2. CASE d # c
    BY <1>1, <1>3, <2>2 DEF Latched, Waits, Win, windows
  <2> QED
    BY <2>1, <2>2
<1>5. UNCHANGED <<Sent, Statuses>>
  BY <1>1, <1>4, StatusSame
<1> QED
  BY <1>1, <1>5 DEF FD!vars, Sent, Statuses, windows

\* The end of a pass shows what it showed, or the newest latched frame of the
\* window that gets the focus.
LEMMA PassEndRefines ==
  ASSUME IInv, IInv', PassEnd
  PROVE  FD!Free \/ \E c \in DOMAIN frames : FD!Show(c)
<1>1. /\ UNCHANGED <<frames, incoming, batch, windows, queue, done>> /\ Unlocked
  BY DEF PassEnd
<1>2. UNCHANGED <<Sent, Statuses>>
  BY <1>1, StatusSame DEF Latched, Waits, Win, windows
<1>3. FD!Returns
  BY <1>1, UnlockedReturns
<1>4. CASE held' = held
  BY <1>1, <1>2, <1>3, <1>4 DEF FD!Free, Sent, Statuses, windows
<1>5. CASE held' # held
  <2>1. PICK w \in wins : held' = HeldFor(w)
    BY <1>5 DEF PassEnd
  <2>2. queue[w] \cap done # {}
    BY <1>5, <2>1 DEF HeldFor
  <2>3. PICK x \in queue[w] \cap done : TRUE
    BY <2>2
  <2>4. w \in Wins
    BY DEF IInv, TypeOK
  <2>5. \A d \in queue[w] \cap done : d <= x
    BY <2>4 DEF IInv, Queues, DoneFirst
  <2>6. HeldFor(w) \in queue[w] \cap done
    BY <2>2, <2>3, <2>5 DEF HeldFor
  <2>7. held' \in DOMAIN frames /\ Latched(held')
    BY <2>1, <2>4, <2>6 DEF Latched, IInv, TypeOK, Queues, Owned
  <2>8. Statuses[held'] = "latched"
    BY <2>7, StatusesNow DEF StatusesTold, IInv, Statuses
  <2>9. FD!Show(held')
    BY <1>1, <1>2, <1>3, <2>8 DEF FD!Show, Sent, Statuses, windows
  <2> QED
    BY <2>7, <2>9
<1> QED
  BY <1>4, <1>5

LEMMA FlushRefines ==
  ASSUME IInv, IInv', FlushFrameDone
  PROVE  FD!Answer
<1>1. /\ UNCHANGED <<frames, incoming, batch, wins, queue, done, held, locked>>
      /\ received' = received \ Answered /\ owed' = {c \in owed : Win(c) \notin Answered}
  BY DEF FlushFrameDone, StillReceived, shown
<1>2. UNCHANGED <<Sent, Statuses>>
  BY <1>1, StatusSame DEF Latched, Waits, Win
<1>3. received \ received' = Answered
  BY <1>1 DEF Answered
<1>4. owed' = {c \in owed : Sent[c] \notin received \ received'}
  BY <1>1, <1>3 DEF Sent, IInv, TypeOK
<1> QED
  BY <1>1, <1>2, <1>4 DEF FD!Answer, Sent, Statuses

\* Steps of the pass alone.
LEMMA HiddenStep ==
  ASSUME IInv, IInv', UNCHANGED <<frames, wins, owed, received, queue, done, held, locked>>,
         incoming' \cup batch' = incoming \cup batch
  PROVE  UNCHANGED FD!vars
<1>1. UNCHANGED <<Sent, Statuses>>
  BY StatusSame DEF Latched, Waits, Win
<1> QED
  BY <1>1 DEF FD!vars, Sent, Statuses

LEMMA RefinedStep ==
  ASSUME IInv, IInv', Once, [Next]_vars
  PROVE  [FD!Next]_(FD!vars)
<1> USE DEF FD!Next
<1>1. DOMAIN Sent = DOMAIN frames
  BY DEF Sent
<1>2. CASE UNCHANGED vars
  BY <1>2, HiddenStep DEF vars, windows, pass, shown
<1>3. CASE Next
  <2>1. ASSUME NEW w \in Wins, Commit(w) PROVE FD!Next
    BY <2>1, SendStep
  <2>2. ASSUME NEW w \in Wins, DestroyWin(w) PROVE FD!Next
    BY <2>2, CloseStep
  <2>3. ASSUME NEW c \in DOMAIN frames, OnPollIn(c) PROVE FD!Next
    BY <2>3, FreeStep DEF OnPollIn, pass, shown
  <2>4. ASSUME NEW vblank \in BOOLEAN, PassBegin(vblank) PROVE UNCHANGED FD!vars
    BY <2>4, HiddenStep DEF PassBegin, shown
  <2>5. ASSUME Postpone(Head(list)) \/ Forget(Head(list)) PROVE UNCHANGED FD!vars
    BY <2>5, HiddenStep DEF Postpone, Forget, windows, pass, shown
  <2>6. ASSUME loop.pc = "done", list # <<>>, Latch(Head(list)) PROVE FD!Next
    <3> PICK c : c = Head(list)
      OBVIOUS
    <3>1. Latch(c) => c \in DOMAIN frames /\ FD!Latch(c)
      BY <2>6, LatchRefines
    <3>2. Latch(Head(list)) => Latch(c)
      OBVIOUS
    <3> QED
      BY <1>1, <2>6, <3>1, <3>2 DEF Sent
  <2>7. CASE FlushFrameDone
    BY <2>7, FlushRefines
  <2>8. CASE Retrieve
    <3>1. batch = {}
      BY <2>8 DEF Retrieve, Once
    <3> QED
      BY <2>8, <3>1, HiddenStep DEF Retrieve, windows, shown
  <2>9. CASE PassEnd
    BY <1>1, <2>9, PassEndRefines DEF Sent
  <2>10. ASSUME NEW c \in DOMAIN frames, NoWindow(c) \/ Discard(c) \/ ImportFails(c)
         PROVE  FD!Next
    BY <1>1, <2>10, RefusalRefines DEF Sent
  <2>11. ASSUME NEW c \in DOMAIN frames, ImportSignalled(c) \/ ImportFenced(c)
         PROVE  UNCHANGED FD!vars
    BY <2>11, ImportRefines
  <2> QED
    BY <1>3, <2>1, <2>2, <2>3, <2>4, <2>5, <2>6, <2>7, <2>8, <2>9, <2>10, <2>11, Steps
<1> QED
  BY <1>2, <1>3

\* The commit queue, its fences, its lists and the passes of the compositor
\* implement what FrameDelivery promises clients, for any windows and frames.
THEOREM Implements == Spec => Delivers
<1>1. Init => FD!Init
  <2> SUFFICES ASSUME Init PROVE FD!Init
    OBVIOUS
  <2>1. DOMAIN frames = {}
    BY DEF Init
  <2>2. Sent = <<>> /\ Statuses = <<>>
    BY <2>1 DEF Sent, Statuses
  <2> QED
    BY <2>2 DEF Init, FD!Init, Sent, Statuses
<1>2. IInv /\ IInv' /\ Once /\ [Next]_vars => [FD!Next]_(FD!vars)
  BY RefinedStep
<1> QED
  BY <1>1, <1>2, Inductive, ReportedOnce, PTL DEF Spec, Delivers, FD!Spec
=============================================================================
