---------------------------- MODULE CommitQueue ----------------------------
(***************************************************************************)
(* How a client's frame is latched: the Wayland server's thread queues     *)
(* what a surface commits (src/wlserver.cpp), the compositor thread        *)
(* imports it and gives its fence to the image waiter's thread, which      *)
(* reports finished frames in a done list (src/commit.cpp), and a later    *)
(* pass of the compositor latches them, answers frame callbacks and drops  *)
(* what they supersede (src/steamcompmgr.cpp).                             *)
(*                                                                         *)
(* One done list is modelled, an Xwayland server's or that of all XDG      *)
(* windows (Xdg), at a fixed refresh.  Frames are numbered as committed,   *)
(* which is how commitIDs grow, so a commit queue is the set of its frames *)
(* and its order that of their numbers.  Time counts vblanks.              *)
(***************************************************************************)
EXTENDS Integers, Sequences, SequencesExt

CONSTANTS
  Wins,        \* the windows
  NoWin,       \* no window has focus
  Xdg,         \* the XDG windows' list, rather than an Xwayland server's
  Kinds,       \* the kinds of frame that clients commit
  Timed,       \* the kinds that may ask for a present time
  Divisor,     \* vblanks per frame of the FPS limiter, 1 without a limit
  MaxCommits,  \* bound: frames the clients commit
  MaxTime      \* bound: vblanks that are told apart

ASSUME QueueAssumption ==
  /\ NoWin \notin Wins /\ Xdg \in BOOLEAN
  /\ Kinds \subseteq {"fifo", "mailbox", "again", "foreign", "broken"}
  /\ Timed \subseteq Kinds \cap {"fifo", "mailbox"}
  /\ Divisor \in Nat \ {0} /\ MaxCommits \in Nat /\ MaxTime \in Nat

VARIABLES
  frames,    \* what was committed, by number
  incoming,  \* wayland_commit_queue, resp. xdg_commit_queue
  locked,    \* frames whose buffer gamescope holds locked
  owed,      \* frames whose frame callback has not been sent
  wins,      \* windows that exist
  queue,     \* commit_queue of each window
  done,      \* frames ever latched (commit_t::done)
  fenced,    \* imported frames the image waiter has not reported
  list,      \* listCommitsDone
  batch,     \* what retrieve_commits returned and is not yet imported
  loop,      \* the pass: pc, vblank, entry_vblank, commits_before_their_time, fifo_win_seqs
  clock,     \* vblank_idx modulo Divisor, and the vblank the pass aims for
  focus, held,         \* focusWindow, g_HeldCommits[HELD_COMMIT_BASE] (0: none)
  unlocked, received,  \* unlockedForFrameCallback, receivedDoneCommit
  order,     \* history: frames in the list, in the order they were reported
  paced      \* history: windows with a FIFO frame since the limiter last opened

windows == <<wins, owed, unlocked, received>>
pass == <<batch, loop, clock>>
shown == <<queue, done, focus, held>>
history == <<order, paced>>
vars == <<frames, incoming, locked, fenced, list, windows, pass, shown, history>>

Ids == 1..MaxCommits
Frames == [win : Wins, kind : Kinds, at : 0..MaxTime, buf : Ids]
Members(s) == {s[i] : i \in DOMAIN s}
Win(c) == frames[c].win
Queued == UNION {queue[w] : w \in Wins}
Fifo(c) == frames[c].kind = "fifo"

\* Types; nothing put off or remembered is left over from one pass to the next
\* (the two static containers of steamcompmgr.cpp:7013-7020).
TypeOK ==
  /\ frames \in Seq(Frames) /\ Len(frames) <= MaxCommits
  /\ locked \subseteq DOMAIN frames
  /\ incoming \subseteq locked /\ batch \subseteq locked
  /\ owed \subseteq DOMAIN frames
  /\ wins \subseteq Wins /\ unlocked \subseteq wins /\ received \subseteq wins
  /\ queue \in [Wins -> SUBSET DOMAIN frames]
  /\ done \subseteq DOMAIN frames
  /\ fenced \subseteq DOMAIN frames
  /\ list \in Seq(DOMAIN frames)
  /\ loop \in [pc : {"idle", "done", "retrieve", "import"}, vblank : BOOLEAN,
               open : BOOLEAN, keep : Seq(DOMAIN frames), seen : SUBSET Wins]
  /\ loop.pc # "done" => loop.keep = <<>> /\ loop.seen = {}
  /\ clock \in [idx : 0..(Divisor - 1), target : 0..MaxTime]
  /\ focus \in wins \cup {NoWin} /\ held \in {0} \cup done
  /\ paced \subseteq Wins

Init ==
  /\ frames = <<>> /\ incoming = {} /\ locked = {} /\ owed = {}
  /\ wins = Wins /\ queue = [w \in Wins |-> {}] /\ done = {}
  /\ fenced = {} /\ list = <<>> /\ batch = {}
  /\ loop = [pc |-> "idle", vblank |-> FALSE, open |-> FALSE, keep |-> <<>>, seen |-> {}]
  /\ clock = [idx |-> 0, target |-> 0]
  /\ focus = NoWin /\ held = 0 /\ unlocked = {} /\ received = {}
  /\ order = <<>> /\ paced = {}

-----------------------------------------------------------------------------
(* References to a commit_t.  Its destructor unlocks the buffer.           *)

\* Fault: the waiter only borrows the commit.
ReferencedUntracked(c) == c \in queue[Win(c)] \/ c = held

Referenced(c) == c \in queue[Win(c)] \/ c = held \/ c \in fenced

\* ~commit_t: a commit whose last reference this step drops unlocks its buffer.
Unlocked == locked' = {c \in locked : Referenced(c) => Referenced(c)'}

-----------------------------------------------------------------------------
(* Clients, the Wayland server's thread and the image waiter's.            *)

\* The kinds: a frame of a swapchain, FIFO or not; the window's first buffer once
\* more, with no feedback asked; one for another than the window's current surface
\* that is to be ignored; one whose buffer cannot be imported.
BufferOf(w, kind) ==
  IF kind # "again" THEN {Len(frames) + 1}
  ELSE {frames[c].buf : c \in {d \in DOMAIN frames :
                                 Win(d) = w /\ \A e \in 1..(d - 1) : Win(e) # w}}

\* xwayland_surface_commit, PrepareCommit, wayland_commit, wlserver_xdg_commit
Commit(w) ==
  /\ w \in wins /\ Len(frames) < MaxCommits
  /\ \E kind \in Kinds :
       \E at \in IF kind \in Timed THEN 0..MaxTime ELSE {0}, b \in BufferOf(w, kind) :
         frames' = Append(frames, [win |-> w, kind |-> kind, at |-> at, buf |-> b])
  /\ LET c == Len(frames) + 1
     IN  /\ incoming' = incoming \cup {c}
         /\ locked' = locked \cup {c}
         /\ owed' = owed \cup {c}
  /\ UNCHANGED <<fenced, list, wins, unlocked, received, pass, shown, history>>

\* commit_t::Signal: to the end of the done list, whose mutex a pass takes.
Signal(c) ==
  /\ loop.pc # "done"
  /\ list' = Append(list, c)
  /\ order' = Append(order, c)

\* commit_t::OnPollIn, once the client's GPU work has finished, in any order; the
\* waiter then drops its reference, perhaps the last.
OnPollIn(c) ==
  /\ c \in fenced
  /\ fenced' = fenced \ {c}
  /\ Signal(c)
  /\ UNCHANGED <<frames, incoming, windows, pass, shown, paced>>
  /\ Unlocked

-----------------------------------------------------------------------------
(* The compositor's pass: the done list.                                   *)

\* handle_done_commits_xwayland / _xdg begin: the list's mutex is taken.  At a
\* vblank the frame callbacks were unlocked first (steamcompmgr_latch_frame_done)
\* and the limiter may be closed (steamcompmgr_should_vblank_window).
PassBegin(vblank) ==
  LET open == vblank /\ clock.idx = 0
  IN  /\ loop.pc = "idle"
      /\ loop' = [pc |-> "done", vblank |-> vblank, open |-> open, keep |-> <<>>,
                  seen |-> {}]
      /\ clock' = IF vblank
                  THEN [idx |-> (clock.idx + 1) % Divisor,
                        target |-> IF clock.target < MaxTime THEN clock.target + 1
                                                             ELSE clock.target]
                  ELSE clock
      /\ unlocked' = IF open THEN wins ELSE unlocked
      /\ paced' = IF open THEN {} ELSE paced
      /\ UNCHANGED <<frames, incoming, locked, fenced, list, wins, owed, received, batch,
                     shown, order>>

\* Fault: a FIFO frame does not wait for the limiter.
WaitsItsTurnUnpaced(c) == Fifo(c) /\ Win(c) \in loop.seen

\* One FIFO frame per window, and only at a vblank the limiter lets through.
WaitsItsTurn(c) == Fifo(c) /\ (~loop.open \/ Win(c) \in loop.seen)

TooEarly(c) == frames[c].at > clock.target

\* Fault: a frame that waits is put before those already kept.
KeepInFront(c) == <<c>> \o loop.keep

Keep(c) == Append(loop.keep, c)

\* The entry goes to commits_before_their_time.  The XDG version then leaves the
\* loop if it was a matter of time, and swaps away the entries after it.
Postpone(c) ==
  /\ WaitsItsTurn(c) \/ TooEarly(c)
  /\ list' = IF Xdg /\ ~WaitsItsTurn(c) THEN <<>> ELSE Tail(list)
  /\ loop' = [loop EXCEPT !.keep = Keep(c)]
  /\ UNCHANGED <<frames, incoming, locked, fenced, windows, batch, clock, shown, history>>

\* Fault: the frames before it stay in the queue.
QueueFromAll(c) == queue

QueueFrom(c) == [queue EXCEPT ![Win(c)] = {d \in @ : d >= c}]

\* The list without the entry of `c'; a frame has at most one.
Reported(c) == RemoveAt(order, CHOOSE i \in DOMAIN order : order[i] = c)

\* handle_done_commit: the frame is done, those before it go, and the focused
\* window's is held for painting.
Latch(c) ==
  LET w == Win(c)
  IN  /\ ~WaitsItsTurn(c) /\ ~TooEarly(c) /\ c \in queue[w]
      /\ list' = Tail(list)
      /\ loop' = [loop EXCEPT !.seen = IF Fifo(c) THEN @ \cup {w} ELSE @]
      /\ done' = done \cup {c}
      /\ queue' = QueueFrom(c)
      /\ held' = IF focus = w THEN c ELSE held
      /\ received' = received \cup {w}
      /\ order' = Reported(c)
      /\ paced' = IF Fifo(c) THEN paced \cup {w} ELSE paced
      /\ UNCHANGED <<frames, incoming, fenced, wins, owed, unlocked, batch, clock, focus>>
      /\ Unlocked

\* A newer frame was latched, or the window has gone.
Forget(c) ==
  /\ ~WaitsItsTurn(c) /\ ~TooEarly(c) /\ c \notin queue[Win(c)]
  /\ list' = Tail(list)
  /\ order' = Reported(c)
  /\ UNCHANGED <<frames, incoming, locked, fenced, windows, pass, shown, paced>>

HandleEntry ==
  /\ loop.pc = "done" /\ list # <<>>
  /\ \/ Postpone(Head(list))
     \/ Latch(Head(list))
     \/ Forget(Head(list))

\* Fault: the static vector is not cleared for the next pass.
ListHandledUncleared ==
  loop' = [pc |-> "retrieve", vblank |-> FALSE, open |-> FALSE, keep |-> loop.keep,
           seen |-> {}]

ListHandled ==
  loop' = [pc |-> "retrieve", vblank |-> FALSE, open |-> FALSE, keep |-> <<>>, seen |-> {}]

\* steamcompmgr_flush_frame_done: windows whose frame callbacks are sent.
Answered == IF loop.vblank THEN unlocked \cap received ELSE {}

\* Fault: receivedDoneCommit is cleared at every vblank.
StillReceivedNone == IF loop.vblank THEN {} ELSE received

StillReceived == received \ Answered

\* The swap that ends handle_done_commits and, at a vblank, the frame callbacks.
FlushFrameDone ==
  /\ loop.pc = "done" /\ list = <<>>
  /\ list' = loop.keep
  /\ ListHandled
  /\ unlocked' = unlocked \ Answered
  /\ received' = StillReceived
  /\ owed' = {c \in owed : Win(c) \notin Answered}
  /\ UNCHANGED <<frames, incoming, locked, fenced, wins, batch, clock, shown, history>>

-----------------------------------------------------------------------------
(* The compositor's pass: new frames.                                      *)

\* retrieve_commits, wlserver_xdg_commit_queue
Retrieve ==
  /\ loop.pc = "retrieve"
  /\ loop' = [loop EXCEPT !.pc = "import"]
  /\ batch' = incoming
  /\ incoming' = {}
  /\ UNCHANGED <<frames, locked, fenced, list, windows, clock, shown, history>>

InTurn(c) == loop.pc = "import" /\ c \in batch /\ \A d \in batch : c <= d

Took(c) == batch' = batch \ {c}

\* No window has this surface.  check_new_xdg_res then does nothing at all, so
\* the buffer stays locked; update_wayland_res unlocks it.
NoWindow(c) ==
  /\ InTurn(c) /\ Win(c) \notin wins
  /\ Took(c)
  /\ locked' = IF Xdg THEN locked ELSE locked \ {c}
  /\ UNCHANGED <<frames, incoming, fenced, list, windows, loop, clock, shown, history>>

\* The buffer is in the window's queue already, and no feedback is asked.
IsDuplicate(c) ==
  frames[c].kind = "again" /\ \E d \in queue[Win(c)] : frames[d].buf = frames[c].buf

\* update_wayland_res: a commit that is ignored counts as complete right away.
Discard(c) ==
  /\ InTurn(c) /\ Win(c) \in wins
  /\ frames[c].kind = "foreign" \/ IsDuplicate(c)
  /\ Took(c)
  /\ locked' = locked \ {c}
  /\ received' = received \cup {Win(c)}
  /\ UNCHANGED <<frames, incoming, fenced, list, wins, owed, unlocked, loop, clock, shown,
                 history>>

\* import_commit returns nullptr: the commit_t is destroyed at once.
ImportFails(c) ==
  /\ InTurn(c) /\ Win(c) \in wins /\ frames[c].kind = "broken"
  /\ Took(c)
  /\ locked' = locked \ {c}
  /\ UNCHANGED <<frames, incoming, fenced, list, windows, loop, clock, shown, history>>

Imports(c) ==
  /\ InTurn(c) /\ Win(c) \in wins
  /\ frames[c].kind \notin {"foreign", "broken"} /\ ~IsDuplicate(c)
  /\ Took(c)
  /\ queue' = [queue EXCEPT ![Win(c)] = @ \cup {c}]
  /\ UNCHANGED <<frames, incoming, locked, windows, loop, clock, done, focus, held, paced>>

\* With explicit sync a frame whose acquire point is signalled is reported by this
\* thread itself.
ImportSignalled(c) == Imports(c) /\ Signal(c) /\ UNCHANGED fenced

\* Fault: the fence is set and nobody waits for it.
WaitForNothing(c) == UNCHANGED fenced

\* SetFence and CAsyncWaiter::AddWaitable.
WaitFor(c) == fenced' = fenced \cup {c}

ImportFenced(c) == Imports(c) /\ WaitFor(c) /\ UNCHANGED <<list, order>>

Import(c) ==
  \/ NoWindow(c) \/ Discard(c) \/ ImportFails(c)
  \/ ImportSignalled(c) \/ ImportFenced(c)

-----------------------------------------------------------------------------
(* The compositor's pass: focus.                                           *)

\* Fault: the held commit stays that of the previous focus.
HeldForStale(w) == held

\* get_window_last_done_commit leaves the held commit if there is none.
HeldFor(w) ==
  LET latched == queue[w] \cap done
  IN  IF latched = {} THEN held ELSE CHOOSE c \in latched : \A d \in latched : d <= c

\* determine_and_apply_focus, and the end of the pass.
PassEnd ==
  /\ loop.pc = "import" /\ batch = {}
  /\ loop' = [loop EXCEPT !.pc = "idle"]
  /\ \E w \in wins \cup {NoWin} :
       /\ focus' = w
       /\ held' = IF w \in {focus, NoWin} THEN held ELSE HeldFor(w)
  /\ UNCHANGED <<frames, incoming, fenced, list, windows, batch, clock, queue, done, history>>
  /\ Unlocked

\* destroy_win, finish_destroy_win; steamcompmgr_check_xdg
DestroyWin(w) ==
  /\ loop.pc = "idle" /\ w \in wins
  /\ wins' = wins \ {w}
  /\ queue' = [queue EXCEPT ![w] = {}]
  /\ focus' = IF focus = w THEN NoWin ELSE focus
  /\ unlocked' = unlocked \ {w} /\ received' = received \ {w}
  /\ owed' = {c \in owed : Win(c) # w}
  /\ UNCHANGED <<frames, incoming, fenced, list, pass, done, held, history>>
  /\ Unlocked

Compositor ==
  \/ HandleEntry \/ FlushFrameDone \/ Retrieve \/ PassEnd
  \/ \E c \in DOMAIN frames : Import(c)

Next ==
  \/ \E w \in Wins : Commit(w) \/ DestroyWin(w)
  \/ \E c \in DOMAIN frames : OnPollIn(c)
  \/ \E vblank \in BOOLEAN : PassBegin(vblank)
  \/ Compositor

Spec == Init /\ [][Next]_vars

\* Vblanks recur (module VBlankTimer), a pass runs to its end, and a client's GPU
\* work finishes and is reported: the waiter gets the list's mutex, which the
\* compositor does not hold while it sleeps.
Fairness ==
  /\ SF_vars(PassBegin(TRUE)) /\ WF_vars(Compositor)
  /\ \A c \in Ids : SF_vars(OnPollIn(c))

FairSpec == Spec /\ Fairness

-----------------------------------------------------------------------------
(* Properties.                                                             *)

\* A queued frame is not forgotten: until it is latched the waiter has it, or the
\* done list or what this pass puts off has its entry (what is "not ready to be
\* presented" is kept, steamcompmgr.cpp:7084).
NothingLost ==
  \A w \in wins : \A c \in queue[w] \ done :
    c \in fenced \cup Members(list) \cup Members(loop.keep)

\* No buffer goes back to its client while gamescope waits for its fence, even if
\* the frame was superseded or its window closed.
BufferHeldForFence == fenced \subseteq locked

\* Between two openings of the limiter a window gets at most one FIFO frame,
\* however many passes there are: each is up for its refreshes.
FifoPaced == [][\A c \in done' \ done : Fifo(c) => Win(c) \notin paced]_vars

\* A FIFO frame without a time of its own is not passed over by a FIFO frame that
\* became ready after it.
FifoInOrder ==
  [][\A i, j \in DOMAIN order :
       LET c == order[i]
           d == order[j]
       IN  i < j /\ d \in done' \ done /\ Win(c) = Win(d) /\ Fifo(c) /\ Fifo(d)
             => c \notin queue[Win(c)] \/ frames[c].at > 0]_vars

\* Between passes what is held for painting is the focused window's newest
\* latched frame, whether the frame or the focus came last.
HeldIsNewest ==
  loop.pc = "idle" /\ focus # NoWin =>
    LET latched == queue[focus] \cap done
    IN  latched # {} => held \in latched /\ \A d \in latched : d <= held

-----------------------------------------------------------------------------
(* The refinement.                                                         *)

\* A frame is latched while it is done and queued, and over once it is in no
\* queue or its window is gone.
Status(c) ==
  CASE Win(c) \in wins /\ c \in Queued \cap done -> "latched"
    [] Win(c) \in wins /\ c \in incoming \cup batch \cup (Queued \ done) -> "pending"
    [] OTHER -> "over"

FD == INSTANCE FrameDelivery WITH
  sent <- [c \in DOMAIN frames |-> Win(c)],
  status <- [c \in DOMAIN frames |-> Status(c)],
  open <- wins, shown <- held, kept <- locked, ready <- received

\* Whatever the threads do, in whatever order fences signal and entries are put
\* off, clients see the delivery that FrameDelivery specifies: frames latched in
\* order, never one older than what is shown of its window; no buffer returned
\* that is still to be shown; callbacks for what was latched or discarded.
Delivers == FD!Spec

\* ... and they see it happen: each frame is latched or passed over, each window
\* is answered for what it got (steamcompmgr.cpp:7361-7363), and each buffer
\* returns when its frame is over.
DeliversInTime == FD!Promises
=============================================================================
