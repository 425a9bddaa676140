------------------------------ MODULE PresentWait ------------------------------
(***************************************************************************)
(* Presentation feedback of the Vulkan-swapchain backends.                 *)
(*                                                                         *)
(* The compositor thread presents: it stamps the present with a tag, puts  *)
(* the tag into a small ring keyed by the present id, counts the present   *)
(* as queued and hands the id to a detached waiter thread.  The waiter     *)
(* blocks in vkWaitForPresentKHR and then publishes every tag at or below  *)
(* the id it waited for into a bounded mailbox which drops its oldest      *)
(* record.  The compositor drains the mailbox once per loop iteration.     *)
(* Re-making the swapchain excludes the waiter with present_wait_lock and  *)
(* retires what is still in the ring.                                      *)
(*                                                                         *)
(* Every step below is what one thread does between two points at which    *)
(* the other may run; a critical section of present_tag_lock or of the     *)
(* mailbox mutex is one step.                                              *)
(***************************************************************************)
EXTENDS Integers, Sequences, FiniteSets

CONSTANTS
  RingSize,       \* k_nPresentWaitTagRing
  MailboxCap,     \* k_nDisplayFeedbackMailboxCapacity
  MaxPresents,    \* bound: calls of vulkan_present_to_window
  MaxTokens,      \* bound: present tokens issued
  MaxSwapchains,  \* bound: swapchains created
  WaitSupport,    \* whether the device has VK_KHR_present_wait: the possible answers
  WaitMayFail     \* vkWaitForPresentKHR may return without completion

ASSUME RingAssumption == RingSize \in Nat \ {0}
ASSUME CapAssumption == MailboxCap \in Nat \ {0}
ASSUME BoundAssumption == /\ MaxPresents \in Nat
                          /\ MaxTokens \in Nat
                          /\ MaxSwapchains \in Nat \ {0}
ASSUME FlagAssumption == /\ WaitSupport \subseteq BOOLEAN
                         /\ WaitMayFail \in BOOLEAN

VARIABLES
  main,        \* the compositor thread: step, tag in hand, count to note, return point
  waiter,      \* the waiter thread: step, present_wait_id, count to note, swapchain
  waitLock,    \* present_wait_lock: "free", "main" or "waiter"
  presentId,   \* s_lastPresentId
  currentId,   \* g_currentPresentWaitId
  slots,       \* g_PresentWaitTags: [id, token], id 0 is a free slot
  counts,      \* m_uQueuedPresents and m_uCompletedPresents
  mailbox,     \* g_displayFeedbackMailbox, oldest first
  tag,         \* g_framegenPresentState: last token, and the pending one (0: none)
  swapchain,   \* g_output.swapChain: generation, last id queued on it, last id shown,
               \* and the device's VK_KHR_present_wait
  hdr,         \* g_output.swapchainHDRMetadata != nullptr
  shutdown,    \* g_bFramegenFeedbackShutdown
  taken,       \* history: the tokens handed to vulkan_present_to_window
  published    \* history: every record published, in order

vars == <<main, waiter, waitLock, presentId, currentId, slots, counts, mailbox,
          tag, swapchain, hdr, shutdown, taken, published>>

SlotIndex == 0 .. RingSize - 1
Tokens == 1 .. MaxTokens
Ids == 1 .. MaxPresents
FreeSlot == [id |-> 0, token |-> 0]
Slot == [id : 0 .. MaxPresents, token : 0 .. MaxTokens]
Feedback == [token : Tokens, id : 0 .. MaxPresents, presented : BOOLEAN, valid : BOOLEAN]

MainSteps == {"idle", "submit", "approx", "approxPublish", "approxDone", "insert",
              "evicted", "queued", "hand", "acquire", "remake", "flush", "flushed",
              "make", "shutFlush", "shutNote", "down"}
WaiterSteps == {"wait", "waiting", "check", "publish", "note", "mark"}

TypeOK ==
  /\ main \in [pc : MainSteps, tag : 0 .. MaxTokens, n : 0 .. RingSize,
               ret : {"submit", "acquire"}]
  /\ waiter \in [pc : WaiterSteps, id : 0 .. MaxPresents, n : 0 .. RingSize,
                 chain : 0 .. MaxSwapchains]
  /\ waitLock \in {"free", "main", "waiter"}
  /\ presentId \in 0 .. MaxPresents
  /\ currentId \in 0 .. MaxPresents
  /\ slots \in [SlotIndex -> Slot]
  /\ counts \in [queued : 0 .. MaxPresents, completed : 0 .. MaxPresents]
  /\ mailbox \in Seq(Feedback) /\ Len(mailbox) <= MailboxCap
  /\ tag \in [last : 0 .. MaxTokens, pending : 0 .. MaxTokens]
  /\ swapchain \in [gen : 1 .. MaxSwapchains, queued : 0 .. MaxPresents,
                    shown : 0 .. MaxPresents, since : 0 .. MaxPresents,
                    waits : BOOLEAN]
  /\ hdr \in BOOLEAN
  /\ shutdown \in BOOLEAN
  /\ taken \subseteq Tokens
  /\ published \in Seq(Feedback)

Init ==
  /\ main = [pc |-> "idle", tag |-> 0, n |-> 0, ret |-> "acquire"]
  /\ waiter = [pc |-> "wait", id |-> 0, n |-> 0, chain |-> 0]
  /\ waitLock = "free"
  /\ presentId = 0
  /\ currentId = 0
  /\ slots = [i \in SlotIndex |-> FreeSlot]
  /\ counts = [queued |-> 0, completed |-> 0]
  /\ mailbox = <<>>
  /\ tag = [last |-> 0, pending |-> 0]
  /\ swapchain \in [gen : {1}, queued : {0}, shown : {0}, since : {0}, waits : WaitSupport]
  /\ hdr = FALSE
  /\ shutdown = FALSE
  /\ taken = {}
  /\ published = <<>>

--------------------------------------------------------------------------------
\* Fault: the mailbox is appended to without a bound.
PutAllUnbounded(recs) == mailbox \o recs

(* vulkan_framegen_publish_present_feedback for each record in turn: append,
   dropping the oldest record of a full mailbox. *)
PutAll(recs) ==
  LET all == mailbox \o recs
      n   == Len(all)
  IN SubSeq(all, IF n > MailboxCap THEN n - MailboxCap + 1 ELSE 1, n)

Publish(recs) ==
  /\ mailbox' = PutAll(recs)
  /\ published' = published \o recs

Record(token, id, presented, valid) ==
  [token |-> token, id |-> id, presented |-> presented, valid |-> valid]

\* The occupied slots at or below an id, and the order the loop visits them in.
Due(upTo) == {i \in SlotIndex : slots[i].id # 0 /\ slots[i].id <= upTo}

Ascending(S) ==
  CHOOSE s \in [1 .. Cardinality(S) -> S] : \A j, k \in DOMAIN s : j < k => s[j] < s[k]

VisitOrder(upTo) == Ascending(Due(upTo))

Cleared(upTo) == [i \in SlotIndex |-> IF i \in Due(upTo) THEN FreeSlot ELSE slots[i]]

Goto(pc) == main' = [main EXCEPT !.pc = pc]

MainOnly == UNCHANGED <<waiter, hdr, shutdown, taken>>

--------------------------------------------------------------------------------
(* The compositor thread. *)

(* vulkan_framegen_begin_present, and framegen_select_present_tag when no tag
   is pending: a fresh token replaces whatever was pending. *)
BeginPresent ==
  /\ main.pc = "idle"
  /\ tag.last < MaxTokens
  /\ tag' = [last |-> tag.last + 1, pending |-> tag.last + 1]
  /\ UNCHANGED <<main, waiter, waitLock, presentId, currentId, slots, counts,
                 mailbox, swapchain, hdr, shutdown, taken, published>>

\* vulkan_present_to_window up to the swapchain: losing HDR metadata re-makes it.
StartPresent ==
  /\ main.pc = "idle"
  /\ presentId < MaxPresents
  /\ presentId' = presentId + 1
  /\ \E metadata \in BOOLEAN :
       /\ hdr' = metadata
       /\ IF hdr /\ ~metadata
          THEN /\ swapchain.gen < MaxSwapchains
               /\ main' = [main EXCEPT !.pc = "remake", !.ret = "submit"]
          ELSE Goto("submit")
  /\ UNCHANGED <<waiter, waitLock, currentId, slots, counts, mailbox, tag,
                 swapchain, shutdown, taken, published>>

\* vulkan_framegen_take_present_tag: the pending token, or a fresh one.
TakenToken == IF tag.pending # 0 THEN tag.pending ELSE tag.last + 1

TakeTag ==
  /\ TakenToken <= MaxTokens
  /\ tag' = [last |-> IF tag.pending # 0 THEN tag.last ELSE tag.last + 1,
             pending |-> 0]
  /\ taken' = taken \cup {TakenToken}

\* Fault: the waiter is told before the tag is stored and the present counted.
PresentHandedEarly ==
  /\ main.pc = "submit"
  /\ swapchain' = [swapchain EXCEPT !.queued = presentId]
  /\ currentId' = presentId
  /\ TakeTag
  /\ main' = [main EXCEPT !.pc = "insert", !.tag = TakenToken]
  /\ UNCHANGED <<waitLock, presentId, slots, counts, mailbox, published>>
  /\ UNCHANGED <<waiter, hdr, shutdown>>

\* The present is accepted by the queue; framegen may be enabled or not.
PresentAccepted ==
  /\ main.pc = "submit"
  /\ swapchain' = [swapchain EXCEPT !.queued = presentId]
  /\ \/ /\ TakeTag
        /\ main' = [main EXCEPT !.pc = IF swapchain.waits THEN "insert" ELSE "approx",
                                !.tag = TakenToken]
     \/ Goto("hand") /\ UNCHANGED <<tag, taken>>
  /\ UNCHANGED <<waitLock, presentId, currentId, slots, counts, mailbox, published>>
  /\ UNCHANGED <<waiter, hdr, shutdown>>

\* vkQueuePresentKHR failed: the tag is retired and the swapchain re-made.
PresentRefused ==
  /\ main.pc = "submit"
  /\ swapchain.gen < MaxSwapchains
  /\ main' = [main EXCEPT !.pc = "remake", !.ret = "acquire"]
  /\ \/ TakeTag /\ Publish(<<Record(TakenToken, 0, FALSE, FALSE)>>)
     \/ UNCHANGED <<tag, taken, mailbox, published>>
  /\ UNCHANGED <<waitLock, presentId, currentId, slots, counts, swapchain>>
  /\ UNCHANGED <<waiter, hdr, shutdown>>

\* Without present_wait the compositor publishes for itself, never with a time.
ApproxQueued ==
  /\ main.pc = "approx"
  /\ Goto("approxPublish")
  /\ counts' = [counts EXCEPT !.queued = @ + 1]
  /\ UNCHANGED <<waitLock, presentId, currentId, slots, mailbox, tag, swapchain, published>>
  /\ MainOnly

ApproxPublish ==
  /\ main.pc = "approxPublish"
  /\ Publish(<<Record(main.tag, presentId, TRUE, FALSE)>>)
  /\ main' = [main EXCEPT !.pc = "approxDone", !.tag = 0]
  /\ UNCHANGED <<waitLock, presentId, currentId, slots, counts, tag, swapchain>>
  /\ MainOnly

ApproxDone ==
  /\ main.pc = "approxDone"
  /\ Goto("hand")
  /\ counts' = [counts EXCEPT !.completed = @ + 1]
  /\ UNCHANGED <<waitLock, presentId, currentId, slots, mailbox, tag, swapchain, published>>
  /\ MainOnly

\* Under present_tag_lock: publish what the ring wrapped onto, store the tag.
InsertTag ==
  /\ main.pc = "insert"
  /\ LET i   == presentId % RingSize
         old == slots[i]
     IN /\ slots' = [slots EXCEPT ![i] = [id |-> presentId, token |-> main.tag]]
        /\ IF old.id # 0
           THEN Publish(<<Record(old.token, old.id, TRUE, FALSE)>>)
           ELSE UNCHANGED <<mailbox, published>>
        /\ main' = [main EXCEPT !.pc = "evicted", !.tag = 0,
                                !.n = IF old.id # 0 THEN 1 ELSE 0]
  /\ UNCHANGED <<waitLock, presentId, currentId, counts, tag, swapchain>>
  /\ MainOnly

\* Fault: an evicted tag is not counted as completed.
NoteEvictedLost ==
  /\ main.pc = "evicted"
  /\ main' = [main EXCEPT !.pc = "queued", !.n = 0]
  /\ UNCHANGED <<counts, waitLock, presentId, currentId, slots, mailbox, tag, swapchain,
                 published>>
  /\ MainOnly

NoteEvicted ==
  /\ main.pc = "evicted"
  /\ counts' = [counts EXCEPT !.completed = @ + main.n]
  /\ main' = [main EXCEPT !.pc = "queued", !.n = 0]
  /\ UNCHANGED <<waitLock, presentId, currentId, slots, mailbox, tag, swapchain, published>>
  /\ MainOnly

NoteQueued ==
  /\ main.pc = "queued"
  /\ counts' = [counts EXCEPT !.queued = @ + 1]
  /\ Goto("hand")
  /\ UNCHANGED <<waitLock, presentId, currentId, slots, mailbox, tag, swapchain, published>>
  /\ MainOnly

\* g_currentPresentWaitId = presentId; notify_all.
HandToWaiter ==
  /\ main.pc = "hand"
  /\ currentId' = presentId
  /\ Goto("acquire")
  /\ UNCHANGED <<waitLock, presentId, slots, counts, mailbox, tag, swapchain, published>>
  /\ MainOnly

\* acquire_next_image, in the loop that re-makes the swapchain until it works.
Acquire ==
  /\ main.pc = "acquire"
  /\ \/ Goto("idle")
     \/ /\ swapchain.gen < MaxSwapchains
        /\ main' = [main EXCEPT !.pc = "remake", !.ret = "acquire"]
  /\ UNCHANGED <<waitLock, presentId, currentId, slots, counts, mailbox, tag,
                 swapchain, published>>
  /\ MainOnly

\* An output mode change re-makes the swapchain between two presents.
ModeChange ==
  /\ main.pc = "idle"
  /\ swapchain.gen < MaxSwapchains
  /\ main' = [main EXCEPT !.pc = "remake", !.ret = "acquire"]
  /\ UNCHANGED <<waitLock, presentId, currentId, slots, counts, mailbox, tag,
                 swapchain, published>>
  /\ MainOnly

\* Fault: the swapchain is re-made without present_wait_lock.
RemakeUnlocked ==
  /\ main.pc = "remake"
  /\ currentId' = 0
  /\ Goto("flush")
  /\ UNCHANGED <<waitLock, presentId, slots, counts, mailbox, tag, swapchain, published>>
  /\ MainOnly

\* vulkan_remake_swapchain: excluded by the waiter, which it then disarms.
RemakeLock ==
  /\ main.pc = "remake"
  /\ waitLock = "free"
  /\ waitLock' = "main"
  /\ currentId' = 0
  /\ Goto("flush")
  /\ UNCHANGED <<presentId, slots, counts, mailbox, tag, swapchain, published>>
  /\ MainOnly

\* framegen_flush_present_wait_tags, under present_tag_lock.
FlushTags ==
  LET idx == VisitOrder(MaxPresents)
  IN /\ slots' = Cleared(MaxPresents)
     /\ main' = [main EXCEPT !.pc = IF main.pc = "flush" THEN "flushed" ELSE "shutNote",
                             !.n = Len(idx)]
     /\ IF shutdown
        THEN UNCHANGED <<mailbox, published>>
        ELSE Publish([k \in 1 .. Len(idx) |-> Record(slots[idx[k]].token, 0, FALSE, FALSE)])

RemakeFlush ==
  /\ main.pc = "flush"
  /\ FlushTags
  /\ UNCHANGED <<waitLock, presentId, currentId, counts, tag, swapchain>>
  /\ MainOnly

RemakeNote ==
  /\ main.pc = "flushed"
  /\ counts' = [counts EXCEPT !.completed = @ + main.n]
  /\ main' = [main EXCEPT !.pc = "make", !.n = 0]
  /\ UNCHANGED <<waitLock, presentId, currentId, slots, mailbox, tag, swapchain, published>>
  /\ MainOnly

\* The old swapchain is destroyed, a new one made, the lock released on return.
RemakeMake ==
  /\ main.pc = "make"
  /\ swapchain' = [swapchain EXCEPT
                     !.gen = @ + 1, !.queued = 0, !.shown = 0,
                     !.since = IF main.ret = "submit" THEN presentId - 1 ELSE presentId]
  /\ waitLock' = "free"
  /\ Goto(main.ret)
  /\ UNCHANGED <<presentId, currentId, slots, counts, mailbox, tag, published>>
  /\ MainOnly

\* vulkan_framegen_drain_present_feedback: takes the whole mailbox.
Drain ==
  /\ main.pc = "idle"
  /\ mailbox # <<>>
  /\ mailbox' = <<>>
  /\ UNCHANGED <<main, waiter, waitLock, presentId, currentId, slots, counts, tag,
                 swapchain, hdr, shutdown, taken, published>>

\* vulkan_framegen_shutdown, step 0: raise the flag, then flush without publishing.
Shutdown ==
  /\ main.pc = "idle"
  /\ shutdown' = TRUE
  /\ Goto("shutFlush")
  /\ UNCHANGED <<waiter, waitLock, presentId, currentId, slots, counts, mailbox, tag,
                 swapchain, hdr, taken, published>>

ShutdownFlush ==
  /\ main.pc = "shutFlush"
  /\ FlushTags
  /\ UNCHANGED <<waitLock, presentId, currentId, counts, tag, swapchain>>
  /\ MainOnly

ShutdownNote ==
  /\ main.pc = "shutNote"
  /\ counts' = [counts EXCEPT !.completed = @ + main.n]
  /\ main' = [main EXCEPT !.pc = "down", !.n = 0]
  /\ UNCHANGED <<waitLock, presentId, currentId, slots, mailbox, tag, swapchain, published>>
  /\ MainOnly

--------------------------------------------------------------------------------
(* present_wait_thread_func *)
WaiterOnly == UNCHANGED <<main, presentId, currentId, tag, swapchain, hdr, shutdown, taken>>

\* atomic wait returns on a changed value; then lock and load.
WaiterWake ==
  /\ waiter.pc = "wait"
  /\ currentId # waiter.id
  /\ waitLock = "free"
  /\ IF currentId # 0
     THEN /\ waitLock' = "waiter"
          /\ waiter' = [waiter EXCEPT !.pc = "waiting", !.id = currentId,
                                      !.chain = swapchain.gen]
     ELSE /\ waiter' = [waiter EXCEPT !.id = 0]
          /\ UNCHANGED waitLock
  /\ UNCHANGED <<slots, counts, mailbox, published>>
  /\ WaiterOnly

\* WaitForPresentKHR returns: the present completed, or the result is ignored.
WaiterReturns ==
  /\ waiter.pc = "waiting"
  /\ swapchain.shown >= waiter.id \/ WaitMayFail \/ ~swapchain.waits
  /\ waiter' = [waiter EXCEPT !.pc = "check"]
  /\ UNCHANGED <<waitLock, slots, counts, mailbox, published>>
  /\ WaiterOnly

\* framegen_publish_present_wait_tags: the early return on shutdown.
WaiterCheck ==
  /\ waiter.pc = "check"
  /\ waiter' = [waiter EXCEPT !.pc = IF shutdown THEN "mark" ELSE "publish"]
  /\ UNCHANGED <<waitLock, slots, counts, mailbox, published>>
  /\ WaiterOnly

\* ... and the loop under present_tag_lock.
WaiterPublish ==
  /\ waiter.pc = "publish"
  /\ LET idx == VisitOrder(waiter.id)
     IN /\ slots' = Cleared(waiter.id)
        /\ waiter' = [waiter EXCEPT !.pc = "note", !.n = Len(idx)]
        /\ Publish([k \in 1 .. Len(idx) |->
                      Record(slots[idx[k]].token, slots[idx[k]].id, TRUE,
                             slots[idx[k]].id = waiter.id)])
  /\ UNCHANGED <<waitLock, counts>>
  /\ WaiterOnly

WaiterNote ==
  /\ waiter.pc = "note"
  /\ counts' = [counts EXCEPT !.completed = @ + waiter.n]
  /\ waiter' = [waiter EXCEPT !.pc = "mark", !.n = 0]
  /\ UNCHANGED <<waitLock, slots, mailbox, published>>
  /\ WaiterOnly

\* MarkVBlank, then the lock is released at the end of the scope.
WaiterMark ==
  /\ waiter.pc = "mark"
  /\ waitLock' = "free"
  /\ waiter' = [waiter EXCEPT !.pc = "wait", !.chain = 0]
  /\ UNCHANGED <<slots, counts, mailbox, published>>
  /\ WaiterOnly

(* The display (external): presents queued on this swapchain get shown, later
   ones possibly in place of earlier ones. *)
DisplayShows ==
  /\ swapchain.shown < swapchain.queued
  /\ main.pc # "make"
  /\ \E id \in swapchain.shown + 1 .. swapchain.queued :
       /\ id > swapchain.since
       /\ swapchain' = [swapchain EXCEPT !.shown = id]
  /\ UNCHANGED <<main, waiter, waitLock, presentId, currentId, slots, counts,
                 mailbox, tag, hdr, shutdown, taken, published>>

--------------------------------------------------------------------------------
InPresent ==
  \/ PresentAccepted \/ PresentRefused
  \/ ApproxQueued \/ ApproxPublish \/ ApproxDone
  \/ InsertTag \/ NoteEvicted \/ NoteQueued \/ HandToWaiter \/ Acquire
  \/ RemakeLock \/ RemakeFlush \/ RemakeNote \/ RemakeMake
  \/ ShutdownFlush \/ ShutdownNote

WaiterStep ==
  \/ WaiterWake \/ WaiterReturns \/ WaiterCheck \/ WaiterPublish
  \/ WaiterNote \/ WaiterMark

Next ==
  \/ BeginPresent \/ StartPresent \/ ModeChange \/ Drain \/ Shutdown
  \/ InPresent \/ WaiterStep \/ DisplayShows

Spec == Init /\ [][Next]_vars

(* A thread inside a call keeps running, and the display shows what was queued;
   nothing says that the compositor ever presents or drains again. *)
Fairness == WF_vars(InPresent) /\ WF_vars(WaiterStep) /\ WF_vars(DisplayShows)
FairSpec == Spec /\ Fairness

--------------------------------------------------------------------------------
(* Properties. *)
Occupied == {i \in SlotIndex : slots[i].id # 0}
RangeOf(seq) == {seq[k] : k \in 1 .. Len(seq)}
PublishedTokens == {r.token : r \in RangeOf(published)}

(* Presents in flight (queued less completed, as unsigned numbers) are exactly the
   occupied slots, up to the counts a thread has in hand: no present leaks one and
   the counters never cross; the paint gate of the compositor loop stays shut while
   the difference is not zero (backend.h:181, steamcompmgr.cpp:9253). *)
InFlightExact ==
  counts.queued + (IF main.pc \in {"evicted", "queued"} THEN 1 ELSE 0) =
    counts.completed + Cardinality(Occupied) + main.n + waiter.n
      + (IF main.pc \in {"approxPublish", "approxDone"} THEN 1 ELSE 0)

(* The waiter never waits on a swapchain that has been destroyed under it
   (present_wait_lock, rendervulkan.cpp:4445, 4864). *)
WaiterOnLiveSwapchain ==
  waiter.pc # "wait" => waitLock = "waiter" /\ waiter.chain = swapchain.gen

(* Every tag is eventually reported to the compositor, unless it shuts down:
   a present is never forgotten by the waiter (a lost wakeup, an id handed over
   before its tag is stored). *)
TagsRetired ==
  \A t \in Tokens : t \in taken ~> (t \in PublishedTokens \/ shutdown)
================================================================================
