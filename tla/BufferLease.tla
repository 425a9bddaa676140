---------------------------- MODULE BufferLease ----------------------------
(***************************************************************************)
(* How long a client's buffer is kept: the reference counts of its texture *)
(* and of its framebuffer (src/rc.h, src/rendervulkan.cpp,                 *)
(* src/backend.cpp), the lease these take on the buffer (a wlr_buffer lock *)
(* with implicit sync, a release point with explicit sync), the lock each  *)
(* commit_t holds (src/commit.cpp) and the memo that drops the texture     *)
(* when the buffer is destroyed (src/BufferMemo.cpp).                      *)
(*                                                                         *)
(* One buffer and its framebuffer are modelled, committed several times.   *)
(* References are dropped by three threads: the compositor, the image      *)
(* waiter (perhaps the last one to hold a commit) and the thread that      *)
(* handles page flips.  The steps of a DecRef are steps of their own, for  *)
(* nothing but the counters is atomic in the code.  A release point has a  *)
(* second owner until the list of retrieve_commits is cleared              *)
(* (src/wlserver.cpp).                                                     *)
(***************************************************************************)
EXTENDS Integers, FiniteSets

CONSTANTS
  Concurrent,  \* what a client may use whose buffers' DecRefs may interleave
  MaxCommits   \* bound: commits of the buffer

Kinds == {"implicit", "explicit"}

ASSUME LeaseAssumption ==
  Concurrent \subseteq SUBSET Kinds /\ MaxCommits \in Nat \ {0}

VARIABLES
  use,        \* what the client uses, and whether DecRefs are serialised
  kind,       \* the kind of each commit so far
  incoming,   \* commits not yet imported
  listed,     \* entries of the list that retrieve_commits keeps until its next call
  holders,    \* Rc<commit_t>: queue and held commit, m_AddedWaitables
  sampled,    \* commits whose vulkanTex is the client's texture
  importing,  \* the commit being imported, 0 if none
  set,        \* commits for which SetReleasePoint or SetBuffer was called
  locked,     \* commits that hold a lock of the wlr_buffer
  fbLocks,    \* locks of it that the framebuffer took
  tex, refs,  \* public references of the texture, of the framebuffer
  leased,     \* m_pClientBuffer is set
  point,      \* m_pReleasePoint: the commit whose point it is, 0 if none
  signalled,  \* commits whose release point has been signalled
  late,       \* history: the point was put back when no DecRef was left to take it
  torn,       \* history: an older point was put back over the newest commit's
  copying,    \* a GPU copy of the texture has been submitted
  flip,       \* a flip is pending (the compositor waits in Commit)
  queued, visible,  \* the framebuffer is in m_QueuedFbIds, m_VisibleFbIds
  thread,     \* where each thread is in a DecRef, and its local variables
  dropped, destroyed  \* the client destroyed its wl_buffer; the destroy event

client == <<use, kind, incoming, listed, dropped>>
commits == <<holders, sampled, importing, set>>
lease == <<fbLocks, leased, point, signalled, late, torn>>
counts == <<tex, refs>>
gpu == <<copying>>
kms == <<flip, queued, visible>>
vars == <<client, commits, locked, lease, counts, gpu, kms, thread, destroyed>>

Ids == 1..MaxCommits
Threads == {"comp", "img", "kms"}
Sent == DOMAIN kind
Explicit == {k \in Sent : kind[k] = "explicit"}
Last == CHOOSE k \in set : \A j \in set : j <= k

Idle == [at |-> "idle", buf |-> FALSE, point |-> 0, left |-> 0, commit |-> 0]

\* Types, and that a point is not signalled while the list has it.
TypeOK ==
  /\ use \in [kinds : SUBSET Kinds, serial : BOOLEAN]
  /\ \E n \in 0..MaxCommits : kind \in [1..n -> Kinds]
  /\ incoming \subseteq Sent /\ listed \subseteq Sent /\ sampled \subseteq Sent
  /\ holders \in [Ids -> SUBSET {"comp", "img"}]
  /\ importing \in {0} \cup Sent /\ set \subseteq Sent /\ locked \subseteq Sent
  /\ fbLocks \in Int /\ tex \in Nat /\ refs \in Nat
  /\ leased \in BOOLEAN /\ point \in {0} \cup Sent
  /\ signalled \subseteq Sent \ listed
  /\ late \in BOOLEAN /\ torn \in BOOLEAN
  /\ copying \in BOOLEAN /\ flip \in BOOLEAN
  /\ queued \in BOOLEAN /\ visible \in BOOLEAN /\ (queued => flip)
  /\ thread \in [Threads -> [at : {"idle", "read", "take", "count", "finish", "unlock"},
                             buf : BOOLEAN, point : {0} \cup Sent, left : Nat,
                             commit : {0} \cup Sent]]
  /\ dropped \in BOOLEAN /\ destroyed \in BOOLEAN

Init ==
  /\ \/ use = [kinds |-> Kinds, serial |-> TRUE]
     \/ \E ks \in Concurrent : use = [kinds |-> ks, serial |-> FALSE]
  /\ kind = <<>> /\ incoming = {} /\ listed = {}
  /\ sampled = {} /\ importing = 0 /\ set = {}
  /\ holders = [k \in Ids |-> {}] /\ locked = {}
  /\ fbLocks = 0 /\ tex = 0 /\ refs = 0
  /\ leased = FALSE /\ point = 0 /\ signalled = {} /\ late = FALSE /\ torn = FALSE
  /\ copying = FALSE /\ flip = FALSE /\ queued = FALSE /\ visible = FALSE
  /\ thread = [t \in Threads |-> Idle]
  /\ dropped = FALSE /\ destroyed = FALSE

-----------------------------------------------------------------------------
(* wlroots.                                                                *)

\* The buffer is destroyed once its resource is and nobody holds a lock.
ConsiderDestroy ==
  destroyed' = (destroyed \/ (dropped' /\ locked' = {} /\ fbLocks' = 0))

\* wayland_commit: the queue's entry holds a lock.
ClientCommit ==
  /\ ~dropped /\ Cardinality(Sent) < MaxCommits
  /\ LET k == Cardinality(Sent) + 1
     IN  /\ \E x \in use.kinds : kind' = [j \in 1..k |-> IF j = k THEN x ELSE kind[j]]
         /\ incoming' = incoming \cup {k}
         /\ locked' = locked \cup {k}
  /\ UNCHANGED <<use, listed, dropped, commits, lease, counts, gpu, kms, thread, destroyed>>

ClientDestroys ==
  /\ ~dropped /\ dropped' = TRUE
  /\ UNCHANGED <<use, kind, incoming, listed, commits, locked, lease, counts, gpu, kms,
                 thread>>
  /\ ConsiderDestroy

-----------------------------------------------------------------------------
(* Threads.  A serialised DecRef is finished before another thread goes on. *)

Runs(t) ==
  /\ use.serial => \A u \in Threads \ {t} : thread[u] = Idle
  /\ t = "comp" => ~flip

Free(t) == thread[t] = Idle /\ Runs(t)

\* An owner of these points is gone; the list may be the other.
Signals(S) == signalled' = signalled \cup (S \ ({0} \cup listed))

\* CBaseBackendFb::DecRef: what it reads, what it moves out, the count.
DecRefRead(t) ==
  /\ thread[t].at = "read" /\ Runs(t)
  /\ thread' = [thread EXCEPT ![t].at = "take", ![t].buf = leased]
  /\ UNCHANGED <<client, commits, locked, lease, counts, gpu, kms, destroyed>>

\* Fault: the release point is left where it is.
TakePointNever(t) == thread' = [thread EXCEPT ![t].at = "count"] /\ UNCHANGED <<point, late>>

TakePoint(t) ==
  /\ thread' = [thread EXCEPT ![t].at = "count", ![t].point = point]
  /\ point' = 0 /\ late' = FALSE

DecRefTake(t) ==
  /\ thread[t].at = "take" /\ Runs(t)
  /\ TakePoint(t)
  /\ UNCHANGED <<client, commits, locked, fbLocks, leased, signalled, torn, counts, gpu,
                 kms, destroyed>>

DecRefCount(t) ==
  /\ thread[t].at = "count" /\ Runs(t)
  /\ refs' = refs - 1
  /\ thread' = [thread EXCEPT ![t].at = "finish", ![t].left = refs - 1]
  /\ UNCHANGED <<client, commits, locked, lease, tex, gpu, kms, destroyed>>

\* The commit_t that dropped the texture's last reference has a lock to give back.
AfterDecRef(t) ==
  thread' = [thread EXCEPT ![t] =
    IF thread[t].commit = 0 THEN Idle ELSE [Idle EXCEPT !.at = "unlock",
                                                        !.commit = thread[t].commit]]

\* page_flip_handler goes on only after its references are dropped.
FlipHandled(t) == flip' = (flip /\ t # "kms")

\* A DecRef has yet to come to where it takes the point.
Looks == \/ tex > 0 \/ queued \/ visible
         \/ \E t \in Threads : thread[t].at \in {"read", "take"}

\* Fault: the point is not put back.
PutBackNever(t) == Signals({thread[t].point}) /\ UNCHANGED <<point, late, torn>>

\* A point goes back over whatever is there by now.
PutBack(t) ==
  IF thread[t].point = 0 THEN UNCHANGED <<point, signalled, late, torn>>
  ELSE /\ point' = thread[t].point
       /\ Signals({point})
       /\ late' = ~Looks
       /\ torn' = (torn \/ point > thread[t].point)

\* References are left.
DecRefKeeps(t) ==
  /\ thread[t].at = "finish" /\ thread[t].left > 0 /\ Runs(t)
  /\ PutBack(t)
  /\ AfterDecRef(t) /\ FlipHandled(t)
  /\ UNCHANGED <<client, commits, locked, fbLocks, leased, counts, gpu, queued, visible,
                 destroyed>>

\* Fault: the lock of the last reference is forgotten.
UnleasesNever(t) == FALSE

Unleases(t) == thread[t].buf

\* None is left: the lock goes, and the local point goes out of scope.
DecRefReleases(t) ==
  /\ thread[t].at = "finish" /\ thread[t].left = 0 /\ Runs(t)
  /\ fbLocks' = IF Unleases(t) THEN fbLocks - 1 ELSE fbLocks
  /\ Signals({thread[t].point})
  /\ AfterDecRef(t) /\ FlipHandled(t)
  /\ UNCHANGED <<client, commits, locked, leased, point, late, torn, counts, gpu, queued,
                 visible>>
  /\ ConsiderDestroy

\* ~commit_t, last: wlr_buffer_unlock( buf )
CommitUnlocks(t) ==
  /\ thread[t].at = "unlock" /\ Runs(t)
  /\ locked' = locked \ {thread[t].commit}
  /\ thread' = [thread EXCEPT ![t] = Idle]
  /\ UNCHANGED <<client, commits, lease, counts, gpu, kms>>
  /\ ConsiderDestroy

\* CVulkanTexture::DecRef by thread t, on behalf of commit k (0: of a command
\* buffer): the last one goes on to drop the framebuffer's reference.
DropTexture(t, k) ==
  /\ tex' = tex - 1
  /\ thread' = [thread EXCEPT ![t] =
       IF tex = 1 THEN [Idle EXCEPT !.at = "read", !.commit = k]
       ELSE IF k = 0 THEN Idle
       ELSE [Idle EXCEPT !.at = "unlock", !.commit = k]]

\* Rc<commit_t>::~Rc: the last holder runs ~commit_t, on its own thread.
DropCommit(t, k) ==
  /\ t \in holders[k] /\ Free(t)
  /\ holders' = [holders EXCEPT ![k] = @ \ {t}]
  /\ sampled' = IF holders[k] = {t} THEN sampled \ {k} ELSE sampled
  /\ IF holders[k] # {t} THEN UNCHANGED <<tex, thread>>
     ELSE IF k \in sampled THEN DropTexture(t, k)
     ELSE /\ thread' = [thread EXCEPT ![t] = [Idle EXCEPT !.at = "unlock", !.commit = k]]
          /\ UNCHANGED tex
  /\ UNCHANGED <<client, importing, set, locked, lease, refs, gpu, kms, destroyed>>

-----------------------------------------------------------------------------
(* The compositor's thread.                                                *)

Importing == Free("comp") /\ importing = 0
First(k) == k \in incoming \cap listed /\ \A j \in incoming \cap listed : k <= j

InHand(k) == \E t \in Threads : thread[t].point = k

\* retrieve_commits: the list, all of it handled, is cleared, which drops its points,
\* and takes what has come since; a server that has none of this buffer clears it too.
Retrieve ==
  /\ Importing /\ listed \cap incoming = {}
  /\ \E new \in {{}, incoming} : listed' = new
  /\ signalled' = signalled \cup {k \in listed \cap Explicit : k # point /\ ~InHand(k)}
  /\ UNCHANGED <<use, kind, incoming, dropped, commits, locked, fbLocks, leased, point, late,
                 torn, counts, gpu, kms, thread, destroyed>>

\* update_wayland_res discards the commit, for whatever reason.
Discard(k) ==
  /\ Importing /\ First(k)
  /\ incoming' = incoming \ {k}
  /\ locked' = locked \ {k}
  /\ UNCHANGED <<use, kind, listed, dropped, commits, lease, counts, gpu, kms, thread>>
  /\ ConsiderDestroy

\* RcObject::IncRef returned 0.
FirstRef == refs = 0

\* CVulkanTexture::IncRef and CBaseBackendFb::IncRef
IncRefs ==
  /\ tex' = tex + 1
  /\ refs' = IF tex = 0 THEN refs + 1 ELSE refs
  /\ fbLocks' = IF tex = 0 /\ FirstRef /\ leased THEN fbLocks + 1 ELSE fbLocks

\* import_commit: the memo's texture, or a new one.
ImportCommit(k) ==
  /\ Importing /\ First(k)
  /\ incoming' = incoming \ {k}
  /\ importing' = k
  /\ holders' = [holders EXCEPT ![k] = {"comp"}]
  /\ sampled' = sampled \cup {k}
  /\ IncRefs
  /\ UNCHANGED <<use, kind, listed, dropped, set, locked, leased, point, signalled, late,
                 torn, gpu, kms, thread, destroyed>>

\* CBaseBackendFb::SetReleasePoint, which ends a lease by lock.
SetReleasePoint(k) ==
  /\ point' = k /\ late' = FALSE /\ torn' = FALSE
  /\ Signals({point})
  /\ leased' = (leased /\ refs = 0)
  /\ fbLocks' = IF leased /\ refs > 0 THEN fbLocks - 1 ELSE fbLocks

\* Fault: a framebuffer that is referenced already is not locked.
SetBufferLocksNever == FALSE

SetBufferLocks == refs > 0

\* CBaseBackendFb::SetBuffer
SetBuffer ==
  IF leased THEN UNCHANGED lease
  ELSE /\ leased' = TRUE
       /\ fbLocks' = IF SetBufferLocks THEN fbLocks + 1 ELSE fbLocks
       /\ point' = 0 /\ late' = FALSE /\ torn' = FALSE
       /\ Signals({point})

\* update_wayland_res: the lease is set, and the waiter polls the fence unless it
\* is known to be signalled.
SetLease ==
  /\ Free("comp") /\ importing # 0
  /\ set' = set \cup {importing}
  /\ IF kind[importing] = "explicit" THEN SetReleasePoint(importing) ELSE SetBuffer
  /\ \E hs \in {{"comp"}, {"comp", "img"}} : holders' = [holders EXCEPT ![importing] = hs]
  /\ importing' = 0
  /\ UNCHANGED <<client, sampled, locked, counts, gpu, kms, thread>>
  /\ ConsiderDestroy

\* A commit is painted while the queue or g_HeldCommits has it.
Painted(k) == "comp" \in holders[k] /\ k \in sampled /\ k \in set

\* stage_non_device_local_base_imports: the command buffer takes a reference and
\* the commit's goes to the copy.
Stage(k) ==
  /\ Importing /\ Painted(k) /\ ~copying
  /\ copying' = TRUE
  /\ sampled' = sampled \ {k}
  /\ UNCHANGED <<client, holders, importing, set, locked, lease, counts, kms, thread,
                 destroyed>>

\* CVulkanDevice::garbageCollect, once the GPU has finished.
Retire ==
  /\ Importing /\ copying
  /\ copying' = FALSE
  /\ DropTexture("comp", 0)
  /\ UNCHANGED <<client, commits, locked, lease, refs, kms, destroyed>>

\* drm_prepare_liftoff and CDRMBackend::Commit: a frame with this framebuffer, or
\* one without it, is given to the kernel.
ScanOut(k) ==
  /\ Importing /\ Painted(k)
  /\ refs' = refs + 1
  /\ queued' = TRUE /\ flip' = TRUE
  /\ UNCHANGED <<client, commits, locked, lease, tex, gpu, visible, thread, destroyed>>

ScanOutOther ==
  /\ Importing /\ visible
  /\ flip' = TRUE
  /\ UNCHANGED <<client, commits, locked, lease, counts, gpu, queued, visible, thread,
                 destroyed>>

Compositor ==
  \/ \E k \in Sent : \/ Discard(k) \/ ImportCommit(k) \/ Stage(k) \/ ScanOut(k)
                     \/ (Importing /\ DropCommit("comp", k))
  \/ Retrieve \/ SetLease \/ Retire \/ ScanOutOther

-----------------------------------------------------------------------------
(* The other threads.                                                      *)

\* CAsyncWaiter::WaiterThreadFunc drops what was removed.
WaiterErases == \E k \in Sent : DropCommit("img", k)

\* page_flip_handler: what was visible is dropped.
PageFlip ==
  /\ flip /\ Free("kms")
  /\ visible' = queued /\ queued' = FALSE
  /\ IF visible
     THEN /\ thread' = [thread EXCEPT !["kms"] = [Idle EXCEPT !.at = "read"]]
          /\ UNCHANGED flip
     ELSE /\ flip' = FALSE
          /\ UNCHANGED thread
  /\ UNCHANGED <<client, commits, locked, lease, counts, gpu, destroyed>>

DecRef(t) ==
  \/ DecRefRead(t) \/ DecRefTake(t) \/ DecRefCount(t)
  \/ DecRefKeeps(t) \/ DecRefReleases(t) \/ CommitUnlocks(t)

Next ==
  \/ ClientCommit \/ ClientDestroys
  \/ Compositor \/ WaiterErases \/ PageFlip
  \/ \E t \in Threads : DecRef(t)

Spec == Init /\ [][Next]_vars

\* The kernel reports flips, the GPU finishes, threads run, every pass retrieves what
\* has come, and the client's window goes on to other buffers, so that every frame is
\* superseded.
Fairness ==
  /\ \A k \in Ids : WF_vars(ImportCommit(k) \/ Discard(k)) /\ SF_vars(DropCommit("comp", k))
  /\ SF_vars(Retrieve) /\ WF_vars(SetLease) /\ SF_vars(Retire) /\ SF_vars(ScanOutOther)
  /\ SF_vars(WaiterErases) /\ WF_vars(PageFlip)
  /\ \A t \in Threads : WF_vars(DecRef(t))

FairSpec == Spec /\ Fairness

-----------------------------------------------------------------------------
(* Properties.                                                             *)

InUse == visible \/ queued \/ copying \/ sampled \cap set # {}

\* The client has been told that the buffer is free: by the point of the newest commit
\* if that has one, by wl_buffer.release otherwise.
Told ==
  IF kind[Last] = "explicit" THEN Last \in signalled
  ELSE locked = {} /\ fbLocks = 0

\* "Rc manages acquire/release of buffer to/from client while imported"
\* (backend.h:361): while the display, a GPU command or a commit uses the buffer its
\* client has not been told that it is free.
HeldUntilReleased == InUse => ~Told

\* The same, unless a DecRef has put an older commit's point back over the newest
\* one's: nothing else gives the buffer back too soon.
HeldWhileUsed == InUse /\ ~torn => ~Told

\* Once the last reference is gone every release point has been signalled (the client
\* buffer "I released that in DecRef", backend.cpp:79), or is signalled when the list
\* is cleared; left behind is at most the one point that was put back too late.
SignalledWhenIdle ==
  refs = 0 /\ (\A t \in Threads : thread[t] = Idle) =>
    \A k \in Explicit \ (incoming \cup listed \cup signalled) : late /\ k = point

\* The destroy event of a buffer finds its texture unreferenced (the assertion of
\* BufferMemo.cpp:34) but for a staged copy of a buffer with a release point, which
\* has no lock, and a framebuffer leased by lock off the screen.
IdleWhenDestroyed ==
  destroyed => (tex > 0 => copying /\ ~leased) /\ (leased => refs = 0)

\* A client that stops committing gets its buffer back, whichever way it is told: the
\* locks go and the points are signalled, but for one that was put back too late.
BufferComesBack ==
  <>[](/\ locked = {} /\ fbLocks = 0
       /\ \A k \in Explicit \ signalled : late /\ k = point)
=============================================================================
