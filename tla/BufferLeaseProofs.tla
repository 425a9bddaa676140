-------------------------- MODULE BufferLeaseProofs --------------------------
(***************************************************************************)
(* Proofs about BufferLease for any number of commits.  What concerns      *)
(* release points alone needs no hypothesis.  What concerns locks needs    *)
(* OneKind: a client whose buffers' DecRefs interleave uses one kind of    *)
(* sync, for a DecRef that has read the lease of one kind when the other   *)
(* is set leaks a lock, or gives one back that it does not have.           *)
(***************************************************************************)
EXTENDS BufferLease, FiniteSetTheorems, TLAPS

\* DecRefs interleave only for buffers with one kind of sync.
OneKind == \A ks \in Concurrent : ks \subseteq {"implicit"} \/ ks \subseteq {"explicit"}

\* The same of a state: the lease does not change under a DecRef.
Orderly == use.serial \/ use.kinds \subseteq {"implicit"} \/ use.kinds \subseteq {"explicit"}

\* A framebuffer has one lease at a time, and no lock is given back twice.
OneLease == fbLocks >= 0 /\ (leased => point = 0)

\* t is inside a DecRef, or has a commit's lock to give back.
Busy(t) == thread[t].at # "idle"

\* What the client may use, and that serialised DecRefs are: at most one is open.
OneAtATime ==
  /\ \A k \in Sent : kind[k] \in use.kinds
  /\ use.serial => \A t, u \in Threads : Busy(t) /\ Busy(u) => t = u

\* Commits are listed and imported in order, and what holds one has its texture.
Order ==
  /\ \A k \in incoming : holders[k] = {} /\ k # importing
                         /\ (\A j \in Sent \ incoming : j < k)
                         /\ (k \notin listed => \A j \in incoming \cap listed : j < k)
  /\ \A k \in Sent : holders[k] # {} => k = importing \/ k \in set
  /\ \A k \in Ids \ Sent : holders[k] = {}
  /\ \A k \in sampled : holders[k] # {}
  /\ importing # 0 => /\ importing \in sampled /\ importing \notin set
                      /\ holders[importing] = {"comp"}
                      /\ \A j \in set : j < importing
  /\ \A k \in set : k \notin incoming
  /\ \A t \in Threads : Busy(t) => set # {}
  /\ visible \/ queued \/ copying => set # {}
  /\ set # {} => \E k \in set : \A j \in set : j <= k

\* Each lock of a commit has one owner.
Locks ==
  /\ incoming \subseteq locked
  /\ \A k \in Sent : holders[k] # {} => k \in locked
  /\ \A t \in Threads : LET c == thread[t].commit
                        IN  c # 0 => /\ c \in locked /\ c \notin incoming
                                     /\ holders[c] = {}
                                     /\ \A u \in Threads \ {t} : thread[u].commit # c

One(b) == IF b THEN 1 ELSE 0

\* t has yet to take its reference away, or has to give the lock back.
Holds(t) == One(thread[t].at \in {"read", "take", "count"})
Pending(t) == One(thread[t].at = "finish" /\ thread[t].left = 0 /\ thread[t].buf)

\* The counters count: a texture is referenced by the commits that sample it and
\* by the copy, its framebuffer by the texture, the two lists and the DecRefs that
\* have not counted.
References ==
  /\ tex = Cardinality(sampled) + One(copying)
  /\ refs = One(tex > 0) + One(queued) + One(visible)
            + Holds("comp") + Holds("img") + Holds("kms")

\* The lease is that of the newest commit.
Lease ==
  /\ set = {} => ~leased
  /\ set # {} => (leased <=> kind[Last] = "implicit")

\* Besides the list, a point has one owner: the framebuffer or a DecRef.
Owners ==
  /\ point # 0 => point \in set /\ kind[point] = "explicit"
  /\ \A t \in Threads : thread[t].point # 0 =>
       /\ thread[t].point \in set /\ kind[thread[t].point] = "explicit"
       /\ thread[t].at \in {"count", "finish"}
       /\ thread[t].point # point
       /\ \A u \in Threads \ {t} : thread[u].point # thread[t].point

\* The point of a commit in use has an owner that will not drop it, unless an older
\* one was put back over it.
Unsignalled ==
  /\ importing # 0 => importing \in listed
  /\ signalled \cap (listed \cup incoming) = {}
  /\ \A t \in Threads :
       thread[t].at = "finish" /\ thread[t].left = 0 /\ thread[t].point # 0
         /\ thread[t].point = Last => ~InUse
  /\ InUse /\ ~torn /\ kind[Last] = "explicit" =>
       Last \notin signalled /\ (point = Last \/ InHand(Last))

\* A point that is not signalled is somewhere, and a DecRef will look for it there
\* unless it came late.
Kept ==
  /\ \A k \in Explicit \ (incoming \cup listed \cup signalled) : k = point \/ InHand(k)
  /\ point # 0 /\ ~late => Looks

\* The flip handler drops references while the flip is pending.
Flips ==
  /\ Busy("kms") => flip /\ ~queued
  /\ thread["kms"].commit = 0

\* A DecRef knows which lease it ends, and the framebuffer has a lock for as long as
\* it is leased and referenced, and one for each DecRef that is to give it back.
LockCount ==
  /\ \A t \in Threads : thread[t].at \in {"take", "count"} => thread[t].buf = leased
  /\ leased => point = 0 /\ \A t \in Threads : thread[t].point = 0
  /\ fbLocks = One(leased /\ refs > 0)
               + Pending("comp") + Pending("img") + Pending("kms")

\* Nothing brings a buffer back once it is destroyed.
Gone == destroyed => dropped /\ locked = {} /\ fbLocks = 0

\* The inductive invariant.
IInv == /\ TypeOK /\ OneAtATime /\ Order /\ Locks /\ References
        /\ Lease /\ Owners /\ Unsignalled /\ Kept /\ Flips
        /\ (Orderly => LockCount /\ Gone)

Steps == {"read", "take", "count", "finish", "unlock"}
Thread == [at : {"idle"} \cup Steps, buf : BOOLEAN, point : {0} \cup Sent, left : Nat,
           commit : {0} \cup Sent]

LEMMA ThreadType == TypeOK <=> TypeOK /\ thread \in [Threads -> Thread]
BY DEF TypeOK, Thread, Steps

LEMMA Numbers ==
  ASSUME TypeOK
  PROVE  Sent \subseteq Nat /\ 0 \notin Sent
BY LeaseAssumption DEF TypeOK, Sent

LEMMA IdleFields ==
  /\ Idle.at = "idle" /\ Idle.buf = FALSE /\ Idle.point = 0 /\ Idle.left = 0
  /\ Idle.commit = 0
BY DEF Idle

LEMMA Newest ==
  ASSUME TypeOK, Order, set # {}
  PROVE  Last \in set /\ \A j \in set : j <= Last
<1>1. PICK k \in set : \A j \in set : j <= k
  BY DEF Order
<1> QED
  BY <1>1 DEF Last

\* A step of t inside its DecRef that neither commits nor paints.
Going(t) ==
  /\ Busy(t) /\ \A u \in Threads \ {t} : thread'[u] = thread[u]
  /\ thread' \in [Threads -> Thread]
  /\ UNCHANGED <<client, commits, gpu, queued, visible>>

LEMMA GoingSame ==
  ASSUME NEW t \in Threads, Going(t)
  PROVE  /\ Last' = Last /\ Explicit' = Explicit /\ Sent' = Sent /\ InUse' = InUse
         /\ Orderly' = Orderly
         /\ UNCHANGED <<use, kind, incoming, listed, dropped, importing, set>>
BY DEF Going, client, commits, gpu, Last, Explicit, Sent, InUse, Orderly

LEMMA GoingOrder ==
  ASSUME IInv, NEW t \in Threads, Going(t)
  PROVE  OneAtATime' /\ Order'
<1>1. OneAtATime'
  BY DEF IInv, OneAtATime, Going, Busy, client, Sent
<1>2. Order'
  BY DEF IInv, Order, Going, Busy, client, commits, gpu, Sent
<1> QED
  BY <1>1, <1>2

LEMMA GoingLocks ==
  ASSUME IInv, NEW t \in Threads, Going(t),
         thread'[t].commit \in {0, thread[t].commit}, locked' = locked
  PROVE  Locks'
BY DEF IInv, Locks, Going, client, commits, Sent

LEMMA GoingFlips ==
  ASSUME IInv, NEW t \in Threads, Going(t),
         thread'[t].commit \in {0, thread[t].commit},
         flip' = flip \/ (t = "kms" /\ thread'[t].at = "idle")
  PROVE  Flips'
BY DEF IInv, Flips, Going, Threads, Busy

\* A step that leaves the lease and the points alone.
LEMMA GoingPoints ==
  ASSUME IInv, NEW t \in Threads, Going(t), lease' = lease, tex' = tex,
         thread'[t].point = thread[t].point,
         thread'[t].point # 0 => thread'[t].at \in {"count", "finish"},
         thread[t].at \in {"read", "take"} /\ point # 0 => thread'[t].at \in {"read", "take"},
         thread'[t].at = "finish" /\ thread'[t].left = 0 /\ thread'[t].point # 0
           /\ thread'[t].point = Last => ~InUse
  PROVE  Lease' /\ Owners' /\ Unsignalled' /\ Kept'
<1>1. /\ Last' = Last /\ Explicit' = Explicit /\ Sent' = Sent /\ InUse' = InUse
      /\ UNCHANGED <<use, kind, incoming, listed, dropped, importing, set>>
  BY GoingSame
<1>2. \A u \in Threads : thread'[u].point = thread[u].point
  BY DEF Going
<1>3. \A k : InHand(k)' <=> InHand(k)
  BY <1>2 DEF InHand
<1>4. Lease' /\ Owners'
  BY <1>1, <1>2 DEF IInv, Lease, Owners, Going, lease
<1>5. Unsignalled'
  BY <1>1, <1>2, <1>3 DEF IInv, Unsignalled, Going, lease
<1>6. Kept'
  <2>1. point # 0 /\ Looks => Looks'
    BY DEF Looks, Going
  <2> QED
    BY <1>1, <1>3, <2>1 DEF IInv, Kept, lease
<1> QED
  BY <1>4, <1>5, <1>6

LEMMA Update ==
  ASSUME NEW t \in Threads, NEW r \in Thread, thread \in [Threads -> Thread],
         thread' = [thread EXCEPT ![t] = r]
  PROVE  /\ thread' \in [Threads -> Thread] /\ thread'[t] = r
         /\ \A u \in Threads \ {t} : thread'[u] = thread[u]
OBVIOUS

LEMMA DecRefReadKeeps ==
  ASSUME IInv, NEW t \in Threads, DecRefRead(t)
  PROVE  IInv'
<1> DEFINE r == [thread[t] EXCEPT !.at = "take", !.buf = leased]
<1>1. /\ thread \in [Threads -> Thread] /\ leased \in BOOLEAN
      /\ thread[t].at = "read" /\ thread' = [thread EXCEPT ![t] = r]
  BY ThreadType DEF DecRefRead, IInv, TypeOK
<1>2. /\ r \in Thread /\ r.at = "take" /\ r.buf = leased /\ r.point = thread[t].point
      /\ r.left = thread[t].left /\ r.commit = thread[t].commit
  BY <1>1 DEF Thread, Steps
<1> HIDE DEF r
<1>3. thread'[t] = r /\ Going(t)
  BY <1>1, <1>2, Update DEF DecRefRead, Going, Busy, client, commits, gpu, kms
<1>4. OneAtATime' /\ Order' /\ Locks' /\ Flips'
  BY <1>2, <1>3, GoingOrder, GoingLocks, GoingFlips DEF DecRefRead, kms
<1>5. TypeOK'
  BY <1>3 DEF IInv, TypeOK, DecRefRead, Going, client, commits, lease, counts, gpu, kms,
              Thread, Steps, Sent
<1>6. References'
  BY <1>1, <1>2, <1>3 DEF IInv, References, DecRefRead, Going, commits, lease, counts, gpu, kms,
              One, Holds, Threads
<1>7. Lease' /\ Owners' /\ Unsignalled' /\ Kept'
  <2>1. thread[t].point = 0
    BY <1>1 DEF IInv, Owners
  <2> QED
    BY <1>2, <1>3, <2>1, GoingPoints DEF DecRefRead, counts
<1>8. Orderly' => LockCount' /\ Gone'
  <2>1. Orderly' = Orderly /\ UNCHANGED <<leased, refs, fbLocks, point, dropped, locked, destroyed>>
    BY <1>3, GoingSame DEF DecRefRead, lease, counts
  <2>2. \A u \in Threads : Pending(u)' = Pending(u) /\ thread'[u].point = thread[u].point
    BY <1>1, <1>2, <1>3 DEF Pending, Going
  <2>3. \A u \in Threads \ {t} : thread'[u] = thread[u]
    BY <1>3 DEF Going
  <2> QED
    <3>1. LockCount => LockCount'
      <4>1. /\ Pending("comp")' = Pending("comp") /\ Pending("img")' = Pending("img")
            /\ Pending("kms")' = Pending("kms")
        BY <2>2 DEF Threads
      <4> QED
        BY <1>2, <1>3, <2>1, <2>2, <2>3, <4>1 DEF LockCount
    <3> QED
      BY <2>1, <3>1 DEF IInv, Gone
<1> QED
  BY <1>4, <1>5, <1>6, <1>7, <1>8 DEF IInv

LEMMA Sampled ==
  ASSUME TypeOK
  PROVE  /\ IsFiniteSet(sampled) /\ Cardinality(sampled) \in Nat
         /\ sampled # {} => Cardinality(sampled) > 0
         /\ \A k \in sampled : Cardinality(sampled \ {k}) = Cardinality(sampled) - 1
         /\ \A k \in Sent \ sampled : Cardinality(sampled \cup {k}) = Cardinality(sampled) + 1
<1>1. PICK n \in 0..MaxCommits : kind \in [1..n -> Kinds]
  BY DEF TypeOK
<1>2. n \in Nat /\ sampled \subseteq 1..n
  BY <1>1, LeaseAssumption DEF TypeOK, Sent
<1>3. IsFiniteSet(1..n)
  BY <1>2, FS_Interval
<1>4. IsFiniteSet(sampled)
  BY <1>2, <1>3, FS_Subset
<1> QED
  BY <1>4, FS_CardinalityType, FS_EmptySet, FS_RemoveElement, FS_AddElement

\* A framebuffer that is used is referenced.
LEMMA UsedReferenced ==
  ASSUME IInv, InUse
  PROVE  refs > 0
<1>1. \A t \in Threads : Holds(t) \in {0, 1}
  BY DEF Holds, One
<1>2. IsFiniteSet(sampled) /\ Cardinality(sampled) \in Nat
      /\ (sampled # {} => Cardinality(sampled) > 0)
  BY Sampled DEF IInv
<1>3. tex > 0 \/ queued \/ visible
  <2>1. copying \/ sampled # {} => Cardinality(sampled) + One(copying) > 0
    BY <1>2 DEF One
  <2> QED
    BY <2>1 DEF IInv, References, InUse
<1>4. Holds("comp") \in {0, 1} /\ Holds("img") \in {0, 1} /\ Holds("kms") \in {0, 1}
  BY <1>1 DEF Threads
<1>5. /\ One(tex > 0) \in {0, 1} /\ One(queued) \in {0, 1} /\ One(visible) \in {0, 1}
      /\ One(tex > 0) + One(queued) + One(visible) > 0
  BY <1>3 DEF One
<1> QED
  BY <1>4, <1>5 DEF IInv, References

LEMMA DecRefTakeKeeps ==
  ASSUME IInv, NEW t \in Threads, DecRefTake(t)
  PROVE  IInv'
<1> DEFINE r == [thread[t] EXCEPT !.at = "count", !.point = point]
<1>1. /\ thread \in [Threads -> Thread] /\ point \in {0} \cup Sent
      /\ thread[t].at = "take" /\ thread' = [thread EXCEPT ![t] = r] /\ point' = 0
      /\ late' = FALSE
      /\ UNCHANGED <<client, commits, locked, fbLocks, leased, signalled, torn, counts, gpu,
                     kms, destroyed>>
  BY ThreadType DEF DecRefTake, TakePoint, IInv, TypeOK
<1>2. /\ r \in Thread /\ r.at = "count" /\ r.buf = thread[t].buf /\ r.point = point
      /\ r.left = thread[t].left /\ r.commit = thread[t].commit
  BY <1>1 DEF Thread, Steps
<1> HIDE DEF r
<1>3. thread'[t] = r /\ Going(t)
  BY <1>1, <1>2, Update DEF DecRefTake, Going, Busy, client, commits, gpu, kms
<1>4. OneAtATime' /\ Order' /\ Locks' /\ Flips'
  BY <1>2, <1>3, GoingOrder, GoingLocks, GoingFlips DEF DecRefTake, kms
<1>5. TypeOK'
  <2>1. Sent' = Sent /\ thread' \in [Threads -> Thread]
    BY <1>3, GoingSame DEF Going
  <2> QED
    BY <1>1, <2>1, ZenonT(60) DEF IInv, TypeOK, client, commits, counts, gpu, kms, Thread, Steps
<1>6. References'
  BY <1>1, <1>2, <1>3 DEF IInv, References, DecRefTake, Going, commits, counts, gpu, kms,
              One, Holds, Threads
<1>7. /\ Last' = Last /\ Explicit' = Explicit /\ InUse' = InUse /\ Orderly' = Orderly
      /\ UNCHANGED <<use, kind, incoming, listed, dropped, importing, set>>
  BY <1>3, GoingSame
<1>8. \A k \in Sent : k = point \/ InHand(k) => InHand(k)'
  <2>1. thread[t].point = 0
    BY <1>1 DEF IInv, Owners
  <2> QED
    BY <1>2, <1>3, <2>1, Numbers DEF InHand, Going, IInv
<1>9. Lease'
  BY <1>1, <1>7 DEF IInv, Lease
<1>10. Owners'
  BY <1>1, <1>2, <1>3, <1>7 DEF IInv, Owners, Going
<1>11. Unsignalled'
  <2>1. InUse => Last \in Sent
    BY Newest DEF IInv, InUse, Order, TypeOK
  <2> QED
    BY <1>1, <1>2, <1>3, <1>7, <1>8, <2>1 DEF IInv, Unsignalled, Going
<1>12. Kept'
  BY <1>1, <1>7, <1>8 DEF IInv, Kept, Explicit
<1>13. Orderly' => LockCount' /\ Gone'
  <2>1. \A u \in Threads : Pending(u)' = Pending(u)
    BY <1>1, <1>2, <1>3 DEF Pending, Going
  <2>2. LockCount => LockCount'
    BY <1>1, <1>2, <1>3, <2>1 DEF LockCount, Going, counts, Threads
  <2> QED
    BY <1>1, <1>7, <2>2 DEF IInv, Gone
<1> QED
  BY <1>4, <1>5, <1>6, <1>9, <1>10, <1>11, <1>12, <1>13 DEF IInv

\* Every reference is counted: an unreferenced framebuffer has no texture.
LEMMA Unreferenced ==
  ASSUME TypeOK, References
  PROVE  /\ tex > 0 => refs > 0
         /\ \A t \in Threads : Holds(t) \in {0, 1} /\ Pending(t) \in {0, 1}
         /\ \A t \in Threads : thread[t].at \in {"read", "take", "count"} => refs > 0
<1>1. \A t \in Threads : Holds(t) \in {0, 1} /\ Pending(t) \in {0, 1}
  BY DEF Holds, Pending, One
<1>2. One(tex > 0) \in {0, 1} /\ One(queued) \in {0, 1} /\ One(visible) \in {0, 1}
  BY DEF One
<1>3. tex > 0 => refs > 0
  BY <1>1, <1>2 DEF References, Threads, One
<1>4. \A t \in Threads : thread[t].at \in {"read", "take", "count"} => refs > 0
  BY <1>1, <1>2 DEF References, Threads, One, Holds
<1> QED
  BY <1>1, <1>3, <1>4

LEMMA DecRefCountKeeps ==
  ASSUME IInv, NEW t \in Threads, DecRefCount(t)
  PROVE  IInv'
<1> DEFINE r == [thread[t] EXCEPT !.at = "finish", !.left = refs - 1]
<1>1. /\ thread \in [Threads -> Thread] /\ refs \in Nat
      /\ thread[t].at = "count" /\ thread' = [thread EXCEPT ![t] = r] /\ refs' = refs - 1
      /\ UNCHANGED <<client, commits, locked, lease, tex, gpu, kms, destroyed>>
  BY ThreadType DEF DecRefCount, IInv, TypeOK
<1>2. refs > 0 /\ refs - 1 \in Nat
  BY <1>1, Unreferenced DEF IInv
<1>3. /\ r \in Thread /\ r.at = "finish" /\ r.buf = thread[t].buf
      /\ r.point = thread[t].point
      /\ r.left = refs - 1 /\ r.commit = thread[t].commit
  BY <1>1, <1>2 DEF Thread, Steps
<1> HIDE DEF r
<1>4. thread'[t] = r /\ Going(t)
  BY <1>1, <1>3, Update DEF DecRefCount, Going, Busy, client, commits, gpu, kms
<1>5. OneAtATime' /\ Order' /\ Locks' /\ Flips'
  BY <1>3, <1>4, GoingOrder, GoingLocks, GoingFlips DEF DecRefCount, kms
<1>6. TypeOK'
  BY <1>1, <1>2, <1>4 DEF IInv, TypeOK, DecRefCount, Going, client, commits, lease, gpu, kms,
              Thread, Steps, Sent
<1>7. References'
  BY <1>1, <1>2, <1>3, <1>4 DEF IInv, References, DecRefCount, Going, commits, lease, gpu,
     kms, One, Holds, Threads
<1>8. Lease' /\ Owners' /\ Unsignalled' /\ Kept'
  <2>1. refs' = 0 => ~InUse'
    <3>1. /\ Holds("comp") \in {0, 1} /\ Holds("img") \in {0, 1} /\ Holds("kms") \in {0, 1}
          /\ Holds("comp") = 1 \/ Holds("img") = 1 \/ Holds("kms") = 1
          /\ One(tex > 0) \in {0, 1} /\ One(queued) \in {0, 1} /\ One(visible) \in {0, 1}
      BY <1>1 DEF Holds, One, Threads
    <3>2. refs = 1 => One(queued) = 0 /\ One(visible) = 0 /\ One(tex > 0) = 0
      BY <3>1 DEF IInv, References
    <3>3. /\ One(queued) = 0 => ~queued
          /\ One(visible) = 0 => ~visible
          /\ One(tex > 0) = 0 => tex = 0
      BY DEF One, IInv, TypeOK
    <3>4. tex = 0 => ~copying /\ sampled = {}
      BY Sampled DEF IInv, References, One
    <3>5. InUse' = InUse
      BY <1>4, GoingSame
    <3> QED
      BY <1>1, <3>2, <3>3, <3>4, <3>5 DEF InUse
  <2>2. InUse' = InUse
    BY <1>4, GoingSame
  <2> QED
    BY <1>1, <1>3, <1>4, <2>1, <2>2, GoingPoints
<1>9. Orderly' => LockCount' /\ Gone'
  <2>1. Orderly' = Orderly /\ UNCHANGED <<leased, fbLocks, point, dropped, locked, destroyed>>
    BY <1>1, <1>4, GoingSame DEF lease
  <2>2. \A u \in Threads \ {t} : Pending(u)' = Pending(u) /\ thread'[u] = thread[u]
    BY <1>4 DEF Pending, Going
  <2>3. Pending(t) = 0 /\ Pending(t)' = One(refs' = 0 /\ thread[t].buf)
    BY <1>1, <1>3, <1>4 DEF Pending, One
  <2>4. LockCount => LockCount'
    <3>1. LockCount => /\ One(leased /\ refs' > 0) + Pending(t)'
                            = One(leased /\ refs > 0) + Pending(t)
                       /\ thread[t].buf = leased
      BY <1>1, <1>2, <2>3 DEF LockCount, One
    <3>2. /\ \A u \in Threads : Pending(u) \in {0, 1} /\ Pending(u)' \in {0, 1}
          /\ One(leased /\ refs' > 0) \in {0, 1} /\ One(leased /\ refs > 0) \in {0, 1}
      BY DEF Pending, One
    <3> QED
      BY <1>3, <1>4, <2>1, <2>2, <3>1, <3>2 DEF LockCount, Threads
  <2> QED
    BY <2>1, <2>4 DEF IInv, Gone
<1> QED
  BY <1>5, <1>6, <1>7, <1>8, <1>9 DEF IInv

\* What a thread goes on with after its DecRef.
LEMMA Continues ==
  ASSUME TypeOK, NEW t \in Threads, Busy(t), AfterDecRef(t)
  PROVE  /\ thread' \in [Threads -> Thread]
         /\ \A u \in Threads \ {t} : thread'[u] = thread[u]
         /\ thread'[t].at = IF thread[t].commit = 0 THEN "idle" ELSE "unlock"
         /\ thread'[t].buf = FALSE /\ thread'[t].point = 0 /\ thread'[t].left = 0
         /\ thread'[t].commit = thread[t].commit
<1> DEFINE r == IF thread[t].commit = 0 THEN Idle
                ELSE [Idle EXCEPT !.at = "unlock", !.commit = thread[t].commit]
<1>1. thread \in [Threads -> Thread] /\ thread[t].commit \in {0} \cup Sent
  BY ThreadType DEF Thread
<1>2. /\ r \in Thread /\ r.at = IF thread[t].commit = 0 THEN "idle" ELSE "unlock"
      /\ r.buf = FALSE /\ r.point = 0 /\ r.left = 0 /\ r.commit = thread[t].commit
  BY <1>1 DEF Thread, Steps, Idle
<1>3. thread' = [thread EXCEPT ![t] = r]
  BY DEF AfterDecRef
<1> HIDE DEF r
<1> QED
  BY <1>1, <1>2, <1>3, Update

LEMMA DecRefKeepsKeeps ==
  ASSUME IInv, NEW t \in Threads, DecRefKeeps(t)
  PROVE  IInv'
<1>1. /\ thread \in [Threads -> Thread] /\ thread[t].at = "finish" /\ thread[t].left > 0
      /\ AfterDecRef(t) /\ TypeOK /\ Busy(t)
      /\ UNCHANGED <<client, commits, locked, fbLocks, leased, counts, gpu, queued, visible,
                     destroyed>>
  BY ThreadType DEF DecRefKeeps, IInv, Busy
<1>2. /\ thread'[t].at \in {"idle", "unlock"} /\ thread'[t].point = 0
      /\ thread'[t].commit = thread[t].commit
      /\ (t = "kms" => thread'[t].at = "idle") /\ Going(t)
  BY <1>1, Continues DEF DecRefKeeps, Going, client, commits, gpu, IInv, Flips
<1>3. OneAtATime' /\ Order' /\ Locks' /\ Flips'
  BY <1>2, GoingOrder, GoingLocks, GoingFlips DEF DecRefKeeps, FlipHandled, IInv, TypeOK
<1>4. thread[t].point \in {0} \cup Sent /\ thread[t].point \in Nat /\ point \in Nat
  BY <1>1, Numbers DEF Thread, TypeOK
<1>5. IF thread[t].point = 0 THEN UNCHANGED <<point, signalled, late, torn>>
      ELSE /\ point' = thread[t].point
           /\ signalled' = signalled \cup ({point} \ ({0} \cup listed))
           /\ late' = ~Looks
           /\ torn' = (torn \/ point > thread[t].point)
  BY DEF DecRefKeeps, PutBack, Signals
<1>6. /\ Last' = Last /\ Explicit' = Explicit /\ InUse' = InUse /\ Orderly' = Orderly
      /\ Sent' = Sent
      /\ UNCHANGED <<use, kind, incoming, listed, dropped, importing, set>>
  BY <1>2, GoingSame
<1>7. TypeOK'
  <2>1. thread' \in [Threads -> Thread] /\ point' \in {0} \cup Sent
        /\ signalled' \subseteq Sent \ listed
        /\ late' \in BOOLEAN /\ torn' \in BOOLEAN
    <3>1. thread' \in [Threads -> Thread]
      BY <1>2 DEF Going
    <3>2. point' \in {0} \cup Sent /\ signalled' \subseteq Sent \ listed
      BY <1>1, <1>4, <1>5 DEF TypeOK
    <3>3. late' \in BOOLEAN /\ torn' \in BOOLEAN
      BY <1>1, <1>5 DEF TypeOK
    <3> QED
      BY <3>1, <3>2, <3>3
  <2>2. flip' \in BOOLEAN /\ (queued => flip')
    BY <1>1 DEF TypeOK, Flips, IInv, DecRefKeeps, FlipHandled
  <2> QED
    BY <1>1, <1>6, <2>1, <2>2 DEF TypeOK, client, commits, counts, gpu, Thread, Steps
<1>8. References'
  BY <1>1, <1>2 DEF IInv, References, DecRefKeeps, Going, commits, counts, gpu, One, Holds,
     Threads
<1>9. Lease'
  BY <1>1, <1>6 DEF IInv, Lease
<1>10. \A u \in Threads \ {t} : thread'[u] = thread[u]
  BY <1>2 DEF Going
<1>11. Owners'
  BY <1>2, <1>5, <1>6, <1>10 DEF IInv, Owners
<1>12. \A k \in Sent : /\ InHand(k)' => InHand(k)
                       /\ InHand(k) => InHand(k)' \/ k = point'
  BY <1>2, <1>4, <1>5, <1>10, Numbers DEF InHand, IInv
<1>13. Looks' <=> Looks
  BY <1>1, <1>2, <1>10 DEF Looks, counts
<1>14. Unsignalled'
  <2>1. CASE thread[t].point = 0
    BY <1>2, <1>5, <1>6, <1>10, <2>1, <1>12, Newest DEF IInv, Unsignalled, InUse, Order, TypeOK
  <2>2. CASE thread[t].point # 0
    <3>1. /\ thread[t].point \in set /\ thread[t].point # point
          /\ point # 0 => point \in set
      BY <2>2 DEF IInv, Owners
    <3>2. /\ importing' # 0 => importing' \in listed'
          /\ signalled' \cap (listed' \cup incoming') = {}
      <4>1. point \notin incoming
        BY <3>1, Numbers DEF IInv, Order, TypeOK
      <4> QED
        BY <1>5, <1>6, <2>2, <4>1 DEF IInv, Unsignalled
    <3>3. \A u \in Threads :
            thread'[u].at = "finish" /\ thread'[u].left = 0 /\ thread'[u].point # 0
              /\ thread'[u].point = Last' => ~InUse'
      BY <1>2, <1>6, <1>10 DEF IInv, Unsignalled
    <3>4. ASSUME InUse, ~torn', kind[Last] = "explicit"
          PROVE  Last \notin signalled' /\ (point' = Last \/ InHand(Last)')
      <4>1. /\ Last \in set /\ Last \in Sent /\ Last \in Nat
            /\ \A j \in set : j <= Last
        BY <3>1, Newest, Numbers DEF IInv, TypeOK
      <4>2. ~torn /\ ~(point > thread[t].point)
        BY <1>5, <2>2, <3>4
      <4>3. Last \notin signalled /\ (point = Last \/ InHand(Last))
        BY <3>4, <4>2 DEF IInv, Unsignalled
      <4>4. point # Last
        BY <1>4, <3>1, <4>1, <4>2
      <4> QED
        <5>1. Last \notin signalled'
          BY <1>5, <2>2, <4>3, <4>4
        <5>2. point' = Last \/ InHand(Last)'
          BY <1>6, <1>12, <4>1, <4>3, <4>4
        <5> QED
          BY <5>1, <5>2
    <3> QED
      BY <1>6, <3>2, <3>3, <3>4 DEF Unsignalled
  <2> QED
    BY <2>1, <2>2
<1>15. Kept'
  <2>1. \A k \in Explicit' \ (incoming' \cup listed' \cup signalled') : k = point' \/ InHand(k)'
    <3>1. \A k \in Explicit : k \in Sent /\ k # 0
      BY Numbers DEF Explicit, IInv
    <3> QED
      BY <1>5, <1>6, <1>12, <3>1 DEF IInv, Kept
  <2>2. point' # 0 /\ ~late' => Looks'
    BY <1>5, <1>13 DEF IInv, Kept
  <2> QED
    BY <2>1, <2>2 DEF Kept
<1>16. Orderly' => LockCount' /\ Gone'
  <2>1. LockCount => LockCount'
    <3>1. \A u \in Threads : Pending(u)' = Pending(u)
      BY <1>1, <1>2, <1>10 DEF Pending
    <3>2. LockCount /\ leased => point' = 0
      BY <1>5 DEF LockCount
    <3> QED
      BY <1>1, <1>2, <1>10, <3>1, <3>2 DEF LockCount, counts, Threads
  <2> QED
    BY <1>1, <1>6, <2>1 DEF IInv, Gone
<1> QED
  BY <1>3, <1>7, <1>8, <1>9, <1>11, <1>14, <1>15, <1>16 DEF IInv

LEMMA DecRefReleasesKeeps ==
  ASSUME IInv, NEW t \in Threads, DecRefReleases(t)
  PROVE  IInv'
<1>1. /\ thread \in [Threads -> Thread] /\ thread[t].at = "finish" /\ thread[t].left = 0
      /\ AfterDecRef(t) /\ TypeOK /\ Busy(t)
      /\ fbLocks' = IF thread[t].buf THEN fbLocks - 1 ELSE fbLocks
      /\ signalled' = signalled \cup ({thread[t].point} \ ({0} \cup listed))
      /\ UNCHANGED <<client, commits, locked, leased, point, late, torn, counts, gpu, queued,
                     visible>>
  BY ThreadType DEF DecRefReleases, Unleases, IInv, Busy, Signals
<1>2. /\ thread'[t].at \in {"idle", "unlock"} /\ thread'[t].point = 0
      /\ thread'[t].commit = thread[t].commit
      /\ (t = "kms" => thread'[t].at = "idle") /\ Going(t)
  BY <1>1, Continues DEF Going, client, commits, gpu, IInv, Flips
<1>3. OneAtATime' /\ Order' /\ Locks' /\ Flips'
  BY <1>1, <1>2, GoingOrder, GoingLocks, GoingFlips DEF DecRefReleases, FlipHandled, IInv, TypeOK
<1>4. thread[t].point \in {0} \cup Sent /\ thread[t].buf \in BOOLEAN
  BY <1>1 DEF Thread
<1>5. /\ Last' = Last /\ Explicit' = Explicit /\ InUse' = InUse /\ Orderly' = Orderly
      /\ Sent' = Sent
      /\ UNCHANGED <<use, kind, incoming, listed, dropped, importing, set>>
  BY <1>2, GoingSame
<1>6. TypeOK'
  <2>1. thread' \in [Threads -> Thread] /\ signalled' \subseteq Sent \ listed
        /\ fbLocks' \in Int /\ destroyed' \in BOOLEAN
    <3>1. thread' \in [Threads -> Thread]
      BY <1>2 DEF Going
    <3>2. signalled' \subseteq Sent \ listed
      BY <1>1, <1>4 DEF TypeOK
    <3>3. fbLocks' \in Int
      BY <1>1, <1>4 DEF TypeOK
    <3>4. destroyed' \in BOOLEAN
      BY <1>1 DEF DecRefReleases, ConsiderDestroy, TypeOK
    <3> QED
      BY <3>1, <3>2, <3>3, <3>4
  <2>2. flip' \in BOOLEAN /\ (queued => flip')
    BY <1>1 DEF TypeOK, Flips, IInv, DecRefReleases, FlipHandled
  <2> QED
    BY <1>1, <1>5, <2>1, <2>2 DEF TypeOK, client, commits, counts, gpu, Thread, Steps
<1>7. References'
  BY <1>1, <1>2 DEF IInv, References, Going, commits, counts, gpu, One, Holds, Threads
<1>8. Lease'
  BY <1>1, <1>5 DEF IInv, Lease
<1>9. \A u \in Threads \ {t} : thread'[u] = thread[u]
  BY <1>2 DEF Going
<1>10. Owners'
  BY <1>1, <1>2, <1>5, <1>9 DEF IInv, Owners
<1>11. \A k \in Sent : /\ InHand(k)' => InHand(k)
                       /\ InHand(k) /\ k # thread[t].point => InHand(k)'
  BY <1>2, <1>9, Numbers DEF InHand, IInv
<1>12. Unsignalled'
  <2>1. thread[t].point # 0 => thread[t].point \notin incoming
    BY DEF IInv, Owners, Order
  <2>2. signalled' \cap (listed' \cup incoming') = {}
    BY <1>1, <1>5, <2>1 DEF IInv, Unsignalled
  <2>3. ASSUME InUse, ~torn, kind[Last] = "explicit"
        PROVE  Last \notin signalled' /\ (point = Last \/ InHand(Last)')
    <3>1. Last \in Sent /\ Last # 0
      BY <2>3, Newest, Numbers DEF IInv, TypeOK, Order, InUse
    <3>2. thread[t].point # Last
      BY <1>1, <2>3, <3>1 DEF IInv, Unsignalled
    <3> QED
      <4>1. Last \notin signalled'
        BY <1>1, <2>3, <3>2 DEF IInv, Unsignalled
      <4>2. point = Last \/ InHand(Last)
        BY <2>3 DEF IInv, Unsignalled
      <4>3. point = Last \/ InHand(Last)'
        BY <1>5, <1>11, <3>1, <3>2, <4>2
      <4> QED
        BY <4>1, <4>3
  <2>4. \A u \in Threads :
          thread'[u].at = "finish" /\ thread'[u].left = 0 /\ thread'[u].point # 0
            /\ thread'[u].point = Last' => ~InUse'
    BY <1>2, <1>5, <1>9 DEF IInv, Unsignalled
  <2>5. importing' # 0 => importing' \in listed'
    BY <1>5 DEF IInv, Unsignalled
  <2> QED
    BY <1>1, <1>5, <2>2, <2>3, <2>4, <2>5 DEF Unsignalled
<1>13. Kept'
  <2>1. \A k \in Explicit : k \in Sent /\ k # 0
    BY Numbers DEF Explicit, IInv
  <2>2. Looks => Looks'
    BY <1>1, <1>9 DEF Looks, counts
  <2> QED
    BY <1>1, <1>5, <1>11, <2>1, <2>2 DEF IInv, Kept
<1>14. LockCount => LockCount' /\ fbLocks' <= fbLocks /\ fbLocks' >= 0
  <2>1. \A u \in Threads \ {t} : Pending(u)' = Pending(u)
    BY <1>9 DEF Pending
  <2>2. Pending(t) = One(thread[t].buf) /\ Pending(t)' = 0
    BY <1>1, <1>2 DEF Pending, One
  <2>3. /\ Pending("comp") \in {0, 1} /\ Pending("img") \in {0, 1} /\ Pending("kms") \in {0, 1}
        /\ One(leased /\ refs > 0) \in {0, 1}
    BY DEF Pending, One
  <2>4. fbLocks' = fbLocks - Pending(t)
    BY <1>1, <1>4, <2>2 DEF One, TypeOK
  <2> QED
    BY <1>1, <1>2, <1>9, <2>1, <2>2, <2>3, <2>4 DEF LockCount, counts, Threads
<1>15. Orderly' => LockCount' /\ Gone'
  <2>1. ASSUME LockCount, Gone
        PROVE  Gone'
    <3>1. LockCount' /\ fbLocks' <= fbLocks /\ fbLocks' >= 0 /\ fbLocks \in Int /\ fbLocks' \in Int
      BY <1>6, <1>14, <2>1 DEF TypeOK, IInv
    <3>2. fbLocks = 0 => fbLocks' = 0
      BY <3>1
    <3> QED
      BY <1>1, <1>5, <2>1, <3>2 DEF Gone, DecRefReleases, ConsiderDestroy
  <2> QED
    BY <1>5, <1>14, <2>1 DEF IInv
<1> QED
  BY <1>3, <1>6, <1>7, <1>8, <1>10, <1>12, <1>13, <1>15 DEF IInv

LEMMA CommitUnlocksKeeps ==
  ASSUME IInv, NEW t \in Threads, CommitUnlocks(t)
  PROVE  IInv'
<1>1. /\ thread \in [Threads -> Thread] /\ thread[t].at = "unlock"
      /\ thread' = [thread EXCEPT ![t] = Idle] /\ TypeOK /\ Busy(t)
      /\ UNCHANGED <<client, commits, lease, counts, gpu, kms>>
  BY ThreadType DEF CommitUnlocks, IInv, Busy
<1>2. Idle \in Thread
  BY DEF Thread, Idle
<1>3. thread'[t] = Idle /\ Going(t)
  BY <1>1, <1>2, Update DEF Going, client, commits, gpu, kms
<1>4. OneAtATime' /\ Order' /\ Flips'
  BY <1>1, <1>3, IdleFields, GoingOrder, GoingFlips DEF kms
<1>5. Locks'
  <2> DEFINE c == thread[t].commit
  <2>1. /\ locked' = locked \ {c} /\ incoming' = incoming /\ holders' = holders
        /\ Sent' = Sent /\ 0 \notin Sent /\ incoming \subseteq Sent
    BY <1>1, Numbers DEF CommitUnlocks, client, commits, Sent, TypeOK
  <2>2. incoming' \subseteq locked'
    BY <2>1 DEF IInv, Locks
  <2>3. \A k \in Sent : holders'[k] # {} => k \in locked'
    BY <2>1 DEF IInv, Locks
  <2>4. \A u \in Threads : thread'[u].commit # 0 => u # t /\ thread'[u] = thread[u]
    BY <1>3, IdleFields DEF Going
  <2> HIDE DEF c
  <2>5. \A u \in Threads \ {t} : thread[u].commit # 0 => thread[u].commit # c
    BY DEF IInv, Locks, c
  <2> QED
    BY <2>1, <2>2, <2>3, <2>4, <2>5 DEF IInv, Locks
<1>6. TypeOK'
  <2>1. locked' \subseteq Sent /\ destroyed' \in BOOLEAN
    BY <1>1 DEF TypeOK, CommitUnlocks, ConsiderDestroy
  <2> QED
    BY <1>1, <1>3, <2>1 DEF TypeOK, Going, client, commits, lease, counts, gpu, kms,
       Thread, Steps, Sent
<1>7. References'
  BY <1>1, <1>3, IdleFields DEF IInv, References, Going, commits, lease, counts, gpu,
     kms, One, Holds, Threads
<1>8. thread[t].point = 0
  BY <1>1 DEF IInv, Owners
<1>9. Lease' /\ Owners' /\ Unsignalled' /\ Kept'
  BY <1>1, <1>3, <1>8, IdleFields, GoingPoints DEF counts
<1>10. Orderly' => LockCount' /\ Gone'
  <2>1. Orderly' = Orderly /\ UNCHANGED <<leased, refs, fbLocks, point, dropped>>
    BY <1>1, <1>3, GoingSame DEF lease, counts
  <2>2. \A u \in Threads : Pending(u)' = Pending(u) /\ thread'[u].point = thread[u].point
    BY <1>1, <1>3, <1>8, IdleFields DEF Pending, Going
  <2>3. LockCount => LockCount'
    BY <1>3, <2>1, <2>2, IdleFields DEF LockCount, Going, Threads
  <2>4. Gone => Gone'
    BY <2>1 DEF Gone, CommitUnlocks, ConsiderDestroy
  <2> QED
    BY <2>1, <2>3, <2>4 DEF IInv
<1> QED
  BY <1>4, <1>5, <1>6, <1>7, <1>9, <1>10 DEF IInv

-----------------------------------------------------------------------------
(* The client and the compositor: threads stand still.                     *)

LEMMA ClientDestroysKeeps ==
  ASSUME IInv, ClientDestroys
  PROVE  IInv'
<1>1. /\ Sent' = Sent /\ Last' = Last /\ Explicit' = Explicit /\ InUse' = InUse
      /\ Orderly' = Orderly
  BY DEF ClientDestroys, commits, gpu, kms, Sent, Last, Explicit, InUse, Orderly
<1>2. TypeOK' /\ OneAtATime' /\ Flips' /\ (Gone => Gone')
  BY <1>1 DEF IInv, TypeOK, OneAtATime, Flips, Gone, ClientDestroys, ConsiderDestroy, commits,
     lease, counts, gpu, kms, Busy
<1>3. Order' /\ Locks'
  BY <1>1 DEF IInv, Order, Locks, ClientDestroys, commits, gpu, kms, Busy
<1>4. References' /\ Lease' /\ Owners' /\ (LockCount => LockCount')
  BY <1>1 DEF IInv, References, Lease, Owners, LockCount, ClientDestroys, commits, lease, counts,
     gpu, kms, Holds, Pending
<1>5. Unsignalled' /\ Kept'
  BY <1>1 DEF IInv, Unsignalled, Kept, InHand, Looks, ClientDestroys, commits, lease, counts,
     gpu, kms
<1> QED
  BY <1>1, <1>2, <1>3, <1>4, <1>5 DEF IInv

LEMMA DiscardKeeps ==
  ASSUME IInv, NEW k \in Sent, Discard(k)
  PROVE  IInv'
<1>1. /\ Sent' = Sent /\ Last' = Last /\ Explicit' = Explicit /\ InUse' = InUse
      /\ Orderly' = Orderly /\ importing = 0
  BY DEF Discard, Importing, commits, gpu, kms, Sent, Last, Explicit, InUse, Orderly
<1>2. TypeOK' /\ OneAtATime' /\ Flips' /\ (Gone => Gone')
  BY <1>1 DEF IInv, TypeOK, OneAtATime, Flips, Gone, Discard, ConsiderDestroy, commits, lease,
     counts, gpu, kms, Busy
<1>3. Order'
  <2>1. /\ k \in incoming \cap listed /\ incoming' = incoming \ {k} /\ listed' = listed
        /\ \A j \in incoming \cap listed : k <= j
        /\ incoming \subseteq Nat
    BY Numbers DEF Discard, First, IInv, TypeOK
  <2>2. \A i \in incoming' : k < i
    <3>1. \A i \in incoming : i \notin listed => \A j \in incoming \cap listed : j < i
      BY DEF IInv, Order
    <3> QED
      BY <2>1, <3>1
  <2>3. \A i \in incoming' : holders[i] = {} /\ i # importing
                             /\ (\A j \in Sent \ incoming' : j < i)
                             /\ (i \notin listed' => \A j \in incoming' \cap listed' : j < i)
    BY <2>1, <2>2 DEF IInv, Order
  <2> QED
    BY <1>1, <2>1, <2>3 DEF IInv, Order, Discard, commits, gpu, kms, Busy
<1>4. Locks'
  BY <1>1 DEF IInv, TypeOK, Locks, Order, Discard, First, commits
<1>5. References' /\ Lease' /\ Owners' /\ (LockCount => LockCount')
  BY <1>1 DEF IInv, References, Lease, Owners, LockCount, Discard, commits, lease, counts, gpu,
     kms, Holds, Pending
<1>6. Unsignalled' /\ Kept'
  BY <1>1 DEF IInv, Unsignalled, Kept, InHand, Looks, Discard, First, commits, lease, counts,
     gpu, kms
<1> QED
  BY <1>1, <1>2, <1>3, <1>4, <1>5, <1>6 DEF IInv

LEMMA RetrieveKeeps ==
  ASSUME IInv, Retrieve
  PROVE  IInv'
<1>1. /\ importing = 0 /\ listed \cap incoming = {} /\ listed' \in {{}, incoming}
      /\ signalled' = signalled \cup {k \in listed \cap Explicit : k # point /\ ~InHand(k)}
      /\ UNCHANGED <<use, kind, incoming, dropped, commits, locked, fbLocks, leased, point, late,
                     torn, counts, gpu, kms, thread, destroyed>>
  BY DEF Retrieve, Importing
<1>2. /\ Sent' = Sent /\ Last' = Last /\ Explicit' = Explicit /\ InUse' = InUse
      /\ Orderly' = Orderly /\ importing' = 0
  BY <1>1 DEF commits, gpu, kms, Sent, Last, Explicit, InUse, Orderly
<1>3. TypeOK'
  <2>1. listed' \subseteq Sent /\ signalled' \subseteq Sent \ listed'
    BY <1>1 DEF IInv, TypeOK, Unsignalled
  <2> QED
    BY <1>1, <1>2, <2>1 DEF IInv, TypeOK, commits, counts, gpu, kms
<1>4. OneAtATime' /\ Flips' /\ (Gone => Gone')
  BY <1>1, <1>2 DEF IInv, OneAtATime, Flips, Gone, counts, gpu, kms, Busy
<1>5. Order'
  BY <1>1, <1>2 DEF IInv, Order, commits, gpu, kms, Busy
<1>6. Locks'
  BY <1>1, <1>2 DEF IInv, Locks, commits
<1>7. References' /\ Lease' /\ Owners' /\ (LockCount => LockCount')
  BY <1>1, <1>2 DEF IInv, References, Lease, Owners, LockCount, commits, counts, gpu, kms,
     Holds, Pending
<1>8. \A k : InHand(k)' <=> InHand(k)
  BY <1>1 DEF InHand
<1>9. Unsignalled'
  <2>1. signalled' \cap (listed' \cup incoming') = {}
    BY <1>1 DEF IInv, Unsignalled
  <2>2. InUse /\ ~torn /\ kind[Last] = "explicit" => Last \notin signalled'
    BY <1>1 DEF IInv, Unsignalled
  <2> QED
    BY <1>1, <1>2, <1>8, <2>1, <2>2 DEF IInv, Unsignalled
<1>10. Kept'
  <2>1. Looks' = Looks
    BY <1>1 DEF Looks, counts, kms
  <2> QED
    BY <1>1, <1>2, <1>8, <2>1 DEF IInv, Kept
<1> QED
  BY <1>2, <1>3, <1>4, <1>5, <1>6, <1>7, <1>9, <1>10 DEF IInv

LEMMA ClientCommitKeeps ==
  ASSUME IInv, ClientCommit
  PROVE  IInv'
<1>1. PICK n \in Nat : Sent = 1..n /\ kind \in [1..n -> Kinds] /\ n < MaxCommits
                       /\ Cardinality(Sent) = n
  <2>1. PICK n \in 0..MaxCommits : kind \in [1..n -> Kinds]
    BY DEF IInv, TypeOK
  <2>2. n \in Nat /\ Sent = 1..n
    BY <2>1, LeaseAssumption DEF Sent
  <2>3. Cardinality(1..n) = n
    BY <2>2, FS_Interval
  <2> QED
    BY <2>1, <2>2, <2>3 DEF ClientCommit
<1>2. PICK x \in use.kinds : kind' = [j \in 1..(n + 1) |-> IF j = n + 1 THEN x ELSE kind[j]]
  BY <1>1 DEF ClientCommit
<1>3. x \in Kinds /\ n + 1 \in 0..MaxCommits
  BY <1>1, LeaseAssumption DEF IInv, TypeOK
<1>4. /\ kind' \in [1..(n + 1) -> Kinds] /\ Sent' = Sent \cup {n + 1} /\ n + 1 \notin Sent
      /\ \A j \in Sent : kind'[j] = kind[j]
      /\ kind'[n + 1] = x
      /\ incoming' = incoming \cup {n + 1} /\ locked' = locked \cup {n + 1}
      /\ UNCHANGED <<use, listed, dropped, commits, lease, counts, gpu, kms, thread, destroyed>>
  BY <1>1, <1>2, <1>3 DEF ClientCommit, Sent
<1>5. /\ Explicit' \subseteq Explicit \cup {n + 1} /\ Explicit \subseteq Explicit'
      /\ Last' = Last /\ (set # {} => kind'[Last] = kind[Last])
      /\ InUse' = InUse /\ Orderly' = Orderly
  <2>1. set \subseteq Sent /\ set' = set
    BY <1>4 DEF IInv, TypeOK, commits
  <2> QED
    BY <1>4, <2>1, Newest DEF Explicit, Last, IInv, InUse, Orderly, commits, gpu, kms
<1>6. TypeOK'
  <2>1. thread' = thread /\ thread \in [Threads -> Thread]
    BY <1>4, ThreadType DEF IInv
  <2>2. thread' \in [Threads -> [at : {"idle"} \cup Steps, buf : BOOLEAN,
                                  point : {0} \cup Sent', left : Nat,
                                  commit : {0} \cup Sent']]
    BY <1>4, <2>1 DEF Thread
  <2> QED
    BY <1>3, <1>4, <2>2, ZenonT(60) DEF IInv, TypeOK, commits, lease, counts, gpu, kms, Steps
<1>7. OneAtATime' /\ Flips'
  BY <1>4 DEF IInv, OneAtATime, Flips, Busy, kms
<1>8. Order'
  <2>1. holders[n + 1] = {} /\ n + 1 # importing /\ n + 1 \notin set
    BY <1>1, <1>4, LeaseAssumption DEF IInv, TypeOK, Order, Ids
  <2>2. UNCHANGED <<commits, gpu, kms, thread>> /\ incoming \subseteq Sent
        /\ listed' = listed /\ listed \subseteq Sent
    BY <1>4 DEF IInv, TypeOK
  <2>3. \A k \in incoming' : holders'[k] = {} /\ k # importing'
                           /\ (\A j \in Sent' \ incoming' : j < k)
                           /\ (k \notin listed' => \A j \in incoming' \cap listed' : j < k)
    <3>1. Sent' \ incoming' = Sent \ incoming /\ incoming' \cap listed' = incoming \cap listed
      BY <1>4, <2>2
    <3>2. \A j \in Sent : j < n + 1
      BY <1>1
    <3>3. \A k \in incoming : holders[k] = {} /\ k # importing
                            /\ (\A j \in Sent \ incoming : j < k)
                            /\ (k \notin listed => \A j \in incoming \cap listed : j < k)
      BY DEF IInv, Order
    <3>4. holders' = holders /\ importing' = importing
      BY <2>2 DEF commits
    <3> QED
      BY <1>4, <2>1, <2>2, <3>1, <3>2, <3>3, <3>4
  <2>4. /\ \A k \in Sent' : holders'[k] # {} => k = importing' \/ k \in set'
        /\ \A k \in Ids \ Sent' : holders'[k] = {}
        /\ \A k \in set' : k \notin incoming'
    BY <1>4, <2>1, <2>2 DEF IInv, Order, commits
  <2> QED
    BY <2>2, <2>3, <2>4 DEF IInv, Order, commits, gpu, kms, Busy
<1>9. Locks'
  BY <1>1, <1>4, ZenonT(60) DEF IInv, TypeOK, Locks, commits
<1>10. References' /\ Lease' /\ (LockCount => LockCount') /\ (Gone => Gone')
  <2>1. References' /\ Lease' /\ (LockCount => LockCount')
    BY <1>4, <1>5 DEF IInv, References, Lease, LockCount, commits, lease, counts, gpu, kms, Holds,
       Pending
  <2>2. Gone => Gone'
    BY DEF IInv, Gone, ClientCommit
  <2> QED
    BY <2>1, <2>2
<1>11. Owners'
  BY <1>4 DEF IInv, Owners, TypeOK, commits, lease
<1>12. Unsignalled' /\ Kept'
  <2>1. InUse => set # {}
    BY DEF IInv, InUse, Order
  <2>2. \A k : InHand(k)' <=> InHand(k)
    BY <1>4 DEF InHand
  <2>3. signalled \subseteq Sent
    BY DEF IInv, TypeOK
  <2>4. Unsignalled'
    BY <1>4, <1>5, <2>1, <2>2, <2>3 DEF IInv, Unsignalled, commits, lease
  <2>5. Kept'
    BY <1>4, <1>5, <2>2 DEF IInv, Kept, Looks, lease, counts, kms
  <2> QED
    BY <2>4, <2>5
<1> QED
  BY <1>5, <1>6, <1>7, <1>8, <1>9, <1>10, <1>11, <1>12 DEF IInv

\* A thread that was idle begins with r, and nobody else moves.
LEMMA Begins ==
  ASSUME IInv, NEW t \in Threads, Free(t), NEW r \in Thread,
         thread' = [thread EXCEPT ![t] = r], UNCHANGED client
  PROVE  /\ thread' \in [Threads -> Thread] /\ thread'[t] = r
         /\ \A u \in Threads \ {t} : thread'[u] = thread[u]
         /\ thread[t] = Idle /\ OneAtATime'
         /\ use.serial => \A u \in Threads \ {t} : thread[u].at = "idle"
<1>1. thread \in [Threads -> Thread]
  BY ThreadType DEF IInv
<1>2. /\ thread' \in [Threads -> Thread] /\ thread'[t] = r
      /\ \A u \in Threads \ {t} : thread'[u] = thread[u]
  BY <1>1, Update
<1>3. use.serial => \A u \in Threads \ {t} : thread[u].at = "idle"
  BY IdleFields DEF Free, Runs
<1>4. OneAtATime'
  BY <1>2, <1>3 DEF IInv, OneAtATime, client, Sent, Busy
<1> QED
  BY <1>2, <1>3, <1>4 DEF Free

\* A thread that begins with r keeps what does not depend on the counters.
LEMMA BeginsPoints ==
  ASSUME IInv, NEW t \in Threads, Free(t), NEW r \in Thread,
         thread' = [thread EXCEPT ![t] = r],
         UNCHANGED <<client, lease, refs, importing, set>>,
         r.at \in {"idle", "read", "unlock"}, r.point = 0, r.left = 0, r.buf = FALSE,
         InUse' => InUse, Looks => Looks'
  PROVE  /\ Lease' /\ Owners' /\ Unsignalled' /\ Kept'
         /\ Orderly' = Orderly /\ (LockCount => LockCount')
<1>1. Last' = Last /\ Explicit' = Explicit /\ Orderly' = Orderly /\ Sent' = Sent
  BY DEF client, Last, Explicit, Orderly, Sent
<1>2. /\ \A u \in Threads \ {t} : thread'[u] = thread[u]
      /\ thread'[t] = r /\ thread[t] = Idle
  BY Begins
<1>3. \A u \in Threads : thread'[u].point = thread[u].point /\ Pending(u)' = Pending(u)
  BY <1>2, IdleFields DEF Pending
<1>4. \A k : InHand(k)' <=> InHand(k)
  BY <1>3 DEF InHand
<1>5. Lease'
  BY <1>1 DEF IInv, Lease, client, lease
<1>6. Owners'
  BY <1>2, <1>3 DEF IInv, Owners, client, lease
<1>7. Unsignalled'
  <2>1. \A u \in Threads :
          thread'[u].at = "finish" /\ thread'[u].left = 0 /\ thread'[u].point # 0
            /\ thread'[u].point = Last' => ~InUse'
    BY <1>1, <1>2 DEF IInv, Unsignalled
  <2> QED
    BY <1>1, <1>4, <2>1 DEF IInv, Unsignalled, client, lease
<1>8. Kept'
  BY <1>1, <1>4 DEF IInv, Kept, client, lease
<1>9. LockCount => LockCount'
  BY <1>2, <1>3 DEF LockCount, lease, Threads
<1> QED
  BY <1>1, <1>5, <1>6, <1>7, <1>8, <1>9

LEMMA DropRecords ==
  ASSUME NEW k \in {0} \cup Sent
  PROVE  /\ [Idle EXCEPT !.at = "read", !.commit = k] \in Thread
         /\ [Idle EXCEPT !.at = "unlock", !.commit = k] \in Thread
         /\ Idle \in Thread
BY DEF Idle, Thread, Steps

LEMMA LastDropKeeps ==
  ASSUME IInv, NEW t \in Threads, NEW k \in Sent, DropCommit(t, k), k # importing,
         holders[k] = {t}
  PROVE  IInv'
<1> DEFINE r == IF k \in sampled /\ tex = 1 THEN [Idle EXCEPT !.at = "read", !.commit = k]
                ELSE [Idle EXCEPT !.at = "unlock", !.commit = k]
<1>1. /\ thread' = [thread EXCEPT ![t] = r]
      /\ tex' = IF k \in sampled THEN tex - 1 ELSE tex
      /\ holders' = [holders EXCEPT ![k] = {}] /\ sampled' = sampled \ {k}
      /\ Free(t)
      /\ UNCHANGED <<client, importing, set, locked, lease, refs, gpu, kms, destroyed>>
  BY Numbers DEF DropCommit, DropTexture, IInv, TypeOK
<1>2. /\ r \in Thread /\ r.at \in {"read", "unlock"} /\ r.point = 0 /\ r.buf = FALSE
      /\ r.left = 0 /\ r.commit = k
      /\ r.at = "read" <=> (k \in sampled /\ tex = 1)
  BY DropRecords DEF Idle
<1> HIDE DEF r
<1>3. /\ thread' \in [Threads -> Thread] /\ thread'[t] = r
      /\ \A u \in Threads \ {t} : thread'[u] = thread[u]
      /\ thread[t] = Idle /\ OneAtATime'
  BY <1>1, <1>2, Begins
<1>4. /\ k \in Ids /\ k \in set /\ k \in locked /\ k \notin incoming
      /\ holders \in [Ids -> SUBSET {"comp", "img"}]
      /\ t # "kms" /\ k # 0
  <2>1. k \in Ids
    BY LeaseAssumption DEF IInv, TypeOK, Sent, Ids
  <2> QED
    BY <2>1, Numbers DEF IInv, TypeOK, Order, Locks, Threads
<1>5. tex \in Nat /\ tex = Cardinality(sampled) + One(copying) /\ (k \in sampled => tex > 0)
  BY Sampled DEF IInv, TypeOK, References, One
<1>6. /\ Lease' /\ Owners' /\ Unsignalled' /\ Kept'
      /\ Orderly' = Orderly /\ (LockCount => LockCount')
  <2>1. InUse' => InUse
    BY <1>1 DEF InUse, gpu, kms
  <2>2. Looks => Looks'
    <3>1. tex > 0 => tex' > 0 \/ thread'[t].at = "read"
      BY <1>1, <1>2, <1>3, <1>5
    <3>2. \A u \in Threads : thread[u].at \in {"read", "take"} => thread'[u].at \in {"read", "take"}
      BY <1>3, IdleFields
    <3> QED
      BY <1>1, <3>1, <3>2 DEF Looks, kms
  <2> QED
    BY <1>1, <1>2, <2>1, <2>2, BeginsPoints
<1>7. References'
  <2>1. tex' = Cardinality(sampled') + One(copying')
    <3>1. k \in sampled => Cardinality(sampled') = Cardinality(sampled) - 1
      BY <1>1, Sampled DEF IInv
    <3>2. k \notin sampled => sampled' = sampled
      BY <1>1
    <3>3. Cardinality(sampled) \in Nat /\ One(copying) \in Nat
      BY Sampled DEF IInv, One
    <3>4. One(copying') = One(copying)
      BY <1>1 DEF gpu
    <3>5. tex' = IF k \in sampled THEN tex - 1 ELSE tex
      BY <1>1
    <3> DEFINE c == Cardinality(sampled)
               d == Cardinality(sampled')
               o == One(copying)
    <3>6. tex = c + o /\ c \in Nat /\ o \in Nat
      BY <1>5, <3>3
    <3>7. k \in sampled => d = c - 1
      BY <3>1
    <3>8. k \notin sampled => d = c
      BY <3>2
    <3> HIDE DEF c, d, o
    <3>9. tex' = d + o
      BY <3>5, <3>6, <3>7, <3>8
    <3> QED
      BY <3>4, <3>9 DEF d, o
  <2>2. Holds("comp")' + Holds("img")' + Holds("kms")' =
          Holds("comp") + Holds("img") + Holds("kms") + One(r.at = "read")
    BY <1>2, <1>3, IdleFields DEF Holds, One, Threads
  <2>3. One(tex' > 0) + One(r.at = "read") = One(tex > 0)
    BY <1>1, <1>2, <1>5 DEF One
  <2>4. refs' = One(tex' > 0) + One(queued) + One(visible)
                + Holds("comp")' + Holds("img")' + Holds("kms")'
    BY <1>1, <2>2, <2>3 DEF IInv, References, One, Holds, Threads
  <2> QED
    BY <1>1, <2>1, <2>4 DEF References, kms
<1>8. TypeOK'
  BY <1>1, <1>3, <1>4, <1>5 DEF IInv, TypeOK, client, lease, gpu, kms, Thread, Steps, Sent
<1>9. Order'
  BY <1>1, <1>2, <1>3, <1>4 DEF IInv, Order, client, gpu, kms, Busy, Sent
<1>10. Locks'
  BY <1>1, <1>2, <1>3, <1>4, IdleFields DEF IInv, Locks, client, Sent
<1>11. Flips' /\ (Gone => Gone')
  BY <1>1, <1>3, <1>4, IdleFields DEF IInv, Flips, Gone, kms, client, lease, Busy, Threads
<1> QED
  BY <1>3, <1>6, <1>7, <1>8, <1>9, <1>10, <1>11 DEF IInv

LEMMA OtherDropKeeps ==
  ASSUME IInv, NEW t \in Threads, NEW k \in Sent, DropCommit(t, k), k # importing,
         holders[k] # {t}
  PROVE  IInv'
<1>1. /\ k \in Ids /\ holders' = [holders EXCEPT ![k] = @ \ {t}] /\ holders[k] \ {t} # {}
      /\ holders \in [Ids -> SUBSET {"comp", "img"}]
      /\ UNCHANGED <<client, sampled, importing, set, locked, lease, counts, gpu, kms, thread,
                     destroyed>>
  <2>1. k \in Ids
    BY LeaseAssumption DEF IInv, TypeOK, Sent, Ids
  <2> QED
    BY <2>1 DEF DropCommit, counts, IInv, TypeOK
<1>2. /\ Last' = Last /\ Explicit' = Explicit /\ Sent' = Sent /\ InUse' = InUse
      /\ Orderly' = Orderly
  BY <1>1 DEF Last, Explicit, Sent, InUse, Orderly, client, gpu, kms
<1>3. TypeOK' /\ OneAtATime' /\ Flips' /\ (Gone => Gone')
  BY <1>1, <1>2 DEF IInv, TypeOK, OneAtATime, Flips, Gone, client, lease, counts, gpu, kms, Busy
<1>4. Order' /\ Locks'
  <2>1. /\ holders' \in [Ids -> SUBSET {"comp", "img"}]
        /\ \A j \in Ids : holders'[j] = {} <=> holders[j] = {}
        /\ \A j \in Ids \ {k} : holders'[j] = holders[j]
        /\ Sent \subseteq Ids
    BY <1>1, LeaseAssumption DEF IInv, TypeOK, Sent, Ids
  <2>2. /\ UNCHANGED <<incoming, listed, sampled, importing, set, locked, visible, queued, copying,
                       thread>>
        /\ sampled \subseteq Sent /\ incoming \subseteq Sent /\ importing \in {0} \cup Sent
        /\ \A u \in Threads : thread[u].commit \in {0} \cup Sent
    BY <1>1, ThreadType DEF client, gpu, kms, IInv, TypeOK, Thread
  <2>3. Order'
    BY <1>2, <2>1, <2>2 DEF IInv, Order, Busy
  <2>4. Locks'
    BY <1>2, <2>1, <2>2 DEF IInv, Locks
  <2> QED
    BY <2>3, <2>4
<1>5. References' /\ Lease' /\ Owners' /\ (LockCount => LockCount')
  BY <1>1, <1>2 DEF IInv, References, Lease, Owners, LockCount, client, lease, counts, gpu, kms,
     Holds, Pending
<1>6. Unsignalled' /\ Kept'
  BY <1>1, <1>2 DEF IInv, Unsignalled, Kept, InHand, Looks, client, lease, counts, kms
<1> QED
  BY <1>2, <1>3, <1>4, <1>5, <1>6 DEF IInv

LEMMA ImportCommitKeeps ==
  ASSUME IInv, NEW k \in Sent, ImportCommit(k)
  PROVE  IInv'
<1>1. /\ k \in incoming /\ k \in listed /\ k \in Ids /\ k # 0 /\ k \in locked
      /\ k \notin sampled /\ k \notin set /\ importing = 0
      /\ \A j \in set : j < k
      /\ \A i \in incoming \ {k} : k < i
      /\ \A u \in Threads : thread[u].commit # k
  <2>1. k \in incoming /\ k \in listed /\ k \in Ids /\ k # 0 /\ importing = 0
    BY Numbers, LeaseAssumption DEF ImportCommit, Importing, First, IInv, TypeOK, Sent, Ids
  <2>2. \A i \in incoming \ {k} : k < i
    <3>1. /\ \A i \in incoming : i \notin listed => \A j \in incoming \cap listed : j < i
          /\ incoming \subseteq Nat
      BY Numbers DEF IInv, Order, TypeOK
    <3>2. \A j \in incoming \cap listed : k <= j
      BY DEF ImportCommit, First
    <3> QED
      BY <2>1, <3>1, <3>2
  <2>3. k \notin sampled /\ k \notin set /\ \A j \in set : j < k
    BY <2>1 DEF IInv, Order, TypeOK
  <2>4. k \in locked /\ \A u \in Threads : thread[u].commit # k
    BY <2>1 DEF IInv, Locks
  <2> QED
    BY <2>1, <2>2, <2>3, <2>4
<1>2. /\ incoming' = incoming \ {k} /\ importing' = k /\ sampled' = sampled \cup {k}
      /\ holders' = [holders EXCEPT ![k] = {"comp"}]
      /\ tex' = tex + 1 /\ refs' = IF tex = 0 THEN refs + 1 ELSE refs
      /\ fbLocks' = IF tex = 0 /\ refs = 0 /\ leased THEN fbLocks + 1 ELSE fbLocks
      /\ UNCHANGED <<use, kind, listed, dropped, set, locked, leased, point, signalled, late,
                     torn, gpu, kms, thread, destroyed>>
  BY DEF ImportCommit, IncRefs, FirstRef
<1>3. Sent' = Sent /\ Last' = Last /\ Explicit' = Explicit /\ Orderly' = Orderly
  BY <1>2 DEF Sent, Last, Explicit, Orderly
<1>4. /\ holders' \in [Ids -> SUBSET {"comp", "img"}] /\ holders'[k] = {"comp"}
      /\ \A j \in Ids \ {k} : holders'[j] = holders[j]
      /\ Sent \subseteq Ids
  BY <1>1, <1>2, LeaseAssumption DEF IInv, TypeOK, Sent, Ids
<1>5. TypeOK' /\ OneAtATime' /\ Flips'
  <2>1. TypeOK'
    BY <1>1, <1>2, <1>3, <1>4 DEF IInv, TypeOK, gpu, kms
  <2>2. OneAtATime' /\ Flips'
    BY <1>2, <1>3 DEF IInv, OneAtATime, Flips, kms, Busy
  <2> QED
    BY <2>1, <2>2
<1>6. Order'
  <2>1. \A i \in incoming' : holders'[i] = {} /\ i # importing'
                          /\ (\A j \in Sent' \ incoming' : j < i)
                          /\ (i \notin listed' => \A j \in incoming' \cap listed' : j < i)
    BY <1>1, <1>2, <1>3, <1>4 DEF IInv, Order, TypeOK
  <2>2. /\ \A i \in Sent' : holders'[i] # {} => i = importing' \/ i \in set'
        /\ \A i \in Ids \ Sent' : holders'[i] = {}
        /\ \A i \in sampled' : holders'[i] # {}
    <3>1. \A i \in Sent' : holders'[i] # {} => i = importing' \/ i \in set'
      BY <1>1, <1>2, <1>3, <1>4, Numbers DEF IInv, Order
    <3>2. \A i \in Ids \ Sent' : holders'[i] = {}
      BY <1>3, <1>4 DEF IInv, Order
    <3>3. \A i \in sampled' : holders'[i] # {}
      BY <1>1, <1>2, <1>4 DEF IInv, Order, TypeOK
    <3> QED
      BY <3>1, <3>2, <3>3
  <2>3. /\ importing' \in sampled' /\ importing' \notin set'
        /\ holders'[importing'] = {"comp"} /\ \A j \in set' : j < importing'
        /\ \A i \in set' : i \notin incoming'
    BY <1>1, <1>2, <1>4 DEF IInv, Order
  <2> QED
    BY <1>2, <2>1, <2>2, <2>3 DEF IInv, Order, Busy, gpu, kms
<1>7. Locks'
  BY <1>1, <1>2, <1>3, <1>4 DEF IInv, Locks, TypeOK
<1>8. /\ tex \in Nat /\ refs \in Nat /\ fbLocks \in Int
      /\ Holds("comp") \in {0, 1} /\ Holds("img") \in {0, 1} /\ Holds("kms") \in {0, 1}
      /\ Pending("comp") \in {0, 1} /\ Pending("img") \in {0, 1} /\ Pending("kms") \in {0, 1}
      /\ \A t \in Threads : Holds(t)' = Holds(t) /\ Pending(t)' = Pending(t)
      /\ tex > 0 => refs > 0
  <2>1. \A t \in Threads : Holds(t)' = Holds(t) /\ Pending(t)' = Pending(t)
    BY <1>2 DEF Holds, Pending
  <2> QED
    BY <2>1, Unreferenced DEF IInv, Threads, TypeOK
<1>9. References'
  <2>1. tex' = Cardinality(sampled') + One(copying')
    BY <1>1, <1>2, Sampled DEF gpu, IInv, One, References
  <2>2. refs' = One(tex' > 0) + One(queued) + One(visible)
                + Holds("comp") + Holds("img") + Holds("kms")
    <3>1. /\ One(tex' > 0) = 1 /\ One(tex > 0) = IF tex = 0 THEN 0 ELSE 1
          /\ One(queued) \in {0, 1} /\ One(visible) \in {0, 1}
      BY <1>2, <1>8 DEF One
    <3> QED
      BY <1>2, <1>8, <3>1 DEF IInv, References
  <2> QED
    BY <1>2, <1>8, <2>1, <2>2 DEF References, kms, Threads
<1>10. Lease' /\ Owners'
  BY <1>2, <1>3 DEF IInv, Lease, Owners
<1>11. InUse' = InUse /\ (Looks => Looks')
  <2>1. sampled' \cap set' = sampled \cap set
    BY <1>1, <1>2 DEF IInv, TypeOK
  <2> QED
    BY <1>2, <1>8, <2>1 DEF InUse, Looks, gpu, kms
<1>12. Unsignalled' /\ Kept'
  <2>1. \A j : InHand(j)' <=> InHand(j)
    BY <1>2 DEF InHand
  <2> QED
    BY <1>1, <1>2, <1>3, <1>11, <2>1 DEF IInv, Unsignalled, Kept
<1>13. LockCount => LockCount'
  <2> SUFFICES ASSUME LockCount
               PROVE  LockCount'
    OBVIOUS
  <2>1. One(leased /\ refs' > 0) = One(leased /\ refs > 0)
                                   + IF tex = 0 /\ refs = 0 /\ leased THEN 1 ELSE 0
    BY <1>2, <1>8 DEF One
  <2>2. One(leased /\ refs > 0) \in {0, 1}
    BY DEF One
  <2>3. fbLocks' = One(leased /\ refs' > 0)
                   + Pending("comp") + Pending("img") + Pending("kms")
    BY <1>2, <1>8, <2>1, <2>2 DEF LockCount
  <2> QED
    BY <1>2, <1>8, <2>3 DEF LockCount, Threads
<1>14. Gone => Gone'
  BY <1>1, <1>2 DEF IInv, Gone
<1> QED
  BY <1>3, <1>5, <1>6, <1>7, <1>9, <1>10, <1>12, <1>13, <1>14 DEF IInv

\* What SetLease finds: a commit newer than all others, listed, referenced and
\* locked, and no DecRef on its way where they are serialised.
LEMMA SetLeaseFinds ==
  ASSUME IInv, SetLease
  PROVE  /\ importing \in Sent /\ importing \in Ids /\ importing # 0
         /\ importing \in sampled /\ importing \in locked /\ importing \in listed
         /\ importing \notin set /\ \A j \in set : j < importing
         /\ tex > 0 /\ refs > 0
         /\ use.serial => \A t \in Threads : thread[t] = Idle
         /\ kind[importing] \in Kinds /\ kind[importing] \in use.kinds
<1>1. /\ importing \in Sent /\ importing \in Ids /\ importing # 0 /\ importing \in sampled
      /\ importing \notin set /\ importing \in locked /\ importing \in listed
      /\ \A j \in set : j < importing
  BY LeaseAssumption DEF IInv, TypeOK, Order, Locks, Unsignalled, SetLease, Sent, Ids
<1>2. kind[importing] \in Kinds /\ kind[importing] \in use.kinds
  BY <1>1 DEF IInv, TypeOK, OneAtATime
<1>3. tex > 0 /\ refs > 0
  <2>1. Cardinality(sampled) > 0 /\ Cardinality(sampled) \in Nat
    BY <1>1, Sampled DEF IInv
  <2>2. tex > 0
    BY <2>1 DEF IInv, References, One
  <2> QED
    BY <2>2, Unreferenced DEF IInv
<1>4. use.serial => \A t \in Threads : thread[t] = Idle
  BY DEF SetLease, Free, Runs
<1> QED
  BY <1>1, <1>2, <1>3, <1>4

LEMMA SetLeaseNewest ==
  ASSUME IInv, SetLease
  PROVE  Last' = importing /\ Explicit' = Explicit /\ Orderly' = Orderly /\ Sent' = Sent
<1>1. set' = set \cup {importing} /\ kind' = kind /\ use' = use
  BY DEF SetLease, client
<1>2. \A j \in set : j < importing /\ j # importing
  BY SetLeaseFinds
<1>3. importing \in Nat /\ set \subseteq Nat
  BY SetLeaseFinds, Numbers DEF IInv, TypeOK
<1>4. Last' = importing
  <2>1. importing \in set' /\ \A j \in set' : j <= importing
    BY <1>1, <1>2, <1>3
  <2>2. \A k \in set' : (\A j \in set' : j <= k) => k = importing
    BY <1>1, <1>2, <1>3
  <2> QED
    BY <2>1, <2>2 DEF Last
<1> QED
  BY <1>1, <1>4 DEF Explicit, Orderly, Sent

\* The new lease; by then the framebuffer is referenced.
LEMMA SetLeaseLease ==
  ASSUME IInv, SetLease
  PROVE  /\ leased' = (kind[importing] = "implicit")
         /\ fbLocks' = fbLocks + One(leased') - One(leased) /\ fbLocks' \in Int
         /\ IF kind[importing] = "implicit" /\ leased
            THEN UNCHANGED <<point, signalled, late, torn>>
            ELSE /\ point' = IF kind[importing] = "explicit" THEN importing ELSE 0
                 /\ signalled' = signalled \cup ({point} \ ({0} \cup listed))
                 /\ late' = FALSE /\ torn' = FALSE
<1>1. leased \in BOOLEAN /\ fbLocks \in Int /\ refs \in Nat
  BY DEF IInv, TypeOK
<1>2. refs > 0 /\ refs # 0 /\ kind[importing] \in {"implicit", "explicit"}
  BY <1>1, SetLeaseFinds DEF Kinds
<1>3. CASE kind[importing] = "explicit"
  <2>1. /\ leased' = FALSE /\ point' = importing /\ late' = FALSE /\ torn' = FALSE
        /\ signalled' = signalled \cup ({point} \ ({0} \cup listed))
        /\ fbLocks' = IF leased THEN fbLocks - 1 ELSE fbLocks
    BY <1>1, <1>2, <1>3 DEF SetLease, SetReleasePoint, Signals
  <2>2. One(leased') = 0 /\ One(leased) = IF leased THEN 1 ELSE 0
    BY <2>1 DEF One
  <2>3. leased' = (kind[importing] = "implicit")
    BY <1>3, <2>1
  <2>4. fbLocks' = fbLocks + One(leased') - One(leased) /\ fbLocks' \in Int
    BY <1>1, <2>1, <2>2
  <2> QED
    BY <1>3, <2>1, <2>3, <2>4
<1>4. CASE kind[importing] = "implicit" /\ leased
  <2>1. UNCHANGED <<fbLocks, leased, point, signalled, late, torn>>
    BY <1>4 DEF SetLease, SetBuffer, lease
  <2>2. leased' = (kind[importing] = "implicit")
    BY <1>1, <1>4, <2>1
  <2>3. fbLocks' = fbLocks + One(leased') - One(leased) /\ fbLocks' \in Int
    <3>1. One(leased) \in {0, 1} /\ One(leased') = One(leased)
      BY <2>1 DEF One
    <3> QED
      BY <1>1, <2>1, <3>1
  <2> QED
    BY <1>4, <2>1, <2>2, <2>3
<1>5. CASE kind[importing] = "implicit" /\ ~leased
  <2>1. /\ leased' = TRUE /\ point' = 0 /\ late' = FALSE /\ torn' = FALSE
        /\ signalled' = signalled \cup ({point} \ ({0} \cup listed))
        /\ fbLocks' = fbLocks + 1
    BY <1>1, <1>2, <1>5 DEF SetLease, SetBuffer, SetBufferLocks, Signals
  <2>2. One(leased') = 1 /\ One(leased) = 0
    BY <1>5, <2>1 DEF One
  <2>3. leased' = (kind[importing] = "implicit")
    BY <1>5, <2>1
  <2>4. fbLocks' = fbLocks + One(leased') - One(leased) /\ fbLocks' \in Int
    BY <1>1, <2>1, <2>2
  <2> QED
    BY <1>5, <2>1, <2>3, <2>4
<1> QED
  BY <1>1, <1>2, <1>3, <1>4, <1>5

LEMMA SetLeaseKeeps ==
  ASSUME IInv, SetLease
  PROVE  IInv'
<1>1. /\ set' = set \cup {importing} /\ importing' = 0
      /\ UNCHANGED <<client, sampled, locked, counts, gpu, kms, thread>>
  BY DEF SetLease
<1>2. PICK hs \in {{"comp"}, {"comp", "img"}} :
        holders' = [holders EXCEPT ![importing] = hs]
  BY DEF SetLease
<1>3. /\ holders' \in [Ids -> SUBSET {"comp", "img"}] /\ holders'[importing] = hs
      /\ \A j \in Ids \ {importing} : holders'[j] = holders[j]
      /\ Sent' = Sent /\ Sent \subseteq Ids
  <2>1. importing \in Ids /\ hs \in SUBSET {"comp", "img"}
        /\ holders \in [Ids -> SUBSET {"comp", "img"}]
    BY <1>2, SetLeaseFinds DEF IInv, TypeOK
  <2>2. Sent' = Sent /\ Sent \subseteq Ids
    BY <1>1, LeaseAssumption DEF IInv, TypeOK, Sent, Ids, client
  <2> QED
    BY <1>2, <2>1, <2>2
<1>4. hs # {} /\ holders[importing] = {"comp"}
  BY <1>2, SetLeaseFinds DEF IInv, Order
<1>5. importing \in Nat /\ set \subseteq Nat /\ point \in {0} \cup Sent /\ importing # 0
      /\ importing \notin signalled
  BY SetLeaseFinds, Numbers DEF IInv, TypeOK
<1>6. TypeOK'
  <2>1. leased' \in BOOLEAN /\ fbLocks' \in Int /\ point' \in {0} \cup Sent
        /\ signalled' \subseteq Sent \ listed /\ set' \subseteq Sent
        /\ late' \in BOOLEAN /\ torn' \in BOOLEAN
    <3>1. leased' \in BOOLEAN /\ fbLocks' \in Int
      BY SetLeaseLease
    <3>2. /\ point' = point \/ point' = 0 \/ point' = importing
          /\ signalled' \subseteq signalled \cup ({point} \ ({0} \cup listed))
          /\ (late' = late /\ torn' = torn) \/ (late' = FALSE /\ torn' = FALSE)
      BY SetLeaseLease
    <3> QED
      BY <1>1, <1>5, <3>1, <3>2, SetLeaseFinds DEF IInv, TypeOK
  <2>2. destroyed' \in BOOLEAN
    BY DEF SetLease, ConsiderDestroy, IInv, TypeOK
  <2> QED
    BY <1>1, <1>3, <2>1, <2>2 DEF IInv, TypeOK, client, counts, gpu, kms
<1>7. OneAtATime' /\ Flips'
  BY <1>1, <1>3 DEF IInv, OneAtATime, Flips, client, kms, Busy
<1>8. Order'
  <2>1. /\ UNCHANGED <<incoming, listed, sampled, visible, queued, copying, thread>>
        /\ importing \notin incoming /\ importing \notin set /\ sampled \subseteq Sent
    BY <1>1, SetLeaseFinds DEF client, gpu, kms, IInv, Order, TypeOK
  <2>2. \A k \in incoming' : holders'[k] = {} /\ k # importing'
                           /\ (\A j \in Sent' \ incoming' : j < k)
                           /\ (k \notin listed' => \A j \in incoming' \cap listed' : j < k)
    BY <1>1, <1>3, <2>1, Numbers DEF IInv, Order, TypeOK
  <2>3. \A k \in Sent' : holders'[k] # {} => k = importing' \/ k \in set'
    BY <1>1, <1>3, <2>1 DEF IInv, Order
  <2>4. \A k \in Ids \ Sent' : holders'[k] = {}
    BY <1>3, SetLeaseFinds DEF IInv, Order
  <2>5. \A k \in sampled' : holders'[k] # {}
    BY <1>3, <1>4, <2>1 DEF IInv, Order
  <2>6. \A k \in set' : k \notin incoming'
    BY <1>1, <2>1 DEF IInv, Order
  <2>7. set' # {} /\ \E k \in set' : \A j \in set' : j <= k
    BY <1>1, <1>5, SetLeaseFinds
  <2> QED
    BY <1>1, <2>2, <2>3, <2>4, <2>5, <2>6, <2>7 DEF Order
<1>9. Locks'
  <2>1. incoming' = incoming /\ locked' = locked /\ thread' = thread
    BY <1>1 DEF client
  <2>2. \A j \in Sent : holders'[j] = {} <=> holders[j] = {}
    BY <1>3, <1>4
  <2>3. \A t \in Threads : thread[t].commit \in {0} \cup Sent
    BY ThreadType DEF IInv, Thread
  <2> QED
    BY <1>3, <2>1, <2>2, <2>3 DEF IInv, Locks
<1>10. References'
  BY <1>1 DEF IInv, References, Holds, counts, gpu, kms
<1>11. Lease'
  BY <1>1, SetLeaseNewest, SetLeaseLease DEF Lease, client
<1>12. thread' = thread /\ kind' = kind /\ incoming' = incoming /\ listed' = listed
       /\ tex' = tex /\ refs' = refs
  BY <1>1 DEF client, counts
<1>13. /\ point' = point \/ point' = 0 \/ (point' = importing /\ kind[importing] = "explicit")
       /\ signalled' \subseteq signalled \cup ({point} \ ({0} \cup listed))
       /\ kind[importing] = "explicit" => point' = importing
       /\ point' # point => late' = FALSE /\ signalled' = signalled \cup ({point} \ ({0} \cup listed))
       /\ signalled \subseteq signalled'
  <2>1. importing \notin set
    BY SetLeaseFinds
  <2> QED
    BY SetLeaseLease, SetLeaseFinds DEF IInv, Owners
<1>14. Owners'
  <2>1. \A t \in Threads : thread[t].point # importing
    BY <1>5, SetLeaseFinds DEF IInv, Owners
  <2> QED
    BY <1>1, <1>5, <1>12, <1>13, <2>1, SetLeaseFinds DEF IInv, Owners
<1>15. Unsignalled'
  <2>1. point # 0 => point \notin incoming
    BY DEF IInv, Owners, Order
  <2>2. signalled' \cap (listed' \cup incoming') = {}
    BY <1>12, <1>13, <2>1 DEF IInv, Unsignalled
  <2>3. \A t \in Threads : thread[t].point # 0 => thread[t].point # Last'
    BY <1>5, SetLeaseFinds, SetLeaseNewest DEF IInv, Owners
  <2>4. kind'[Last'] = "explicit" => Last' \notin signalled' /\ point' = Last'
    <3>1. importing \notin signalled'
      BY <1>12, <2>2, SetLeaseFinds
    <3> QED
      BY <1>12, <1>13, <3>1, SetLeaseNewest
  <2> QED
    BY <1>1, <1>12, <2>2, <2>3, <2>4 DEF Unsignalled
<1>16. Kept'
  <2>1. \A k : InHand(k)' <=> InHand(k)
    BY <1>12 DEF InHand
  <2>2. \A k \in Explicit : k # 0
    BY Numbers DEF Explicit, IInv
  <2>3. ASSUME NEW k \in Explicit \ (incoming \cup listed \cup signalled')
        PROVE  k = point' \/ InHand(k)
    <3>1. k = point \/ InHand(k)
      BY <1>13, <2>3 DEF IInv, Kept
    <3>2. k = point => point' = point
      BY <1>13, <2>2, <2>3
    <3> QED
      BY <3>1, <3>2
  <2>4. point' # 0 /\ ~late' => Looks'
    BY <1>1, SetLeaseFinds DEF Looks, counts
  <2> QED
    BY <1>12, <2>1, <2>3, <2>4, SetLeaseNewest DEF Kept
<1>17. Orderly /\ LockCount => LockCount'
  <2> SUFFICES ASSUME Orderly, LockCount
               PROVE  LockCount'
    OBVIOUS
  <2>1. (\E t \in Threads : Busy(t)) => leased' = leased
    <3> SUFFICES ASSUME NEW t \in Threads, Busy(t)
                 PROVE  leased' = leased
      OBVIOUS
    <3>1. ~use.serial
      BY SetLeaseFinds, IdleFields DEF Busy
    <3>2. set # {} /\ Last \in set /\ Last \in Sent
      BY Newest DEF IInv, Order, TypeOK
    <3>3. kind[Last] \in use.kinds /\ (leased <=> kind[Last] = "implicit") /\ leased \in BOOLEAN
      BY <3>2 DEF IInv, OneAtATime, Lease, TypeOK
    <3>4. kind[importing] \in use.kinds /\ leased' = (kind[importing] = "implicit")
      BY SetLeaseFinds, SetLeaseLease
    <3> QED
      BY <3>1, <3>3, <3>4 DEF Orderly
  <2>2. \A t \in Threads : thread[t].at \in {"take", "count"} => thread[t].buf = leased'
    BY <2>1 DEF LockCount, Busy
  <2>3. leased' => point' = 0 /\ \A t \in Threads : thread[t].point = 0
    <3>1. leased' => kind[importing] = "implicit"
      BY SetLeaseLease
    <3>2. leased' => point' = 0
      BY <3>1, SetLeaseLease DEF LockCount
    <3>3. ASSUME leased', NEW t \in Threads, thread[t].point # 0
          PROVE  FALSE
      <4>1. Busy(t)
        BY <3>3 DEF IInv, Owners, Busy
      <4>2. leased
        BY <2>1, <3>3, <4>1
      <4> QED
        BY <3>3, <4>2 DEF LockCount
    <3> QED
      BY <3>2, <3>3
  <2>4. \A t \in Threads : Pending(t)' = Pending(t) /\ Pending(t) \in {0, 1}
    BY <1>12 DEF Pending, One
  <2>5. fbLocks' = One(leased' /\ refs' > 0)
                   + Pending("comp") + Pending("img") + Pending("kms")
    <3>1. leased \in BOOLEAN /\ leased' \in BOOLEAN
      BY <1>6 DEF IInv, TypeOK
    <3>2. One(leased /\ refs > 0) = One(leased) /\ One(leased' /\ refs' > 0) = One(leased')
          /\ One(leased) \in {0, 1} /\ One(leased') \in {0, 1}
      BY <1>12, <3>1, SetLeaseFinds DEF One
    <3> QED
      BY <2>4, <3>2, SetLeaseLease DEF LockCount, Threads
  <2> QED
    BY <1>12, <2>2, <2>3, <2>4, <2>5 DEF LockCount, Threads
<1>18. Gone => Gone'
  BY <1>1, SetLeaseFinds DEF Gone, SetLease, ConsiderDestroy, client
<1> QED
  BY <1>6, <1>7, <1>8, <1>9, <1>10, <1>11, <1>14, <1>15, <1>16, <1>17, <1>18, SetLeaseNewest
     DEF IInv

\* Threads stand still, and nothing uses the buffer that did not before.
LEMMA StandsStill ==
  ASSUME IInv, UNCHANGED <<client, commits, locked, lease, thread, destroyed>>
  PROVE  /\ OneAtATime' /\ Locks' /\ Lease' /\ Owners' /\ (Gone => Gone')
         /\ Sent' = Sent /\ Last' = Last /\ Explicit' = Explicit /\ Orderly' = Orderly
         /\ (InUse' => InUse) => Unsignalled'
         /\ (Looks => Looks') => Kept'
<1>1. Sent' = Sent /\ Last' = Last /\ Explicit' = Explicit /\ Orderly' = Orderly
  BY DEF client, commits, Sent, Last, Explicit, Orderly
<1>2. OneAtATime' /\ Locks' /\ Lease' /\ Owners' /\ (Gone => Gone')
  BY <1>1 DEF IInv, OneAtATime, Locks, Lease, Owners, Gone, client, commits, lease, Busy
<1>3. \A k : InHand(k)' <=> InHand(k)
  BY DEF InHand
<1>4. (InUse' => InUse) => Unsignalled'
  BY <1>1, <1>3 DEF IInv, Unsignalled, client, commits, lease
<1>5. (Looks => Looks') => Kept'
  BY <1>1, <1>3 DEF IInv, Kept, client, lease
<1> QED
  BY <1>1, <1>2, <1>4, <1>5

LEMMA ScanOutKeeps ==
  ASSUME IInv, NEW k \in Sent, ScanOut(k)
  PROVE  IInv'
<1>1. /\ k \in sampled \cap set /\ ~flip /\ ~queued /\ thread["comp"] = Idle
      /\ refs \in Nat /\ refs' = refs + 1 /\ queued' = TRUE /\ flip' = TRUE
      /\ UNCHANGED <<client, commits, locked, lease, tex, gpu, visible, thread, destroyed>>
  BY DEF ScanOut, Importing, Free, Runs, Painted, IInv, TypeOK
<1>2. InUse /\ Looks'
  BY <1>1 DEF InUse, Looks
<1>3. /\ OneAtATime' /\ Locks' /\ Lease' /\ Owners' /\ (Gone => Gone')
      /\ Sent' = Sent /\ Last' = Last /\ Explicit' = Explicit /\ Orderly' = Orderly
      /\ Unsignalled' /\ Kept'
  BY <1>1, <1>2, StandsStill
<1>4. TypeOK'
  BY <1>1, <1>3 DEF IInv, TypeOK, client, commits, lease, gpu
<1>5. Order'
  BY <1>1, <1>3 DEF IInv, Order, client, commits, gpu, Busy
<1>6. Flips'
  BY <1>1 DEF IInv, Flips, Busy
<1>7. \A t \in Threads : Holds(t)' = Holds(t) /\ Pending(t)' = Pending(t)
  BY <1>1 DEF Holds, Pending
<1>8. References'
  <2>1. One(queued) = 0 /\ One(queued') = 1
    BY <1>1 DEF One
  <2>2. /\ Holds("comp") \in {0, 1} /\ Holds("img") \in {0, 1} /\ Holds("kms") \in {0, 1}
        /\ One(tex > 0) \in {0, 1} /\ One(visible) \in {0, 1}
    BY Unreferenced DEF IInv, Threads, One
  <2>3. refs' = One(tex' > 0) + One(queued') + One(visible')
                + Holds("comp") + Holds("img") + Holds("kms")
    BY <1>1, <2>1, <2>2 DEF IInv, References
  <2> QED
    BY <1>1, <1>7, <2>3 DEF IInv, References, commits, gpu, Threads
<1>9. LockCount => LockCount'
  <2>1. One(leased /\ refs > 0) = One(leased' /\ refs' > 0)
    <3>1. refs > 0
      BY <1>2, UsedReferenced
    <3> QED
      BY <1>1, <3>1 DEF One, lease
  <2> QED
    BY <1>1, <1>7, <2>1 DEF LockCount, lease, Threads
<1> QED
  BY <1>3, <1>4, <1>5, <1>6, <1>8, <1>9 DEF IInv

LEMMA ScanOutOtherKeeps ==
  ASSUME IInv, ScanOutOther
  PROVE  IInv'
<1>1. /\ ~flip /\ flip' = TRUE
      /\ UNCHANGED <<client, commits, locked, lease, counts, gpu, queued, visible, thread,
                     destroyed>>
  BY DEF ScanOutOther, Importing, Free, Runs
<1>2. InUse' = InUse /\ Looks' = Looks
  BY <1>1 DEF InUse, Looks, commits, counts, gpu
<1>3. /\ OneAtATime' /\ Locks' /\ Lease' /\ Owners' /\ (Gone => Gone')
      /\ Sent' = Sent /\ Last' = Last /\ Explicit' = Explicit /\ Orderly' = Orderly
      /\ Unsignalled' /\ Kept'
  BY <1>1, <1>2, StandsStill
<1>4. TypeOK' /\ Flips'
  BY <1>1, <1>3 DEF IInv, TypeOK, Flips, client, commits, lease, counts, gpu, Busy
<1>5. Order'
  BY <1>1, <1>3 DEF IInv, Order, client, commits, gpu, Busy
<1>6. References' /\ (LockCount => LockCount')
  BY <1>1 DEF IInv, References, LockCount, commits, lease, counts, gpu, Holds, Pending
<1> QED
  BY <1>3, <1>4, <1>5, <1>6 DEF IInv

LEMMA StageKeeps ==
  ASSUME IInv, NEW k \in Sent, Stage(k)
  PROVE  IInv'
<1>1. /\ k \in sampled /\ k \in set /\ copying = FALSE /\ copying' = TRUE
      /\ sampled' = sampled \ {k} /\ importing = 0
      /\ UNCHANGED <<client, holders, importing, set, locked, lease, counts, kms, thread,
                     destroyed>>
  BY DEF Stage, Importing, Painted, IInv, TypeOK
<1>2. /\ Sent' = Sent /\ Last' = Last /\ Explicit' = Explicit /\ Orderly' = Orderly
      /\ InUse /\ Looks' = Looks
  BY <1>1 DEF client, counts, kms, Sent, Last, Explicit, Orderly, InUse, Looks
<1>3. TypeOK' /\ OneAtATime' /\ Locks' /\ Lease' /\ Owners' /\ Flips' /\ (Gone => Gone')
  BY <1>1, <1>2 DEF IInv, TypeOK, OneAtATime, Locks, Lease, Owners, Flips, Gone, client, lease,
     counts, kms, Busy
<1>4. Order'
  BY <1>1, <1>2 DEF IInv, Order, client, kms, Busy
<1>5. References' /\ (LockCount => LockCount')
  <2>1. Cardinality(sampled') + One(copying') = Cardinality(sampled) + One(copying)
    BY <1>1, Sampled DEF IInv, One
  <2> QED
    BY <1>1, <2>1 DEF IInv, References, LockCount, lease, counts, kms, Holds, Pending
<1>6. Unsignalled' /\ Kept'
  <2>1. \A j : InHand(j)' <=> InHand(j)
    BY <1>1 DEF InHand
  <2> QED
    BY <1>1, <1>2, <2>1 DEF IInv, Unsignalled, Kept, client, lease
<1> QED
  BY <1>2, <1>3, <1>4, <1>5, <1>6 DEF IInv

LEMMA RetireKeeps ==
  ASSUME IInv, Retire
  PROVE  IInv'
<1> DEFINE r == IF tex = 1 THEN [Idle EXCEPT !.at = "read", !.commit = 0] ELSE Idle
<1>1. /\ thread' = [thread EXCEPT !["comp"] = r] /\ tex' = tex - 1
      /\ copying = TRUE /\ copying' = FALSE /\ Free("comp")
      /\ UNCHANGED <<client, commits, locked, lease, refs, kms, destroyed>>
  BY DEF Retire, DropTexture, Importing, IInv, TypeOK
<1>2. /\ r \in Thread /\ r.at \in {"idle", "read"} /\ r.point = 0 /\ r.buf = FALSE
      /\ r.left = 0 /\ r.commit = 0 /\ (r.at = "read" <=> tex = 1)
  BY DropRecords DEF Idle
<1> HIDE DEF r
<1>3. /\ thread' \in [Threads -> Thread] /\ thread'["comp"] = r
      /\ \A u \in Threads \ {"comp"} : thread'[u] = thread[u]
      /\ thread["comp"] = Idle /\ OneAtATime' /\ "comp" \in Threads
  BY <1>1, <1>2, Begins DEF Threads
<1>4. tex \in Nat /\ tex > 0 /\ tex' \in Nat /\ tex' = Cardinality(sampled') + One(copying')
  BY <1>1, Sampled DEF IInv, TypeOK, References, One, commits
<1>5. /\ Lease' /\ Owners' /\ Unsignalled' /\ Kept'
      /\ Orderly' = Orderly /\ (LockCount => LockCount')
  <2>1. InUse' => InUse
    BY <1>1 DEF InUse, commits, kms
  <2>2. Looks => Looks'
    <3>1. tex > 0 => tex' > 0 \/ thread'["comp"].at = "read"
      BY <1>1, <1>2, <1>3, <1>4
    <3>2. \A u \in Threads : thread[u].at \in {"read", "take"} => thread'[u].at \in {"read", "take"}
      BY <1>3, IdleFields
    <3> QED
      BY <1>1, <1>3, <3>1, <3>2 DEF Looks, kms
  <2>3. UNCHANGED <<importing, set>>
    BY <1>1 DEF commits
  <2> QED
    BY <1>1, <1>2, <1>3, <2>1, <2>2, <2>3, BeginsPoints
<1>6. References'
  <2>1. /\ Holds("comp") = 0 /\ Holds("comp")' = One(r.at = "read")
        /\ Holds("img")' = Holds("img") /\ Holds("kms")' = Holds("kms")
    BY <1>2, <1>3, IdleFields DEF Holds, One, Threads
  <2>2. One(tex' > 0) + One(r.at = "read") = One(tex > 0)
    BY <1>1, <1>2, <1>4 DEF One
  <2>3. /\ Holds("img") \in {0, 1} /\ Holds("kms") \in {0, 1}
        /\ One(queued) \in {0, 1} /\ One(visible) \in {0, 1} /\ One(tex' > 0) \in {0, 1}
        /\ One(r.at = "read") \in {0, 1} /\ One(tex > 0) \in {0, 1}
    BY Unreferenced DEF IInv, Threads, One
  <2>4. refs = One(tex > 0) + One(queued) + One(visible) + 0 + Holds("img") + Holds("kms")
    BY <2>1 DEF IInv, References
  <2>5. refs' = One(tex' > 0) + One(queued) + One(visible)
                + Holds("comp")' + Holds("img")' + Holds("kms")'
    BY <1>1, <2>1, <2>2, <2>3, <2>4
  <2> QED
    BY <1>1, <1>4, <2>5 DEF References, kms
<1>7. TypeOK'
  BY <1>1, <1>3, <1>4, ZenonT(60) DEF IInv, TypeOK, client, commits, lease, kms, Thread, Steps, Sent
<1>8. Order'
  BY <1>1, <1>2, <1>3 DEF IInv, Order, client, commits, kms, Busy, Sent
<1>9. Locks'
  BY <1>1, <1>2, <1>3, IdleFields DEF IInv, Locks, client, commits, Sent
<1>10. Flips' /\ (Gone => Gone')
  BY <1>1, <1>3 DEF IInv, Flips, Gone, kms, client, lease, Busy, Threads
<1> QED
  BY <1>3, <1>5, <1>6, <1>7, <1>8, <1>9, <1>10 DEF IInv

LEMMA PageFlipKeeps ==
  ASSUME IInv, PageFlip
  PROVE  IInv'
<1> DEFINE r == IF visible THEN [Idle EXCEPT !.at = "read"] ELSE Idle
<1>1. /\ visible' = queued /\ queued' = FALSE /\ flip' = visible /\ Free("kms")
      /\ visible \in BOOLEAN /\ queued \in BOOLEAN
      /\ thread \in [Threads -> Thread]
      /\ UNCHANGED <<client, commits, locked, lease, counts, gpu, destroyed>>
  BY ThreadType DEF PageFlip, IInv, TypeOK
<1>2. /\ r \in Thread /\ r.at \in {"idle", "read"} /\ r.point = 0 /\ r.buf = FALSE
      /\ r.left = 0 /\ r.commit = 0 /\ (r.at = "read" <=> visible)
  BY <1>1 DEF Idle, Thread, Steps
<1>3. thread' = [thread EXCEPT !["kms"] = r]
  <2>1. thread["kms"] = Idle
    BY <1>1 DEF Free
  <2> QED
    BY <1>1, <2>1 DEF PageFlip, Threads
<1> HIDE DEF r
<1>4. /\ thread'["kms"] = r /\ "kms" \in Threads
      /\ \A u \in Threads \ {"kms"} : thread'[u] = thread[u]
      /\ thread' \in [Threads -> Thread] /\ thread["kms"] = Idle /\ OneAtATime'
  BY <1>1, <1>2, <1>3, Begins DEF Threads
<1>5. /\ Lease' /\ Owners' /\ Unsignalled' /\ Kept'
      /\ Orderly' = Orderly /\ (LockCount => LockCount')
  <2>1. InUse' => InUse
    BY <1>1 DEF InUse, commits, gpu
  <2>2. Looks => Looks'
    <3>1. visible => thread'["kms"].at = "read"
      BY <1>2, <1>4
    <3>2. \A u \in Threads : thread[u].at \in {"read", "take"} => thread'[u].at \in {"read", "take"}
      BY <1>4, IdleFields
    <3> QED
      BY <1>1, <1>4, <3>1, <3>2 DEF Looks, counts
  <2>3. UNCHANGED <<importing, set, refs>>
    BY <1>1 DEF commits, counts
  <2> QED
    BY <1>1, <1>2, <1>3, <1>4, <2>1, <2>2, <2>3, BeginsPoints
<1>6. References'
  <2>1. /\ Holds("kms") = 0 /\ Holds("kms")' = One(visible)
        /\ Holds("img")' = Holds("img") /\ Holds("comp")' = Holds("comp")
    BY <1>2, <1>4, IdleFields DEF Holds, One, Threads
  <2>2. /\ Holds("img") \in {0, 1} /\ Holds("comp") \in {0, 1}
        /\ One(queued) \in {0, 1} /\ One(visible) \in {0, 1} /\ One(tex > 0) \in {0, 1}
        /\ One(visible') = One(queued) /\ One(queued') = 0
    BY <1>1, Unreferenced DEF IInv, Threads, One
  <2>3. refs' = One(tex' > 0) + One(queued') + One(visible')
                + Holds("comp")' + Holds("img")' + Holds("kms")'
    BY <1>1, <2>1, <2>2 DEF IInv, References, counts
  <2> QED
    BY <1>1, <2>3 DEF IInv, References, commits, counts, gpu
<1>7. TypeOK'
  BY <1>1, <1>4 DEF IInv, TypeOK, client, commits, lease, counts, gpu, Thread, Steps, Sent
<1>8. Order'
  BY <1>1, <1>2, <1>4 DEF IInv, Order, client, commits, gpu, Busy, Sent
<1>9. Locks'
  <2>1. \A u \in Threads : thread'[u].commit = thread[u].commit
    BY <1>2, <1>4, IdleFields
  <2>2. Sent' = Sent
    BY <1>1 DEF client, Sent
  <2> QED
    BY <1>1, <2>1, <2>2 DEF IInv, Locks, client, commits
<1>10. Flips' /\ (Gone => Gone')
  BY <1>1, <1>2, <1>4, IdleFields DEF IInv, Flips, Gone, client, lease, Busy, Threads
<1> QED
  BY <1>4, <1>5, <1>6, <1>7, <1>8, <1>9, <1>10 DEF IInv

LEMMA DropCommitKeeps ==
  ASSUME IInv, NEW t \in Threads, NEW k \in Sent, DropCommit(t, k), t = "comp" => importing = 0,
         t # "kms"
  PROVE  IInv'
<1>1. k # importing
  BY Numbers DEF IInv, Order, TypeOK, DropCommit, Threads
<1> QED
  BY <1>1, LastDropKeeps, OtherDropKeeps

LEMMA StutterKeeps ==
  ASSUME IInv, UNCHANGED vars
  PROVE  IInv'
<1>1. /\ UNCHANGED <<client, commits, locked, lease, thread, destroyed>>
      /\ UNCHANGED <<counts, gpu, kms>>
  BY DEF vars
<1>2. InUse' = InUse /\ Looks' = Looks
  BY <1>1 DEF InUse, Looks, commits, counts, gpu, kms
<1>3. /\ OneAtATime' /\ Locks' /\ Lease' /\ Owners' /\ (Gone => Gone')
      /\ Sent' = Sent /\ Last' = Last /\ Explicit' = Explicit /\ Orderly' = Orderly
      /\ Unsignalled' /\ Kept'
  BY <1>1, <1>2, StandsStill
<1>4. TypeOK' /\ Flips' /\ Order'
  BY <1>1, <1>3 DEF IInv, TypeOK, Flips, Order, client, commits, lease, counts, gpu, kms, Busy
<1>5. References' /\ (LockCount => LockCount')
  BY <1>1, <1>3 DEF IInv, References, LockCount, commits, lease, counts, gpu, kms, Holds, Pending
<1> QED
  BY <1>3, <1>4, <1>5 DEF IInv

LEMMA InitIInv ==
  ASSUME Init
  PROVE  IInv
<1>1. /\ Sent = {} /\ sampled = {} /\ thread = [t \in Threads |-> Idle]
      /\ use \in [kinds : SUBSET Kinds, serial : BOOLEAN]
  <2>1. use \in [kinds : SUBSET Kinds, serial : BOOLEAN]
    <3>1. CASE use = [kinds |-> Kinds, serial |-> TRUE]
      BY <3>1
    <3>2. CASE \E ks \in Concurrent : use = [kinds |-> ks, serial |-> FALSE]
      BY <3>2, LeaseAssumption
    <3> QED
      BY <3>1, <3>2 DEF Init
  <2>2. Sent = {} /\ sampled = {} /\ thread = [t \in Threads |-> Idle]
    BY DEF Init, Sent
  <2> QED
    BY <2>1, <2>2
<1>2. \E n \in 0..MaxCommits : kind \in [1..n -> Kinds]
  <2>1. kind \in [1..0 -> Kinds] /\ 0 \in 0..MaxCommits
    BY LeaseAssumption DEF Init
  <2> QED
    BY <2>1
<1>3. \A t \in Threads : thread[t] = Idle
  BY <1>1
<1>4. TypeOK
  <2>1. thread \in [Threads -> Thread]
    BY <1>1, DropRecords
  <2>2. use \in [kinds : SUBSET Kinds, serial : BOOLEAN]
    <3>1. CASE use = [kinds |-> Kinds, serial |-> TRUE]
      BY <3>1
    <3>2. CASE \E ks \in Concurrent : use = [kinds |-> ks, serial |-> FALSE]
      <4>1. PICK ks \in SUBSET Kinds : use = [kinds |-> ks, serial |-> FALSE]
        BY <3>2, LeaseAssumption
      <4> QED
        BY <4>1
    <3> QED
      BY <3>1, <3>2 DEF Init
  <2>3. /\ Sent = {} /\ holders \in [Ids -> SUBSET {"comp", "img"}]
        /\ fbLocks \in Int /\ tex \in Nat /\ refs \in Nat
    BY DEF Init, Sent
  <2>4. thread \in [Threads -> [at : {"idle", "read", "take", "count", "finish", "unlock"},
                                buf : BOOLEAN, point : {0} \cup Sent, left : Nat,
                                commit : {0} \cup Sent]]
    BY <2>1 DEF Thread, Steps
  <2>5. /\ incoming \subseteq Sent /\ listed \subseteq Sent /\ sampled \subseteq Sent
        /\ importing \in {0} \cup Sent /\ set \subseteq Sent /\ locked \subseteq Sent
        /\ point \in {0} \cup Sent /\ signalled \subseteq Sent \ listed
    BY DEF Init
  <2>6. /\ leased \in BOOLEAN /\ late \in BOOLEAN /\ torn \in BOOLEAN
        /\ copying \in BOOLEAN /\ flip \in BOOLEAN
        /\ queued \in BOOLEAN /\ visible \in BOOLEAN /\ (queued => flip)
        /\ dropped \in BOOLEAN /\ destroyed \in BOOLEAN
    BY DEF Init
  <2> QED
    BY <1>2, <2>2, <2>3, <2>4, <2>5, <2>6 DEF TypeOK
<1>5. OneAtATime /\ Order /\ Locks /\ Flips /\ Gone
  BY <1>1, <1>3, IdleFields DEF Init, OneAtATime, Order, Locks, Flips, Gone, Busy, Threads
<1>6. References /\ LockCount
  <2>1. Cardinality(sampled) = 0
    BY <1>1, FS_EmptySet
  <2>2. \A t \in Threads : Holds(t) = 0 /\ Pending(t) = 0
    BY <1>3, IdleFields DEF Holds, Pending, One
  <2> QED
    BY <1>3, <2>1, <2>2, IdleFields DEF Init, References, LockCount, One, Threads
<1>7. Lease /\ Owners /\ Unsignalled /\ Kept
  BY <1>1, <1>3, IdleFields DEF Init, Lease, Owners, Unsignalled, Kept, Explicit, InUse
<1> QED
  BY <1>4, <1>5, <1>6, <1>7 DEF IInv

LEMMA NextKeeps ==
  ASSUME IInv, [Next]_vars
  PROVE  IInv'
<1>1. CASE ClientCommit
  BY <1>1, ClientCommitKeeps
<1>2. CASE ClientDestroys
  BY <1>2, ClientDestroysKeeps
<1>3. CASE Compositor
  <2>1. "comp" \in Threads
    BY DEF Threads
  <2>2. CASE \E k \in Sent : \/ Discard(k) \/ ImportCommit(k) \/ Stage(k) \/ ScanOut(k)
                            \/ (Importing /\ DropCommit("comp", k))
    <3>1. PICK k \in Sent : \/ Discard(k) \/ ImportCommit(k) \/ Stage(k) \/ ScanOut(k)
                            \/ (Importing /\ DropCommit("comp", k))
      BY <2>2
    <3> QED
      BY <2>1, <3>1, DiscardKeeps, ImportCommitKeeps, StageKeeps, ScanOutKeeps, DropCommitKeeps
         DEF Importing
  <2> QED
    BY <1>3, <2>2, RetrieveKeeps, SetLeaseKeeps, RetireKeeps, ScanOutOtherKeeps DEF Compositor
<1>4. CASE WaiterErases
  BY <1>4, DropCommitKeeps DEF WaiterErases, Threads
<1>5. CASE PageFlip
  BY <1>5, PageFlipKeeps
<1>6. CASE \E t \in Threads : DecRef(t)
  BY <1>6, DecRefReadKeeps, DecRefTakeKeeps, DecRefCountKeeps, DecRefKeepsKeeps,
     DecRefReleasesKeeps, CommitUnlocksKeeps DEF DecRef
<1>7. CASE UNCHANGED vars
  BY <1>7, StutterKeeps
<1> QED
  BY <1>1, <1>2, <1>3, <1>4, <1>5, <1>6, <1>7 DEF Next

\* The references, leases and points agree in every reachable state, and the locks
\* where a lease does not change under a DecRef: each step of each thread, and of
\* the client, keeps IInv.
THEOREM Inductive == Spec => []IInv
<1>1. Init => IInv
  BY InitIInv
<1>2. IInv /\ [Next]_vars => IInv'
  BY NextKeeps
<1> QED
  BY <1>1, <1>2, PTL DEF Spec

\* Under OneKind no lease ever changes under a DecRef.
LEMMA AlwaysOrderly ==
  ASSUME OneKind
  PROVE  Spec => []Orderly
<1>1. Init => Orderly
  BY DEF Init, OneKind, Orderly
<1>2. ASSUME Orderly, [Next]_vars
      PROVE  Orderly'
  <2>1. use' = use
    BY <1>2 DEF Next, vars, client, ClientCommit, ClientDestroys, Compositor, Discard, Retrieve,
       ImportCommit, Stage, ScanOut, ScanOutOther, DropCommit, SetLease, Retire, WaiterErases,
       PageFlip, DecRef, DecRefRead, DecRefTake, DecRefCount, DecRefKeeps, DecRefReleases,
       CommitUnlocks
  <2> QED
    BY <1>2, <2>1 DEF Orderly
<1> QED
  BY <1>1, <1>2, PTL DEF Spec

-----------------------------------------------------------------------------
(* What the invariant says of the client's buffer.                         *)

\* A buffer that is referenced is leased from its newest commit.
LEMMA UsedHeld ==
  ASSUME IInv, Orderly
  PROVE  HeldWhileUsed
<1> SUFFICES ASSUME InUse, ~torn
             PROVE  ~Told
  BY DEF HeldWhileUsed
<1>1. set # {} /\ kind[Last] \in Kinds
  <2>1. set # {}
    BY DEF IInv, Order, InUse
  <2> QED
    BY <2>1, Newest DEF IInv, TypeOK, Sent
<1>2. CASE kind[Last] = "explicit"
  BY <1>2 DEF IInv, Unsignalled, Told
<1>3. CASE kind[Last] = "implicit"
  <2>1. refs > 0 /\ leased
    BY <1>1, <1>3, UsedReferenced DEF IInv, Lease
  <2>2. One(leased /\ refs > 0) = 1
    BY <2>1 DEF One
  <2>3. fbLocks > 0
    BY <2>2, Unreferenced DEF IInv, LockCount, Threads
  <2> QED
    BY <1>3, <2>3 DEF Told
<1> QED
  BY <1>1, <1>2, <1>3 DEF Kinds

\* In an unreferenced framebuffer that no DecRef is at, a point is late.
LEMMA IdleSignalled ==
  ASSUME IInv
  PROVE  SignalledWhenIdle
<1> SUFFICES ASSUME refs = 0, \A t \in Threads : thread[t] = Idle,
                    NEW k \in Explicit \ (incoming \cup listed \cup signalled)
             PROVE  late /\ k = point
  BY DEF SignalledWhenIdle
<1>1. k # 0 /\ \A t \in Threads : thread[t].point = 0 /\ thread[t].at = "idle"
  BY IdleFields, Numbers DEF IInv, Explicit
<1>2. k = point
  BY <1>1 DEF IInv, Kept, InHand
<1>3. tex = 0 /\ ~queued /\ ~visible
  <2>1. /\ tex \in Nat /\ (tex > 0 => refs > 0)
        /\ Holds("comp") \in {0, 1} /\ Holds("img") \in {0, 1} /\ Holds("kms") \in {0, 1}
    BY Unreferenced DEF IInv, Threads, TypeOK
  <2>2. /\ One(tex > 0) \in {0, 1} /\ One(queued) \in {0, 1} /\ One(visible) \in {0, 1}
        /\ queued => One(queued) = 1
        /\ visible => One(visible) = 1
    BY DEF One
  <2> QED
    BY <2>1, <2>2 DEF IInv, References
<1>4. ~Looks
  BY <1>1, <1>3 DEF Looks
<1> QED
  BY <1>1, <1>2, <1>4 DEF IInv, Kept, TypeOK

\* A destroyed buffer was unlocked by a framebuffer that nothing referenced, and no
\* commit is left to sample it.
LEMMA DestroyedUnreferenced ==
  ASSUME IInv, Orderly
  PROVE  IdleWhenDestroyed
<1> SUFFICES ASSUME destroyed
             PROVE  (tex > 0 => copying /\ ~leased) /\ (leased => refs = 0)
  BY DEF IdleWhenDestroyed
<1>1. fbLocks = 0 /\ locked = {} /\ tex \in Nat /\ refs \in Nat
  BY DEF IInv, Gone, TypeOK
<1>2. leased => refs = 0
  <2>1. leased /\ refs > 0 => One(leased /\ refs > 0) = 1
    BY DEF One
  <2> QED
    BY <1>1, <2>1, Unreferenced DEF IInv, LockCount, Threads
<1>3. tex > 0 => copying
  <2>1. sampled = {}
    BY <1>1 DEF IInv, Locks, Order, TypeOK
  <2>2. Cardinality(sampled) = 0
    BY <2>1, FS_EmptySet
  <2> QED
    BY <2>2 DEF IInv, References, One
<1> QED
  BY <1>1, <1>2, <1>3, Unreferenced DEF IInv

\* Types are kept, and references stay natural numbers: none is given back twice.
THEOREM TypeCorrect == Spec => []TypeOK
<1>1. IInv => TypeOK
  BY DEF IInv
<1> QED
  BY <1>1, Inductive, PTL

\* A framebuffer never has a lease by lock and one by release point at once, and a
\* lock of the buffer is never given back twice.
THEOREM OneLeaseAtATime ==
  ASSUME OneKind
  PROVE  Spec => []OneLease
<1>1. ASSUME IInv, Orderly
      PROVE  OneLease
  <2>1. One(leased /\ refs > 0) \in {0, 1}
    BY DEF One
  <2> QED
    BY <1>1, <2>1, Unreferenced DEF IInv, LockCount, OneLease, Threads
<1> QED
  BY <1>1, Inductive, AlwaysOrderly, PTL

\* A client never gets back a buffer that is scanned out, copied or sampled by a
\* commit, by wl_buffer.release or by the release point of its newest commit, unless
\* an older point was put back over that one.
THEOREM BufferHeldWhileUsed ==
  ASSUME OneKind
  PROVE  Spec => []HeldWhileUsed
<1>1. IInv /\ Orderly => HeldWhileUsed
  BY UsedHeld
<1> QED
  BY <1>1, Inductive, AlwaysOrderly, PTL

\* When the last reference of a framebuffer is gone every release point of the
\* buffer's commits has been signalled, or will be when the list is cleared, but for
\* one at most, which was put back when no DecRef was left to look for it.
THEOREM PointsSignalledWhenIdle == Spec => []SignalledWhenIdle
<1>1. IInv => SignalledWhenIdle
  BY IdleSignalled
<1> QED
  BY <1>1, Inductive, PTL

\* What is left of the assertion of CBufferMemo::OnBufferDestroyed: the texture of a
\* buffer that is destroyed is referenced at most by a staged copy, and then there was
\* no lock to keep the buffer; a framebuffer leased by lock is unreferenced.
THEOREM BufferIdleWhenDestroyed ==
  ASSUME OneKind
  PROVE  Spec => []IdleWhenDestroyed
<1>1. IInv /\ Orderly => IdleWhenDestroyed
  BY DestroyedUnreferenced
<1> QED
  BY <1>1, Inductive, AlwaysOrderly, PTL
====
