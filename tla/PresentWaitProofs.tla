--------------------------- MODULE PresentWaitProofs ---------------------------
(* Proofs about PresentWait, for every size of the ring and of the mailbox and
   any number of presents, tokens and swapchains: that the waiter only waits on
   the living swapchain, the types, and that the presents in flight are exactly
   the occupied slots. *)
EXTENDS PresentWait, FiniteSetTheorems, TLAPS

\* Both thread records and the swapchain keep their fields.
ShapeOK ==
  /\ main = [pc |-> main.pc, tag |-> main.tag, n |-> main.n, ret |-> main.ret]
  /\ main.ret \in {"submit", "acquire"}
  /\ waiter = [pc |-> waiter.pc, id |-> waiter.id, n |-> waiter.n, chain |-> waiter.chain]
  /\ swapchain = [gen |-> swapchain.gen, queued |-> swapchain.queued,
                  shown |-> swapchain.shown, since |-> swapchain.since,
                  waits |-> swapchain.waits]

\* Who holds present_wait_lock, and what the waiter holds it for.
LockInv ==
  /\ waitLock = "main" <=> main.pc \in {"flush", "flushed", "make"}
  /\ waitLock = "waiter" <=> waiter.pc # "wait"
  /\ waiter.pc # "wait" => waiter.chain = swapchain.gen

ExclusionInv == ShapeOK /\ LockInv

LEMMA ExclusionInit == Init => ExclusionInv
  BY DEF Init, ExclusionInv, ShapeOK, LockInv

LEMMA ExclusionStep == ExclusionInv /\ [Next]_vars => ExclusionInv'
<1> SUFFICES ASSUME ExclusionInv, [Next]_vars PROVE ExclusionInv'
  OBVIOUS
<1> USE DEF ExclusionInv, ShapeOK, LockInv
<1>1. CASE UNCHANGED vars
  BY <1>1 DEF vars
<1>2. CASE BeginPresent \/ StartPresent \/ ModeChange \/ Drain \/ Shutdown
  BY <1>2 DEF BeginPresent, StartPresent, ModeChange, Drain, Shutdown, Goto, MainOnly
<1>3. CASE InPresent
  <2>1. CASE PresentAccepted \/ PresentRefused
    BY <2>1 DEF PresentAccepted, PresentRefused, Goto
  <2>2. CASE ApproxQueued \/ ApproxPublish \/ ApproxDone
    BY <2>2 DEF ApproxQueued, ApproxPublish, ApproxDone, Goto, MainOnly
  <2>3. CASE InsertTag
    BY <2>3 DEF InsertTag, MainOnly
  <2>4. CASE NoteEvicted \/ NoteQueued \/ HandToWaiter \/ Acquire
    BY <2>4 DEF NoteEvicted, NoteQueued, HandToWaiter, Acquire, Goto, MainOnly
  <2>5. CASE RemakeLock
    BY <2>5 DEF RemakeLock, Goto, MainOnly
  <2>6. CASE RemakeFlush \/ ShutdownFlush
    BY <2>6 DEF RemakeFlush, ShutdownFlush, FlushTags, MainOnly
  <2>7. CASE RemakeNote \/ ShutdownNote
    BY <2>7 DEF RemakeNote, ShutdownNote, MainOnly
  <2>8. CASE RemakeMake
    BY <2>8 DEF RemakeMake, Goto, MainOnly
  <2> QED
    BY <1>3, <2>1, <2>2, <2>3, <2>4, <2>5, <2>6, <2>7, <2>8 DEF InPresent
<1>4. CASE WaiterStep
  <2>1. CASE WaiterWake
    BY <2>1 DEF WaiterWake, WaiterOnly
  <2>2. CASE WaiterReturns \/ WaiterCheck \/ WaiterNote \/ WaiterMark
    BY <2>2 DEF WaiterReturns, WaiterCheck, WaiterNote, WaiterMark, WaiterOnly
  <2>3. CASE WaiterPublish
    BY <2>3 DEF WaiterPublish, WaiterOnly
  <2> QED
    BY <1>4, <2>1, <2>2, <2>3 DEF WaiterStep
<1>5. CASE DisplayShows
  BY <1>5 DEF DisplayShows
<1> QED
  BY <1>1, <1>2, <1>3, <1>4, <1>5 DEF Next

(* The waiter never waits on a destroyed swapchain: present_wait_lock excludes
   vulkan_remake_swapchain from the whole of the waiter's scope. *)
THEOREM WaiterSwapchainLive == Spec => []WaiterOnLiveSwapchain
<1>1. ExclusionInv => WaiterOnLiveSwapchain
  BY DEF ExclusionInv, LockInv, WaiterOnLiveSwapchain
<1> QED
  BY ExclusionInit, ExclusionStep, <1>1, PTL DEF Spec

--------------------------------------------------------------------------------
(* The ledger of presents in flight.                                            *)

\* The present under way was not counted as queued yet.
Uncounted ==
  \/ main.pc \in {"submit", "approx", "insert", "evicted", "queued"}
  \/ main.pc \in {"remake", "flush", "flushed", "make"} /\ main.ret = "submit"

\* A swapchain is re-made only while the bound leaves one to make.
Numbers ==
  /\ counts.queued <= presentId /\ (Uncounted => counts.queued < presentId)
  /\ main.pc \in {"remake", "flush", "flushed", "make"} => swapchain.gen < MaxSwapchains

\* A count is in hand only between the ring and the note of it, a tag only until
\* it is in the ring or published.
InHand ==
  /\ main.n # 0 => main.pc \in {"evicted", "flushed", "shutNote"}
  /\ waiter.n # 0 => waiter.pc = "note"
  /\ main.pc \in {"approx", "approxPublish", "insert"} => main.tag # 0
  /\ \A i \in SlotIndex : slots[i].id # 0 => slots[i].token # 0

Ledger == Numbers /\ InHand /\ InFlightExact

IInv == TypeOK /\ Ledger

\* The finite sets of slots.
LEMMA SlotSets ==
  ASSUME NEW S \in SUBSET SlotIndex
  PROVE  IsFiniteSet(S) /\ Cardinality(S) \in 0 .. RingSize
<1>1. IsFiniteSet(SlotIndex) /\ Cardinality(SlotIndex) = RingSize
  BY FS_Interval, RingAssumption DEF SlotIndex
<1>2. IsFiniteSet(S) /\ Cardinality(S) <= RingSize
  BY <1>1, FS_Subset
<1>3. Cardinality(S) \in Nat
  BY <1>2, FS_CardinalityType
<1> QED
  BY <1>2, <1>3, RingAssumption

\* A finite set of numbers has its elements in ascending order: an element's
\* place is how many are not greater.
LEMMA AscendingExists ==
  ASSUME NEW S \in SUBSET Int, IsFiniteSet(S)
  PROVE  \E s \in [1 .. Cardinality(S) -> S] :
           \A j, k \in DOMAIN s : j < k => s[j] < s[k]
<1> DEFINE n == Cardinality(S)
           UpTo(i) == {j \in S : j <= i}
           place == [i \in S |-> Cardinality(UpTo(i))]
<1>1. n \in Nat
  BY FS_CardinalityType
<1>2. ASSUME NEW i \in S PROVE IsFiniteSet(UpTo(i)) /\ Cardinality(UpTo(i)) \in 1 .. n
  <2>1. IsFiniteSet(UpTo(i)) /\ Cardinality(UpTo(i)) <= n
    BY FS_Subset
  <2>2. Cardinality(UpTo(i)) \in Nat
    BY <2>1, FS_CardinalityType
  <2>3. UpTo(i) # {}
    OBVIOUS
  <2>4. Cardinality(UpTo(i)) # 0
    BY <2>1, <2>3, FS_EmptySet
  <2> QED
    BY <1>1, <2>1, <2>2, <2>4
<1>3. ASSUME NEW i \in S, NEW j \in S, i < j PROVE place[i] < place[j]
  <2>1. UpTo(i) \in SUBSET UpTo(j) /\ j \in UpTo(j) /\ j \notin UpTo(i)
    <3>1. \A x \in S : x \in Int /\ (x <= i => x <= j)
      BY <1>3
    <3>2. i \in Int /\ j \in Int /\ j <= j /\ ~(j <= i)
      BY <1>3
    <3> QED
      BY <3>1, <3>2
  <2>2. /\ Cardinality(UpTo(i)) <= Cardinality(UpTo(j))
        /\ Cardinality(UpTo(i)) # Cardinality(UpTo(j))
    BY <1>2, <2>1, FS_Subset
  <2>3. Cardinality(UpTo(i)) \in 1 .. n /\ Cardinality(UpTo(j)) \in 1 .. n
    BY <1>2
  <2> QED
    BY <1>1, <2>2, <2>3
<1>4. place \in [S -> 1 .. n]
  BY <1>2
<1> HIDE DEF place
<1>5. place \in Surjection(S, 1 .. n)
  <2>1. place \in Injection(S, 1 .. n)
    <3>1. \A i, j \in S : i # j => i < j \/ j < i
      OBVIOUS
    <3>2. \A i, j \in S : i # j => place[i] # place[j]
      BY <1>1, <1>3, <1>4, <3>1
    <3> QED
      BY <1>4, <3>2 DEF Injection, IsInjective
  <2>2. IsFiniteSet(1 .. n) /\ Cardinality(1 .. n) = n
    BY <1>1, FS_Interval
  <2> QED
    BY <2>1, <2>2, FS_Injection
<1>6. \A k \in 1 .. n : \E i \in S : place[i] = k
  BY <1>5 DEF Surjection
<1> DEFINE s == [k \in 1 .. n |-> CHOOSE i \in S : place[i] = k]
<1>7. \A k \in 1 .. n : s[k] \in S /\ place[s[k]] = k
  BY <1>6
<1>8. s \in [1 .. n -> S] /\ DOMAIN s = 1 .. n
  BY <1>7
<1> HIDE DEF s
<1>9. ASSUME NEW j \in 1 .. n, NEW k \in 1 .. n, j < k PROVE s[j] < s[k]
  <2>1. s[j] \in S /\ s[k] \in S /\ place[s[j]] = j /\ place[s[k]] = k
    BY <1>7
  <2>2. ~(s[k] < s[j]) /\ s[k] # s[j]
    <3>1. s[k] < s[j] => place[s[k]] < place[s[j]]
      BY <1>3, <2>1
    <3>2. place[s[j]] < place[s[k]]
      BY <2>1, <1>9
    <3> HIDE DEF n
    <3> QED
      BY <1>1, <1>9, <2>1, <3>1, <3>2
  <2>3. s[j] \in Int /\ s[k] \in Int
    BY <2>1
  <2> QED
    BY <2>2, <2>3
<1> QED
  BY <1>8, <1>9

\* What the loop over the ring visits: each due slot, once, in order.
LEMMA Visits ==
  ASSUME NEW u
  PROVE  /\ VisitOrder(u) \in Seq(SlotIndex)
         /\ Len(VisitOrder(u)) = Cardinality(Due(u)) /\ Len(VisitOrder(u)) \in 0 .. RingSize
         /\ \A k \in 1 .. Len(VisitOrder(u)) : VisitOrder(u)[k] \in Due(u)
<1>1. IsFiniteSet(Due(u)) /\ Cardinality(Due(u)) \in 0 .. RingSize /\ Due(u) \subseteq SlotIndex
  BY SlotSets DEF Due
<1>2. Due(u) \in SUBSET Int
  BY <1>1 DEF SlotIndex
<1>3. VisitOrder(u) \in [1 .. Cardinality(Due(u)) -> Due(u)]
  BY <1>1, <1>2, AscendingExists DEF VisitOrder, Ascending
<1> QED
  BY <1>1, <1>3, RingAssumption

LEMMA Parts ==
  ASSUME NEW S, IsFiniteSet(S), NEW T \in SUBSET S
  PROVE  Cardinality(S) = Cardinality(T) + Cardinality(S \ T)
<1>1. IsFiniteSet(T) /\ IsFiniteSet(S \ T)
  BY FS_Subset
<1>2. T \cup (S \ T) = S /\ T \cap (S \ T) = {}
  OBVIOUS
<1>3. Cardinality(T) \in Nat /\ Cardinality(S \ T) \in Nat /\ Cardinality({}) = 0
  BY <1>1, FS_CardinalityType, FS_EmptySet
<1>4. Cardinality(T \cup (S \ T)) =
        Cardinality(T) + Cardinality(S \ T) - Cardinality(T \cap (S \ T))
  BY <1>1, FS_Union
<1>5. Cardinality(T \cup (S \ T)) = Cardinality(S)
  BY <1>2, Zenon
<1>6. Cardinality(T \cap (S \ T)) = 0
  BY <1>2, <1>3, Zenon
<1> QED
  BY <1>3, <1>4, <1>5, <1>6

\* The ring is emptied up to an id: what is left, and how many.
LEMMA Clears ==
  ASSUME TypeOK, NEW u, slots' = Cleared(u)
  PROVE  /\ slots' \in [SlotIndex -> Slot]
         /\ \A i \in SlotIndex : slots'[i].id # 0 => slots'[i] = slots[i]
         /\ Cardinality(Occupied') = Cardinality(Occupied) - Cardinality(Due(u))
         /\ Cardinality(Due(u)) \in 0 .. RingSize /\ Cardinality(Occupied) \in 0 .. RingSize
         /\ Cardinality(Occupied') \in 0 .. RingSize
<1>1. FreeSlot \in Slot /\ FreeSlot.id = 0
  BY BoundAssumption DEF FreeSlot, Slot
<1>2. /\ slots' \in [SlotIndex -> Slot]
      /\ \A i \in SlotIndex : slots'[i] = IF i \in Due(u) THEN FreeSlot ELSE slots[i]
  BY <1>1 DEF Cleared, TypeOK
<1>3. Due(u) \subseteq Occupied /\ Occupied \subseteq SlotIndex /\ Occupied' = Occupied \ Due(u)
  BY <1>1, <1>2 DEF Due, Occupied
<1>4. /\ IsFiniteSet(Due(u)) /\ IsFiniteSet(Occupied \ Due(u))
      /\ Cardinality(Due(u)) \in 0 .. RingSize /\ Cardinality(Occupied) \in 0 .. RingSize
      /\ Cardinality(Occupied \ Due(u)) \in 0 .. RingSize
  BY <1>3, SlotSets
<1>5. Cardinality(Occupied) = Cardinality(Due(u)) + Cardinality(Occupied \ Due(u))
  BY <1>3, <1>4, SlotSets, Parts
<1> QED
  BY <1>1, <1>2, <1>3, <1>4, <1>5, RingAssumption

\* A tag is stored in a slot, which was free or not.
LEMMA Stores ==
  ASSUME TypeOK, NEW i \in SlotIndex, NEW s \in Slot, s.id # 0, slots' = [slots EXCEPT ![i] = s]
  PROVE  /\ slots' \in [SlotIndex -> Slot]
         /\ \A j \in SlotIndex : slots'[j] = IF j = i THEN s ELSE slots[j]
         /\ Cardinality(Occupied') = Cardinality(Occupied) + (IF slots[i].id = 0 THEN 1 ELSE 0)
         /\ Cardinality(Occupied) \in 0 .. RingSize /\ Cardinality(Occupied') \in 0 .. RingSize
<1>1. /\ slots' \in [SlotIndex -> Slot]
      /\ \A j \in SlotIndex : slots'[j] = IF j = i THEN s ELSE slots[j]
  BY DEF TypeOK
<1>2. Occupied' = Occupied \cup {i} /\ Occupied \subseteq SlotIndex /\ Occupied' \subseteq SlotIndex
  BY <1>1 DEF Occupied
<1>3. /\ IsFiniteSet(Occupied) /\ Cardinality(Occupied) \in 0 .. RingSize
      /\ Cardinality(Occupied') \in 0 .. RingSize
  BY <1>2, SlotSets
<1>4. i \in Occupied <=> slots[i].id # 0
  BY DEF Occupied
<1>5. Cardinality(Occupied \cup {i}) =
        IF i \in Occupied THEN Cardinality(Occupied) ELSE Cardinality(Occupied) + 1
  BY <1>3, FS_AddElement
<1>6. Cardinality(Occupied') = Cardinality(Occupied) + (IF slots[i].id = 0 THEN 1 ELSE 0)
  BY <1>2, <1>3, <1>4, <1>5
<1> QED
  BY <1>1, <1>3, <1>6

LEMMA SameSlots ==
  ASSUME TypeOK, slots' = slots
  PROVE  Cardinality(Occupied') = Cardinality(Occupied) /\ Cardinality(Occupied) \in 0 .. RingSize
<1>1. Occupied' = Occupied /\ Occupied \subseteq SlotIndex
  BY DEF Occupied
<1> QED
  BY <1>1, SlotSets

LEMMA PublishTypes ==
  ASSUME TypeOK, NEW recs \in Seq(Feedback), Publish(recs)
  PROVE  /\ mailbox' \in Seq(Feedback) /\ Len(mailbox') <= MailboxCap
         /\ published' \in Seq(Feedback)
<1>1. mailbox \in Seq(Feedback) /\ published \in Seq(Feedback) /\ MailboxCap \in Nat \ {0}
  BY CapAssumption DEF TypeOK
<1> DEFINE all == mailbox \o recs
           n == Len(all)
           m == IF n > MailboxCap THEN n - MailboxCap + 1 ELSE 1
<1>2. all \in Seq(Feedback) /\ n \in Nat
  BY <1>1
<1>3. mailbox' = SubSeq(all, m, n) /\ published' = published \o recs
  BY DEF Publish, PutAll
<1> HIDE DEF all
<1>4. m \in 1 .. n + 1 /\ n - m + 1 <= MailboxCap
  BY <1>1, <1>2
<1> HIDE DEF n, m
<1>5. \A k \in m .. n : all[k] \in Feedback
  BY <1>2, <1>4 DEF n
<1>6. SubSeq(all, m, n) \in Seq(Feedback) /\ Len(SubSeq(all, m, n)) = n - m + 1
  BY <1>2, <1>4, <1>5
<1> QED
  BY <1>1, <1>3, <1>4, <1>6

LEMMA OneRecord ==
  ASSUME NEW t \in Tokens, NEW i \in 0 .. MaxPresents, NEW p \in BOOLEAN, NEW v \in BOOLEAN
  PROVE  <<Record(t, i, p, v)>> \in Seq(Feedback)
<1>1. Record(t, i, p, v) \in Feedback
  BY DEF Record, Feedback
<1> QED
  BY <1>1

\* What the loops of the waiter and of the flush publish.
LEMMA LoopRecords ==
  ASSUME TypeOK, InHand, NEW u
  PROVE  LET idx == VisitOrder(u)
         IN  /\ [k \in 1 .. Len(idx) |-> Record(slots[idx[k]].token, 0, FALSE, FALSE)]
                  \in Seq(Feedback)
             /\ [k \in 1 .. Len(idx) |->
                   Record(slots[idx[k]].token, slots[idx[k]].id, TRUE,
                          slots[idx[k]].id = waiter.id)] \in Seq(Feedback)
<1> DEFINE idx == VisitOrder(u)
<1>1. Len(idx) \in Nat /\ \A k \in 1 .. Len(idx) : idx[k] \in Due(u)
  BY Visits
<1> HIDE DEF idx
<1>2. \A i \in Due(u) : slots[i].token \in Tokens /\ slots[i].id \in 0 .. MaxPresents
  <2> SUFFICES ASSUME NEW i \in Due(u)
               PROVE  slots[i].token \in Tokens /\ slots[i].id \in 0 .. MaxPresents
    OBVIOUS
  <2>1. i \in SlotIndex /\ slots[i].id # 0
    BY DEF Due
  <2>2. slots[i] \in Slot
    BY <2>1 DEF TypeOK
  <2> QED
    BY <2>1, <2>2, BoundAssumption DEF InHand, Slot, Tokens
<1>3. \A t \in Tokens, i \in 0 .. MaxPresents, p, v \in BOOLEAN : Record(t, i, p, v) \in Feedback
  BY DEF Record, Feedback
<1>4. 0 \in 0 .. MaxPresents
  BY BoundAssumption
<1>5. \A k \in 1 .. Len(idx) :
        /\ Record(slots[idx[k]].token, 0, FALSE, FALSE) \in Feedback
        /\ Record(slots[idx[k]].token, slots[idx[k]].id, TRUE, slots[idx[k]].id = waiter.id)
             \in Feedback
  BY <1>1, <1>2, <1>3, <1>4
<1> DEFINE n == Len(idx)
           flushed == [k \in 1 .. n |-> Record(slots[idx[k]].token, 0, FALSE, FALSE)]
           waited == [k \in 1 .. n |->
                        Record(slots[idx[k]].token, slots[idx[k]].id, TRUE,
                               slots[idx[k]].id = waiter.id)]
<1>6. flushed \in [1 .. n -> Feedback] /\ waited \in [1 .. n -> Feedback]
  BY <1>5
<1>7. flushed \in Seq(Feedback) /\ waited \in Seq(Feedback)
  <2> HIDE DEF flushed, waited
  <2> QED
    BY <1>1, <1>6
<1> QED
  BY <1>7 DEF idx

--------------------------------------------------------------------------------
(* Types, action by action. *)

Mains == [pc : MainSteps, tag : 0 .. MaxTokens, n : 0 .. RingSize,
          ret : {"submit", "acquire"}]
Waiters == [pc : WaiterSteps, id : 0 .. MaxPresents, n : 0 .. RingSize,
            chain : 0 .. MaxSwapchains]

Chains == [gen : 1 .. MaxSwapchains, queued : 0 .. MaxPresents, shown : 0 .. MaxPresents,
           since : 0 .. MaxPresents, waits : BOOLEAN]

LEMMA RecordTypes ==
  ASSUME TypeOK
  PROVE  /\ main \in Mains /\ waiter \in Waiters /\ swapchain \in Chains
         /\ presentId \in 0 .. MaxPresents /\ currentId \in 0 .. MaxPresents
         /\ 0 \in 0 .. MaxPresents /\ 0 \in 0 .. MaxTokens /\ 0 \in 0 .. MaxSwapchains
         /\ 1 .. MaxSwapchains \subseteq 0 .. MaxSwapchains
BY BoundAssumption DEF TypeOK, Mains, Waiters, Chains

LEMMA TokenTaken ==
  ASSUME TypeOK, TakeTag
  PROVE  /\ TakenToken \in Tokens /\ taken' \subseteq Tokens
         /\ tag' \in [last : 0 .. MaxTokens, pending : 0 .. MaxTokens]
<1>1. tag.last \in 0 .. MaxTokens /\ tag.pending \in 0 .. MaxTokens
  BY DEF TypeOK
<1>2. TakenToken \in Tokens
  BY <1>1, BoundAssumption DEF TakeTag, TakenToken, Tokens
<1>3. (IF tag.pending # 0 THEN tag.last ELSE tag.last + 1) \in 0 .. MaxTokens
  BY <1>1, BoundAssumption DEF TakeTag, TakenToken
<1> QED
  BY <1>2, <1>3, BoundAssumption DEF TakeTag, TypeOK

LEMMA MainTypes ==
  ASSUME IInv,
         \/ BeginPresent \/ StartPresent \/ ModeChange \/ Drain \/ Shutdown
         \/ PresentAccepted \/ HandToWaiter \/ Acquire \/ RemakeLock \/ RemakeMake
  PROVE  TypeOK'
<1> USE BoundAssumption DEF IInv, Goto, MainOnly
<1>1. CASE BeginPresent
  BY <1>1, SMTT(60) DEF BeginPresent, TypeOK
<1>2. CASE StartPresent
  <2>1. main' \in Mains
    BY <1>2, RecordTypes DEF Mains, StartPresent, MainSteps
  <2>2. presentId' \in 0 .. MaxPresents /\ hdr' \in BOOLEAN
    BY <1>2, SMTT(60) DEF StartPresent, TypeOK
  <2> QED
    BY <1>2, <2>1, <2>2 DEF StartPresent, TypeOK, Mains
<1>3. CASE ModeChange
  <2>1. main' \in Mains
    BY <1>3, RecordTypes DEF Mains, ModeChange, MainSteps
  <2> QED
    BY <1>3, <2>1 DEF ModeChange, TypeOK, Mains
<1>4. CASE Drain
  BY <1>4, CapAssumption, SMTT(60) DEF Drain, TypeOK
<1>5. CASE Shutdown
  <2>1. main' \in Mains
    BY <1>5, RecordTypes DEF Mains, Shutdown, MainSteps
  <2> QED
    BY <1>5, <2>1 DEF Shutdown, TypeOK, Mains
<1>6. CASE PresentAccepted
  <2>1. swapchain' \in Chains
    BY <1>6, RecordTypes DEF PresentAccepted, Chains
  <2>2. CASE TakeTag /\ main' = [main EXCEPT !.pc = IF swapchain.waits THEN "insert" ELSE "approx",
                                            !.tag = TakenToken]
    <3>1. TakenToken \in 0 .. MaxTokens
      BY <2>2, TokenTaken DEF Tokens
    <3>2. main' \in Mains
      BY <2>2, <3>1, RecordTypes DEF Mains, MainSteps
    <3> QED
      BY <1>6, <2>1, <2>2, <3>2, TokenTaken DEF PresentAccepted, TypeOK, Mains, Chains
  <2>3. CASE Goto("hand") /\ UNCHANGED <<tag, taken>>
    <3>1. main' \in Mains
      BY <2>3, RecordTypes DEF Mains, MainSteps
    <3> QED
      BY <1>6, <2>1, <2>3, <3>1 DEF PresentAccepted, TypeOK, Mains, Chains
  <2> QED
    BY <1>6, <2>2, <2>3 DEF PresentAccepted
<1>7. CASE HandToWaiter \/ Acquire \/ RemakeLock
  <2>1. main' \in Mains
    BY <1>7, RecordTypes DEF Mains, HandToWaiter, Acquire, RemakeLock, MainSteps
  <2>2. currentId' \in 0 .. MaxPresents /\ waitLock' \in {"free", "main", "waiter"}
    BY <1>7, SMTT(60) DEF HandToWaiter, Acquire, RemakeLock, TypeOK
  <2>3. UNCHANGED <<waiter, presentId, slots, counts, mailbox, tag, swapchain, hdr, shutdown,
                    taken, published>>
    BY <1>7 DEF HandToWaiter, Acquire, RemakeLock
  <2> QED
    BY <2>1, <2>2, <2>3 DEF TypeOK, Mains
<1>8. CASE RemakeMake
  <2>1. swapchain.gen < MaxSwapchains /\ (main.ret = "submit" => 0 < presentId)
    <3>1. presentId \in 0 .. MaxPresents /\ counts.queued \in Nat
      BY DEF TypeOK
    <3>2. main.pc = "make"
      BY <1>8 DEF RemakeMake
    <3> QED
      BY <3>1, <3>2 DEF Ledger, Numbers, Uncounted
  <2>2. main' \in Mains
    BY <1>8, RecordTypes DEF Mains, RemakeMake, MainSteps
  <2>3. swapchain' \in Chains
    <3>1. PICK since : since = IF main.ret = "submit" THEN presentId - 1 ELSE presentId
      OBVIOUS
    <3>2. swapchain' = [swapchain EXCEPT !.gen = @ + 1, !.queued = 0, !.shown = 0, !.since = since]
      BY <1>8, <3>1 DEF RemakeMake
    <3>3. since \in 0 .. MaxPresents
      BY <2>1, <3>1, RecordTypes
    <3>4. swapchain.gen + 1 \in 1 .. MaxSwapchains
      BY <2>1, RecordTypes DEF Chains
    <3> QED
      BY <3>2, <3>3, <3>4, RecordTypes DEF Chains
  <2> QED
    BY <1>8, <2>2, <2>3 DEF RemakeMake, TypeOK, Mains, Chains
<1> QED
  BY <1>1, <1>2, <1>3, <1>4, <1>5, <1>6, <1>7, <1>8

LEMMA PublishingTypes ==
  ASSUME IInv,
         \/ PresentRefused \/ ApproxPublish \/ InsertTag \/ RemakeFlush \/ ShutdownFlush
  PROVE  TypeOK'
<1> USE BoundAssumption DEF IInv
<1>1. CASE PresentRefused
  <2>1. main' \in Mains
    BY <1>1, RecordTypes DEF Mains, PresentRefused, MainSteps
  <2>2. CASE TakeTag /\ Publish(<<Record(TakenToken, 0, FALSE, FALSE)>>)
    <3>1. TakenToken \in Tokens
      BY <2>2, TokenTaken
    <3>2. /\ mailbox' \in Seq(Feedback) /\ Len(mailbox') <= MailboxCap
          /\ published' \in Seq(Feedback)
      <4>1. <<Record(TakenToken, 0, FALSE, FALSE)>> \in Seq(Feedback)
        <5>1. 0 \in 0 .. MaxPresents
          OBVIOUS
        <5> QED
          BY <3>1, <5>1, OneRecord
      <4> QED
        BY <2>2, <4>1, PublishTypes
    <3> QED
      BY <1>1, <2>1, <2>2, <3>2, TokenTaken DEF PresentRefused, TypeOK, Mains
  <2>3. CASE UNCHANGED <<tag, taken, mailbox, published>>
    BY <1>1, <2>1, <2>3 DEF PresentRefused, TypeOK, Mains
  <2> QED
    BY <1>1, <2>2, <2>3 DEF PresentRefused
<1>2. CASE ApproxPublish
  <2>1. main.tag \in Tokens /\ presentId \in 0 .. MaxPresents
    BY <1>2, SMTT(60) DEF ApproxPublish, Ledger, InHand, TypeOK, Tokens
  <2>2. /\ mailbox' \in Seq(Feedback) /\ Len(mailbox') <= MailboxCap
        /\ published' \in Seq(Feedback)
    BY <1>2, <2>1, OneRecord, PublishTypes DEF ApproxPublish
  <2>3. main' \in Mains
    <3>1. main' = [main EXCEPT !.pc = "approxDone", !.tag = 0]
      BY <1>2 DEF ApproxPublish
    <3> QED
      BY <3>1, RecordTypes DEF Mains, MainSteps
  <2> QED
    BY <1>2, <2>2, <2>3 DEF ApproxPublish, TypeOK, Mains, MainOnly
<1>3. CASE InsertTag
  <2> DEFINE i == presentId % RingSize
             s == [id |-> presentId, token |-> main.tag]
  <2>1. i \in SlotIndex /\ s \in Slot /\ s.id # 0
    <3>1. main.pc = "insert" /\ main.tag \in 0 .. MaxTokens /\ presentId \in 0 .. MaxPresents
          /\ counts.queued \in Nat /\ counts.queued < presentId
      BY <1>3 DEF InsertTag, TypeOK, Ledger, Numbers, Uncounted
    <3>2. presentId # 0 /\ s.id = presentId /\ s \in Slot
      BY <3>1 DEF Slot
    <3>3. presentId \in Nat /\ RingSize \in Nat /\ RingSize > 0
      BY <3>1, RingAssumption
    <3>4. i \in 0 .. RingSize - 1
      BY <3>3
    <3> QED
      BY <3>2, <3>4 DEF SlotIndex
  <2>2. slots' \in [SlotIndex -> Slot]
    BY <1>3, <2>1, Stores DEF InsertTag
  <2>3. main' \in Mains
    <3>1. {0, 1} \subseteq 0 .. RingSize
      BY RingAssumption
    <3> QED
      <4>1. PICK n \in 0 .. RingSize : main' = [main EXCEPT !.pc = "evicted", !.tag = 0, !.n = n]
        BY <1>3, <3>1 DEF InsertTag
      <4> QED
        BY <4>1, RecordTypes DEF Mains, MainSteps
  <2>4. /\ mailbox' \in Seq(Feedback) /\ Len(mailbox') <= MailboxCap
        /\ published' \in Seq(Feedback)
    <3>1. CASE slots[i].id = 0
      BY <1>3, <3>1 DEF InsertTag, TypeOK
    <3>2. CASE slots[i].id # 0
      <4>1. slots[i].token \in Tokens /\ slots[i].id \in 0 .. MaxPresents
        BY <2>1, <3>2, SMTT(60) DEF TypeOK, Slot, Ledger, InHand, Tokens
      <4> QED
        BY <1>3, <3>2, <4>1, OneRecord, PublishTypes DEF InsertTag
    <3> QED
      BY <3>1, <3>2
  <2> QED
    BY <1>3, <2>2, <2>3, <2>4 DEF InsertTag, TypeOK, Mains, MainOnly
<1>4. CASE RemakeFlush \/ ShutdownFlush
  <2>1. FlushTags /\ UNCHANGED <<waitLock, presentId, currentId, counts, tag, swapchain>> /\ MainOnly
    BY <1>4 DEF RemakeFlush, ShutdownFlush
  <2>2. slots' \in [SlotIndex -> Slot]
    BY <2>1, Clears DEF FlushTags
  <2>3. main' \in Mains
    BY <2>1, Visits, RecordTypes DEF Mains, FlushTags, MainSteps
  <2>4. /\ mailbox' \in Seq(Feedback) /\ Len(mailbox') <= MailboxCap
        /\ published' \in Seq(Feedback)
    <3>1. CASE shutdown
      BY <2>1, <3>1 DEF FlushTags, TypeOK
    <3>2. CASE ~shutdown
      BY <2>1, <3>2, LoopRecords, PublishTypes DEF FlushTags, Ledger
    <3> QED
      BY <3>1, <3>2
  <2> QED
    BY <2>1, <2>2, <2>3, <2>4 DEF TypeOK, Mains, MainOnly
<1> QED
  BY <1>1, <1>2, <1>3, <1>4

LEMMA WaiterTypes ==
  ASSUME IInv,
         \/ WaiterWake \/ WaiterReturns \/ WaiterCheck \/ WaiterPublish \/ WaiterMark
         \/ DisplayShows
  PROVE  TypeOK'
<1> USE BoundAssumption DEF IInv
<1>1. CASE WaiterWake \/ WaiterReturns \/ WaiterCheck \/ WaiterMark
  <2>1. waiter' \in Waiters /\ waitLock' \in {"free", "main", "waiter"}
    <3>0. waiter \in Waiters /\ waitLock \in {"free", "main", "waiter"}
      BY DEF TypeOK, Waiters
    <3>1. CASE WaiterWake
      <4>1. swapchain.gen \in 0 .. MaxSwapchains /\ currentId \in 0 .. MaxPresents
            /\ 0 \in 0 .. MaxPresents
        BY RecordTypes DEF Chains
      <4>2. ASSUME waiter' = [waiter EXCEPT !.pc = "waiting", !.id = currentId,
                                            !.chain = swapchain.gen]
            PROVE  waiter' \in Waiters
        BY <3>0, <4>1, <4>2 DEF Waiters, WaiterSteps
      <4>3. ASSUME waiter' = [waiter EXCEPT !.id = 0] PROVE waiter' \in Waiters
        BY <3>0, <4>1, <4>3 DEF Waiters, WaiterSteps
      <4> QED
        BY <3>0, <3>1, <4>2, <4>3 DEF WaiterWake
    <3>2. CASE WaiterReturns
      BY <3>0, <3>2 DEF WaiterReturns, Waiters, WaiterSteps
    <3>3. CASE WaiterCheck
      BY <3>0, <3>3 DEF WaiterCheck, Waiters, WaiterSteps
    <3>4. CASE WaiterMark
      BY <3>0, <3>4, RecordTypes DEF WaiterMark, Waiters, WaiterSteps
    <3> QED
      BY <1>1, <3>1, <3>2, <3>3, <3>4
  <2>2. UNCHANGED <<slots, counts, mailbox, published>> /\ WaiterOnly
    BY <1>1 DEF WaiterWake, WaiterReturns, WaiterCheck, WaiterMark
  <2> QED
    BY <2>1, <2>2 DEF TypeOK, Waiters, WaiterOnly
<1>2. CASE WaiterPublish
  <2>1. slots' \in [SlotIndex -> Slot]
    BY <1>2, Clears DEF WaiterPublish
  <2>2. waiter' \in Waiters
    BY <1>2, Visits DEF WaiterPublish, TypeOK, Waiters, WaiterSteps
  <2>3. /\ mailbox' \in Seq(Feedback) /\ Len(mailbox') <= MailboxCap
        /\ published' \in Seq(Feedback)
    BY <1>2, LoopRecords, PublishTypes DEF WaiterPublish, Ledger
  <2> QED
    BY <1>2, <2>1, <2>2, <2>3 DEF WaiterPublish, TypeOK, Waiters, WaiterOnly
<1>3. CASE DisplayShows
  <2>1. PICK id \in swapchain.shown + 1 .. swapchain.queued :
          swapchain' = [swapchain EXCEPT !.shown = id]
    BY <1>3 DEF DisplayShows
  <2>2. id \in 0 .. MaxPresents
    <3>1. swapchain.shown \in 0 .. MaxPresents /\ swapchain.queued \in 0 .. MaxPresents
      BY DEF TypeOK
    <3> QED
      BY <2>1, <3>1
  <2> QED
    BY <1>3, <2>1, <2>2 DEF DisplayShows, TypeOK
<1> QED
  BY <1>1, <1>2, <1>3

--------------------------------------------------------------------------------
(* The ledger, action by action. *)

\* What the arithmetic below is about.
LEMMA Amounts ==
  ASSUME TypeOK
  PROVE  /\ main = [pc |-> main.pc, tag |-> main.tag, n |-> main.n, ret |-> main.ret]
         /\ waiter = [pc |-> waiter.pc, id |-> waiter.id, n |-> waiter.n, chain |-> waiter.chain]
         /\ counts = [queued |-> counts.queued, completed |-> counts.completed]
         /\ swapchain = [gen |-> swapchain.gen, queued |-> swapchain.queued,
                         shown |-> swapchain.shown, since |-> swapchain.since,
                         waits |-> swapchain.waits]
         /\ main.ret \in {"submit", "acquire"}
         /\ main.n \in Nat /\ waiter.n \in Nat /\ presentId \in Nat /\ swapchain.gen \in Nat
         /\ counts.queued \in Nat /\ counts.completed \in Nat
         /\ Cardinality(Occupied) \in Nat
<1>1. main \in Mains /\ waiter \in Waiters /\ swapchain \in Chains /\ presentId \in 0 .. MaxPresents
      /\ counts \in [queued : 0 .. MaxPresents, completed : 0 .. MaxPresents]
  BY RecordTypes DEF TypeOK
<1>2. Cardinality(Occupied) \in 0 .. RingSize
  BY SlotSets DEF Occupied
<1> QED
  BY <1>1, <1>2, BoundAssumption, RingAssumption DEF Mains, Waiters, Chains

\* Steps of the compositor thread that leave the ring alone.
LEMMA MainLedger ==
  ASSUME IInv, slots' = slots,
         \/ BeginPresent \/ StartPresent \/ ModeChange \/ Drain \/ Shutdown
         \/ PresentAccepted \/ PresentRefused \/ ApproxQueued \/ ApproxPublish \/ ApproxDone
         \/ NoteEvicted \/ NoteQueued \/ HandToWaiter \/ Acquire
         \/ RemakeLock \/ RemakeNote \/ RemakeMake \/ ShutdownNote
  PROVE  Ledger'
<1>0. Cardinality(Occupied') = Cardinality(Occupied)
  BY SameSlots DEF IInv
<1> USE <1>0, Amounts DEF IInv, Ledger, Numbers, Uncounted, InHand, InFlightExact, Goto, MainOnly
<1>1. CASE BeginPresent \/ Drain
  BY <1>1 DEF BeginPresent, Drain
<1>2. CASE StartPresent
  <2>1. /\ presentId' = presentId + 1 /\ UNCHANGED <<waiter, slots, counts, swapchain>>
        /\ main.pc = "idle"
    BY <1>2 DEF StartPresent
  <2>2. \/ main' = [main EXCEPT !.pc = "submit"]
        \/ /\ main' = [main EXCEPT !.pc = "remake", !.ret = "submit"]
           /\ swapchain.gen < MaxSwapchains
    BY <1>2 DEF StartPresent
  <2>3. Numbers'
    BY <2>1, <2>2
  <2>4. InHand'
    BY <2>1, <2>2
  <2>5. InFlightExact'
    BY <2>1, <2>2
  <2> QED
    BY <2>3, <2>4, <2>5
<1>3. CASE ModeChange \/ Shutdown
  BY <1>3 DEF ModeChange, Shutdown
<1>4. CASE PresentAccepted
  <2>1. TakeTag => TakenToken # 0
    BY TokenTaken DEF Tokens
  <2> QED
    BY <1>4, <2>1 DEF PresentAccepted
<1>5. CASE PresentRefused
  BY <1>5 DEF PresentRefused
<1>6. CASE ApproxQueued
  BY <1>6 DEF ApproxQueued
<1>7. CASE ApproxPublish
  BY <1>7 DEF ApproxPublish
<1>8. CASE ApproxDone
  BY <1>8 DEF ApproxDone
<1>9. CASE NoteEvicted
  BY <1>9 DEF NoteEvicted
<1>10. CASE NoteQueued
  BY <1>10 DEF NoteQueued
<1>11. CASE HandToWaiter \/ Acquire \/ RemakeLock
  BY <1>11 DEF HandToWaiter, Acquire, RemakeLock
<1>12. CASE RemakeNote \/ ShutdownNote
  <2>1. /\ counts' = [counts EXCEPT !.completed = @ + main.n]
        /\ UNCHANGED <<waiter, slots, presentId, swapchain>>
    BY <1>12 DEF RemakeNote, ShutdownNote
  <2>2. \/ main.pc = "flushed" /\ main' = [main EXCEPT !.pc = "make", !.n = 0]
        \/ main.pc = "shutNote" /\ main' = [main EXCEPT !.pc = "down", !.n = 0]
    BY <1>12 DEF RemakeNote, ShutdownNote
  <2>3. Numbers'
    BY <2>1, <2>2
  <2>4. InHand'
    BY <2>1, <2>2
  <2>5. InFlightExact'
    <3>1. /\ counts'.completed = counts.completed + main.n /\ counts'.queued = counts.queued
          /\ main'.n = 0 /\ main'.pc \in {"make", "down"} /\ waiter'.n = waiter.n
      BY <2>1, <2>2
    <3>2. main.pc \in {"flushed", "shutNote"}
      BY <2>2
    <3> QED
      BY <3>1, <3>2
  <2> QED
    BY <2>3, <2>4, <2>5
<1>13. CASE RemakeMake
  BY <1>13 DEF RemakeMake
<1> QED
  BY <1>1, <1>2, <1>3, <1>4, <1>5, <1>6, <1>7, <1>8, <1>9, <1>10, <1>11, <1>12, <1>13

\* The tag of a present takes a slot: the present counts as in flight from here.
LEMMA InsertLedger ==
  ASSUME IInv, InsertTag
  PROVE  Ledger'
<1> DEFINE i == presentId % RingSize
           s == [id |-> presentId, token |-> main.tag]
<1>1. i \in SlotIndex /\ s \in Slot /\ s.id # 0 /\ s.token # 0
  <2>1. main.pc = "insert" /\ main.tag \in 0 .. MaxTokens /\ main.tag # 0
        /\ presentId \in 0 .. MaxPresents /\ counts.queued \in Nat /\ counts.queued < presentId
    BY DEF IInv, InsertTag, TypeOK, Ledger, Numbers, Uncounted, InHand
  <2>2. s.token # 0 /\ s.id # 0 /\ s \in Slot
    BY <2>1 DEF Slot
  <2>3. presentId \in Nat /\ RingSize \in Nat /\ RingSize > 0
    BY <2>1, RingAssumption
  <2>4. i \in 0 .. RingSize - 1
    BY <2>3
  <2> QED
    BY <2>2, <2>4 DEF SlotIndex
<1>2. slots' = [slots EXCEPT ![i] = s]
  BY DEF InsertTag
<1> HIDE DEF i, s
<1>3. /\ \A j \in SlotIndex : slots'[j] = IF j = i THEN s ELSE slots[j]
      /\ Cardinality(Occupied') = Cardinality(Occupied) + (IF slots[i].id = 0 THEN 1 ELSE 0)
  BY <1>1, <1>2, Stores DEF IInv
<1>4. /\ main' = [main EXCEPT !.pc = "evicted", !.tag = 0,
                              !.n = IF slots[i].id # 0 THEN 1 ELSE 0]
      /\ main.pc = "insert" /\ UNCHANGED <<waiter, presentId, counts, swapchain>>
  BY DEF InsertTag, MainOnly, i
<1>5. main.n = 0
  BY <1>4 DEF IInv, Ledger, InHand
<1>6. \A j \in SlotIndex : slots'[j].id # 0 => slots'[j].token # 0
  BY <1>1, <1>3 DEF IInv, Ledger, InHand
<1>7. Numbers' /\ InFlightExact'
  BY <1>3, <1>4, <1>5, Amounts DEF IInv, Ledger, Numbers, Uncounted, InFlightExact
<1>8. InHand'
  BY <1>4, <1>6, Amounts DEF IInv, Ledger, InHand
<1> QED
  BY <1>7, <1>8 DEF Ledger

\* Emptying the ring leaves the count of what was emptied in the thread's hand.
LEMMA FlushLedger ==
  ASSUME IInv, RemakeFlush \/ ShutdownFlush
  PROVE  Ledger'
<1>1. /\ slots' = Cleared(MaxPresents) /\ main.pc \in {"flush", "shutFlush"}
      /\ main' = [main EXCEPT !.pc = IF main.pc = "flush" THEN "flushed" ELSE "shutNote",
                              !.n = Len(VisitOrder(MaxPresents))]
      /\ UNCHANGED <<waiter, presentId, counts, swapchain>>
  BY DEF RemakeFlush, ShutdownFlush, FlushTags, MainOnly
<1>2. /\ \A i \in SlotIndex : slots'[i].id # 0 => slots'[i] = slots[i]
      /\ Cardinality(Occupied') = Cardinality(Occupied) - Len(VisitOrder(MaxPresents))
      /\ Len(VisitOrder(MaxPresents)) \in Nat
  BY <1>1, Clears, Visits DEF IInv
<1>3. main.n = 0
  BY <1>1 DEF IInv, Ledger, InHand
<1>4. Numbers' /\ InFlightExact'
  BY <1>1, <1>2, <1>3, Amounts DEF IInv, Ledger, Numbers, Uncounted, InFlightExact
<1>5. InHand'
  BY <1>1, <1>2, Amounts DEF IInv, Ledger, InHand
<1> QED
  BY <1>4, <1>5 DEF Ledger

LEMMA WaiterLedger ==
  ASSUME IInv, WaiterStep \/ DisplayShows
  PROVE  Ledger'
<1>1. CASE WaiterPublish
  <2>1. /\ slots' = Cleared(waiter.id) /\ waiter.pc = "publish"
        /\ waiter' = [waiter EXCEPT !.pc = "note", !.n = Len(VisitOrder(waiter.id))]
        /\ UNCHANGED <<main, presentId, counts, swapchain>>
    BY <1>1 DEF WaiterPublish, WaiterOnly
  <2>2. /\ \A i \in SlotIndex : slots'[i].id # 0 => slots'[i] = slots[i]
        /\ Cardinality(Occupied') = Cardinality(Occupied) - Len(VisitOrder(waiter.id))
        /\ Len(VisitOrder(waiter.id)) \in Nat
    BY <2>1, Clears, Visits DEF IInv
  <2>3. waiter.n = 0
    BY <2>1 DEF IInv, Ledger, InHand
  <2>4. Numbers' /\ InFlightExact'
    BY <2>1, <2>2, <2>3, Amounts DEF IInv, Ledger, Numbers, Uncounted, InFlightExact
  <2>5. InHand'
    BY <2>1, <2>2, Amounts DEF IInv, Ledger, InHand
  <2> QED
    BY <2>4, <2>5 DEF Ledger
<1>2. CASE WaiterWake \/ WaiterReturns \/ WaiterCheck \/ WaiterNote \/ WaiterMark \/ DisplayShows
  <2>0. Cardinality(Occupied') = Cardinality(Occupied)
    BY <1>2, SameSlots
    DEF IInv, WaiterWake, WaiterReturns, WaiterCheck, WaiterNote, WaiterMark, DisplayShows
  <2> USE <2>0, Amounts DEF IInv, Ledger, Numbers, Uncounted, InHand, InFlightExact, WaiterOnly
  <2>1. CASE WaiterWake
    BY <2>1 DEF WaiterWake
  <2>2. CASE WaiterReturns \/ WaiterCheck \/ WaiterMark
    BY <2>2 DEF WaiterReturns, WaiterCheck, WaiterMark
  <2>3. CASE WaiterNote
    BY <2>3 DEF WaiterNote
  <2>4. CASE DisplayShows
    BY <2>4 DEF DisplayShows
  <2> QED
    BY <1>2, <2>1, <2>2, <2>3, <2>4
<1> QED
  BY <1>1, <1>2 DEF WaiterStep

LEMMA LedgerStep ==
  ASSUME IInv, [Next]_vars
  PROVE  Ledger'
<1>1. CASE UNCHANGED vars
  BY <1>1 DEF vars, IInv, Ledger, Numbers, Uncounted, InHand, InFlightExact, Occupied
<1>2. CASE BeginPresent \/ StartPresent \/ ModeChange \/ Drain \/ Shutdown
  BY <1>2, MainLedger DEF BeginPresent, StartPresent, ModeChange, Drain, Shutdown
<1>3. CASE InPresent
  <2>1. CASE PresentAccepted \/ PresentRefused \/ ApproxQueued \/ ApproxPublish \/ ApproxDone
    BY <2>1, MainLedger
    DEF PresentAccepted, PresentRefused, ApproxQueued, ApproxPublish, ApproxDone
  <2>2. CASE NoteEvicted \/ NoteQueued \/ HandToWaiter \/ Acquire
    BY <2>2, MainLedger DEF NoteEvicted, NoteQueued, HandToWaiter, Acquire
  <2>3. CASE RemakeLock \/ RemakeNote \/ RemakeMake \/ ShutdownNote
    BY <2>3, MainLedger DEF RemakeLock, RemakeNote, RemakeMake, ShutdownNote
  <2>4. CASE InsertTag \/ RemakeFlush \/ ShutdownFlush
    BY <2>4, InsertLedger, FlushLedger
  <2> QED
    BY <1>3, <2>1, <2>2, <2>3, <2>4 DEF InPresent
<1>4. CASE WaiterStep \/ DisplayShows
  BY <1>4, WaiterLedger
<1> QED
  BY <1>1, <1>2, <1>3, <1>4 DEF Next

\* The counters of a note, whose bound is a matter of the ledger after it.
LEMMA NoteTypes ==
  ASSUME IInv, Ledger',
         \/ ApproxQueued \/ ApproxDone \/ NoteEvicted \/ NoteQueued \/ RemakeNote \/ ShutdownNote
         \/ WaiterNote
  PROVE  TypeOK'
<1>1. UNCHANGED <<waitLock, presentId, currentId, slots, mailbox, tag, swapchain, published,
                  hdr, shutdown, taken>>
  BY DEF ApproxQueued, ApproxDone, NoteEvicted, NoteQueued, RemakeNote, ShutdownNote, WaiterNote,
         MainOnly, WaiterOnly
<1>2. main' \in Mains
  <2>0. 0 \in 0 .. RingSize
    BY RingAssumption
  <2> USE RecordTypes DEF IInv, Mains, MainSteps, Goto
  <2>1. CASE ApproxQueued \/ ApproxDone \/ NoteQueued
    BY <2>1 DEF ApproxQueued, ApproxDone, NoteQueued
  <2>2. CASE NoteEvicted \/ RemakeNote \/ ShutdownNote
    <3>1. PICK pc \in {"queued", "make", "down"} : main' = [main EXCEPT !.pc = pc, !.n = 0]
      BY <2>2 DEF NoteEvicted, RemakeNote, ShutdownNote
    <3> QED
      BY <2>0, <3>1
  <2>3. CASE WaiterNote
    BY <2>3 DEF WaiterNote, WaiterOnly
  <2> QED
    BY <2>1, <2>2, <2>3
<1>3. waiter' \in Waiters
  <2>0. 0 \in 0 .. RingSize /\ waiter \in Waiters
    BY RingAssumption, RecordTypes DEF IInv
  <2>1. waiter' = waiter \/ waiter' = [waiter EXCEPT !.pc = "mark", !.n = 0]
    BY DEF ApproxQueued, ApproxDone, NoteEvicted, NoteQueued, RemakeNote, ShutdownNote, WaiterNote,
           MainOnly
  <2> QED
    BY <2>0, <2>1 DEF Waiters, WaiterSteps
<1>4. /\ counts' = [queued |-> counts'.queued, completed |-> counts'.completed]
      /\ counts'.queued \in Nat /\ counts'.completed \in Nat
  <2> USE Amounts DEF IInv
  <2>1. CASE ApproxQueued \/ NoteQueued
    BY <2>1 DEF ApproxQueued, NoteQueued
  <2>2. CASE ApproxDone
    BY <2>2 DEF ApproxDone
  <2>3. CASE NoteEvicted \/ RemakeNote \/ ShutdownNote
    BY <2>3 DEF NoteEvicted, RemakeNote, ShutdownNote
  <2>4. CASE WaiterNote
    BY <2>4 DEF WaiterNote
  <2> QED
    BY <2>1, <2>2, <2>3, <2>4
<1>5. counts' \in [queued : 0 .. MaxPresents, completed : 0 .. MaxPresents]
  <2>1. main'.n \in Nat /\ waiter'.n \in Nat
    BY <1>2, <1>3 DEF Mains, Waiters
  <2>2. Cardinality(Occupied') \in Nat /\ presentId' \in 0 .. MaxPresents
    BY <1>1, SameSlots, RecordTypes DEF IInv
  <2>3. counts'.completed <= presentId'
    BY <1>4, <2>1, <2>2 DEF Ledger, Numbers, Uncounted, InFlightExact
  <2>4. counts'.queued <= presentId'
    BY DEF Ledger, Numbers
  <2>5. counts'.queued \in 0 .. MaxPresents /\ counts'.completed \in 0 .. MaxPresents
    BY <1>4, <2>2, <2>3, <2>4, BoundAssumption
  <2> QED
    BY <1>4, <2>5
<1> QED
  BY <1>1, <1>2, <1>3, <1>5 DEF IInv, TypeOK, Mains, Waiters

LEMMA TypeStep ==
  ASSUME IInv, [Next]_vars
  PROVE  TypeOK'
<1>1. CASE UNCHANGED vars
  BY <1>1 DEF vars, IInv, TypeOK
<1>2. CASE BeginPresent \/ StartPresent \/ ModeChange \/ Drain \/ Shutdown
  BY <1>2, MainTypes
<1>3. CASE InPresent
  BY <1>3, MainTypes, PublishingTypes, NoteTypes, LedgerStep DEF InPresent, Next
<1>4. CASE WaiterStep \/ DisplayShows
  BY <1>4, WaiterTypes, NoteTypes, LedgerStep DEF WaiterStep, Next
<1> QED
  BY <1>1, <1>2, <1>3, <1>4 DEF Next

LEMMA Inductive == Spec => []IInv
<1>1. Init => IInv
  <2> SUFFICES ASSUME Init PROVE IInv
    OBVIOUS
  <2>1. slots \in [SlotIndex -> Slot] /\ \A i \in SlotIndex : slots[i].id = 0
    BY BoundAssumption DEF Init, FreeSlot, Slot
  <2>2. Occupied = {}
    BY <2>1 DEF Occupied
  <2>3. Cardinality(Occupied) = 0
    BY <2>2, FS_EmptySet, Zenon
  <2>4. 1 \in 1 .. MaxSwapchains /\ WaitSupport \subseteq BOOLEAN
    BY BoundAssumption, FlagAssumption
  <2>5. TypeOK
    <3>0. /\ 0 \in 0 .. MaxPresents /\ 0 \in 0 .. MaxTokens /\ 0 \in 0 .. MaxSwapchains
          /\ 0 \in 0 .. RingSize /\ 0 <= MailboxCap
      BY BoundAssumption, RingAssumption, CapAssumption
    <3>1. main \in Mains /\ waiter \in Waiters
      BY <3>0 DEF Init, Mains, Waiters, MainSteps, WaiterSteps
    <3>2. swapchain \in Chains
      BY <2>4, <3>0 DEF Init, Chains
    <3>3. /\ counts \in [queued : 0 .. MaxPresents, completed : 0 .. MaxPresents]
          /\ tag \in [last : 0 .. MaxTokens, pending : 0 .. MaxTokens]
      BY <3>0 DEF Init
    <3>4. /\ mailbox \in Seq(Feedback) /\ Len(mailbox) <= MailboxCap
          /\ published \in Seq(Feedback)
      BY <3>0 DEF Init
    <3> QED
      BY <2>1, <3>0, <3>1, <3>2, <3>3, <3>4 DEF Init, TypeOK, Mains, Waiters, Chains
  <2>6. Ledger
    BY <2>1, <2>3 DEF Init, Ledger, Numbers, Uncounted, InHand, InFlightExact
  <2> QED
    BY <2>5, <2>6 DEF IInv
<1>2. IInv /\ [Next]_vars => IInv'
  BY TypeStep, LedgerStep DEF IInv
<1> QED
  BY <1>1, <1>2, PTL DEF Spec

\* Threads, ring, mailbox and counters keep their types: the counters stay within
\* the presents made and the mailbox within its capacity.
THEOREM TypeCorrect == Spec => []TypeOK
BY Inductive, PTL DEF IInv

\* Presents in flight are exactly the occupied slots, whatever the interleaving of
\* the compositor, the waiter and a swapchain that is re-made: the paint gate
\* neither sticks nor opens early.
THEOREM InFlightCounted == Spec => []InFlightExact
BY Inductive, PTL DEF IInv, Ledger
================================================================================
