------------------------ MODULE BidirTimelineProofs ------------------------
(***************************************************************************)
(* Proofs about the delayed timeline of bidirectional frame generation,    *)
(* for every refresh, multiplier, ring, number of frames, changes of scene *)
(* and slips: what is shown within a scene never goes back until a report  *)
(* has moved the mapping back behind the queue, and every real frame that  *)
(* is not given up is shown when it is due, as long as none comes later.   *)
(*                                                                         *)
(* The history `h' passes through a dozen operators in one step.  So what  *)
(* holds of it is stated of any history `g', and every operator has lemmas *)
(* on what it keeps of that; the parts are named below, `Settled' is all   *)
(* of them between steps, `Whole' what a step starts from, `Held', `Done'  *)
(* and `Fit' what is left of it in the middle of a pass, `Sound' what a    *)
(* step has to leave.                                                      *)
(***************************************************************************)
EXTENDS BidirTimeline, FiniteSetTheorems, WellFoundedInduction, TLAPS

-----------------------------------------------------------------------------
(* What holds of a history, part by part, for every value of the constants. *)

\* What the parts of a history range over.
Entries == [real : BOOLEAN, id : Int, content : Int, target : Int, seq : Int]
Epochs == [valid : BOOLEAN, src : Int, disp : Int, n : Int]
Records == [id : Int, src : Int, n : Int]
Histories ==
  [pending : SUBSET Entries, target : Int, epoch : Epochs, grid : Nat, origin : Int,
   recs : SUBSET Records, hold : Int, prev : Int, cur : Int, src : Int, valid : BOOLEAN,
   base : Int, cut : BOOLEAN, unread : BOOLEAN, batch : Int, pins : SUBSET Int,
   failures : Int]
Reports == [id : Int, at : Int]

\* The queue is finite: it grows by a batch at a time.
Typed(g) == g \in Histories /\ IsFiniteSet(g.pending)

\* The frames, the opportunities and the history variables.
Clock ==
  /\ now \in Nat /\ frame \in [id : Nat, src : Nat, again : BOOLEAN]
  /\ frame.src < Ticks * now /\ (frame.id = 0 <=> frame.src = 0)
  /\ gpu \in Int /\ shown \in Int /\ since \in Nat /\ since <= frame.id
  /\ slips \in Nat /\ scenes \in Nat /\ back \in BOOLEAN /\ overdue \in BOOLEAN
  /\ flight \in Seq(Reports)

\* An entry of the scene that began after frame `n'.
New(e, n) == e.id > n

\* The fields that say what was recorded last agree: `f' is the last frame of the
\* game and `s' its source time.
Linked(g, f, s) ==
  /\ g.valid = (g.cur # None)
  /\ g.base \in {None, g.cur}
  /\ g.valid => /\ g.cur > 0 /\ g.cur <= f
                /\ g.src > 0 /\ g.src <= s /\ (g.src = s <=> g.cur = f)
  /\ g.unread => g.base # None
  /\ g.epoch.valid => g.base # None /\ g.grid # 0
  /\ g.recs # {} => g.base # None

\* What the queue holds of frames up to `f', whatever is reported: no two entries at
\* one opportunity, and each content that of its frame, or an older one for a real
\* frame with an old texture.
Queue(g, n, f) ==
  /\ \A e, d \in g.pending : e.target = d.target => e = d
  /\ \A e \in g.pending :
       /\ e.content > 0 /\ e.content <= 2 * e.id /\ e.id <= f
       /\ e.real => ~Made(e.content)
       /\ ~e.real => e.content = 2 * e.id - 1 /\ New(e, n)
       /\ New(e, n) => e.content >= 2 * n

\* `c' is the frame that was queued last, `s' its source time.
Upto(g, c, s) ==
  /\ \A e \in g.pending : e.id <= c
  /\ \A r \in g.recs : r.src <= s

\* The entries of this scene come in the order of their frames, and the last frame
\* queued is the last to go.
Order(g, n, c) ==
  /\ \A e, d \in g.pending : New(e, n) /\ New(d, n) =>
       /\ e.target < d.target => e.id <= d.id /\ e.content <= d.content
       /\ e.real /\ d.real /\ e.id = d.id => e = d
  /\ \A e \in g.pending : New(e, n) /\ e.real =>
       /\ \E d \in g.pending : d.real /\ d.id = c /\ d.content = 2 * c
       /\ \E r \in g.recs : r.id = c

\* None lies after the target that the mapping gives to source time `s'.
Mapped(g, n, s) ==
  \A e \in g.pending : New(e, n) => g.epoch.valid /\ e.target <= Target(g, s)

\* None is older than what is, or is going to be, on the display.
Behind(g, n, sh) ==
  /\ \A e \in g.pending : New(e, n) => e.content >= sh /\ e.content >= g.hold
  /\ g.hold >= sh \/ g.hold <= 2 * n

\* The frame queued last has not been on the display yet if one is queued.
Reported(g, n, c, fl) ==
  \A e \in g.pending : New(e, n) /\ e.real => \A i \in DOMAIN fl : fl[i].id < c

\* The frame queued last is on the display or still to come.
Arrives(g, c, sh) ==
  g.epoch.valid =>
    \/ \E e \in g.pending : e.real /\ e.id = c /\ e.content = 2 * c
    \/ sh = 2 * c /\ g.hold = 2 * c

\* What is on the display: never more than the last frame `f', and held, unless the
\* ring was flushed.
Display(g, f, sh) ==
  /\ Made(g.hold) => g.hold = sh
  /\ sh <= 2 * f /\ g.hold <= 2 * f
  /\ g.valid => sh <= 2 * g.cur /\ g.hold <= 2 * g.cur
  /\ g.hold = sh \/ g.pending = {}
  /\ g.hold = None => g.pending = {} /\ ~g.epoch.valid

\* While a history is valid, what is held is what is on the display.
Steady(g, sh) == g.valid => g.hold = sh /\ g.hold # None

\* Nothing is late, and the mapping shows a frame after its source time.
OnTime(g, t) ==
  /\ \A e \in g.pending : e.target >= t
  /\ g.epoch.valid => g.epoch.disp > g.epoch.src

\* The mapping does not show source time `s' at an opportunity that has passed.
Undue(g, s) == g.epoch.valid => Ideal(g, s) > Ticks * (now - 1)

\* The display has missed nothing, and no frame came after its opportunity, that of this
\* step included.
Punctual == slips = 0 /\ ~overdue /\ ~overdue'

\* A report that is on its way comes after the source time of its frame.
Sent(g, f, s) ==
  \A i \in DOMAIN flight :
    /\ flight[i].id <= f /\ (g.valid => flight[i].id <= g.cur)
    /\ flight[i].id = f => s < Ticks * flight[i].at
    /\ g.valid /\ flight[i].id = g.cur => g.src < Ticks * flight[i].at
    /\ \A r \in g.recs : r.id = flight[i].id => r.src < Ticks * flight[i].at

\* What holds as long as no report has moved the mapping back behind the queue.
InOrder(g) ==
  /\ Order(g, since, g.cur) /\ Mapped(g, since, g.src)
  /\ Behind(g, since, shown) /\ Reported(g, since, g.cur, flight)
  /\ since = 0 => Arrives(g, g.cur, shown)

\* What holds of a history between two steps, of frame `f' with source time `s'.
Settled(g, f, s) ==
  /\ Typed(g) /\ Linked(g, f, s) /\ Queue(g, since, f) /\ Sent(g, f, s)
  /\ g.valid => Upto(g, g.cur, g.src) /\ since <= g.cur
  /\ Display(g, f, shown) /\ Steady(g, shown)
  /\ ~back => InOrder(g)

\* All that a step may count on.
Whole(g, f, s) == Settled(g, f, s) /\ (Punctual => OnTime(g, now))

\* The types that lemmas about a history need.
Types ==
  /\ now \in Nat /\ shown \in Int /\ since \in Nat /\ back \in BOOLEAN
  /\ flight \in Seq(Reports)

\* A frame that was not recorded at its first opportunity has the texture of the one
\* that was recorded last.
Unrecorded ==
  h.valid /\ h.cur # frame.id => frame.again /\ h.base # None

\* Nothing is late, unless the display missed something or a frame came late.
Prompt == slips = 0 /\ ~overdue => OnTime(h, now)

\* The invariant.
Inv == Clock /\ Settled(h, frame.id, frame.src) /\ Prompt /\ Unrecorded

-----------------------------------------------------------------------------
(* Display targets.                                                        *)

\* Division with a remainder.
LEMMA Division ==
  ASSUME NEW a \in Int, NEW d \in Nat \ {0}
  PROVE  a = d * (a \div d) + (a % d) /\ a \div d \in Int /\ a % d \in 0..(d - 1)
  OBVIOUS

\* A multiple that exceeds another by less than one step does not exceed it.
LEMMA Factors ==
  ASSUME NEW d \in Nat \ {0}, NEW i \in Int, NEW j \in Int, d * i < d * j + d
  PROVE  i <= j
<1>1. CASE i >= j + 1
  <2>1. d * (i - (j + 1)) >= 0
    BY <1>1
  <2>2. d * (i - (j + 1)) = d * i - (d * j + d)
    OBVIOUS
  <2>3. d * i \in Int /\ d * j \in Int
    OBVIOUS
  <2> QED
    BY <2>1, <2>2, <2>3
<1> QED
  BY <1>1

\* The quotient rounded up is the least multiple that reaches the number.
LEMMA Ceiling ==
  ASSUME NEW a \in Int, NEW d \in Nat \ {0}
  PROVE  /\ CeilDiv(a, d) \in Int /\ d * CeilDiv(a, d) \in Int
         /\ d * CeilDiv(a, d) >= a /\ d * CeilDiv(a, d) < a + d
<1> DEFINE m == a + d - 1
           q == m \div d
<1>1. m \in Int
  OBVIOUS
<1>2. m = d * q + (m % d) /\ q \in Int /\ m % d \in 0..(d - 1)
  BY <1>1, Division
<1>3. d * q \in Int
  BY <1>2
<1>4. CeilDiv(a, d) = q
  BY DEF CeilDiv
<1> HIDE DEF q
<1> QED
  BY <1>1, <1>2, <1>3, <1>4

\* A frame's target is the first opportunity of the grid at or after the time at
\* which the mapping shows it.
LEMMA TargetIs ==
  ASSUME NEW g, Typed(g), NEW s \in Int
  PROVE  /\ Target(g, s) \in Int /\ Ticks * Target(g, s) \in Int
         /\ Ticks * Target(g, s) >= g.epoch.disp + s - g.epoch.src
         /\ Target(g, s) >= g.origin
         /\ \A t \in Int : Ticks * t >= g.epoch.disp + s - g.epoch.src /\ t >= g.origin
              => Target(g, s) <= t
<1> DEFINE ideal == g.epoch.disp + s - g.epoch.src
           o == g.origin
<1>0. Ticks \in Nat \ {0}
  BY BidirAssumption
<1>1. o \in Int /\ g.epoch.disp \in Int /\ g.epoch.src \in Int
  BY DEF Typed, Histories, Epochs
<1>2. ideal \in Int /\ Ticks * o \in Int
  BY <1>0, <1>1
<1>3. CASE ideal <= Ticks * o
  <2>1. Target(g, s) = o
    BY <1>3 DEF Target, Ideal
  <2> HIDE DEF ideal, o
  <2>2. Target(g, s) \in Int /\ Ticks * Target(g, s) \in Int
        /\ Ticks * Target(g, s) >= ideal /\ Target(g, s) >= o
    BY <2>1, <1>1, <1>2, <1>3
  <2>3. \A t \in Int : t >= o => Target(g, s) <= t
    BY <2>1
  <2> QED
    BY <2>2, <2>3 DEF ideal, o
<1>4. CASE ~(ideal <= Ticks * o)
  <2> DEFINE q == CeilDiv(ideal, Ticks)
  <2>1. Target(g, s) = q
    BY <1>4 DEF Target, Ideal
  <2>2. q \in Int /\ Ticks * q \in Int /\ Ticks * q >= ideal /\ Ticks * q < ideal + Ticks
    BY <1>0, <1>2, Ceiling
  <2> HIDE DEF q, ideal, o
  <2>3. Ticks * o < Ticks * q + Ticks
    BY <2>2, <1>0, <1>2, <1>4
  <2>4. o <= q
    BY <2>3, <1>0, <1>1, <2>2, Factors
  <2>5. ASSUME NEW t \in Int, Ticks * t >= ideal PROVE q <= t
    <3>1. Ticks * t \in Int
      BY <1>0
    <3>2. Ticks * q < Ticks * t + Ticks
      BY <3>1, <2>5, <2>2, <1>0, <1>2
    <3> QED
      BY <3>2, <1>0, <2>2, Factors
  <2> QED
    BY <2>1, <2>2, <2>4, <2>5, <1>1 DEF ideal, o
<1> QED
  BY <1>3, <1>4

\* A later time has no earlier target.
LEMMA TargetGrows ==
  ASSUME NEW g, Typed(g), NEW k, Typed(k), NEW s \in Int, NEW t \in Int,
         g.epoch.disp + s - g.epoch.src <= k.epoch.disp + t - k.epoch.src,
         g.origin <= k.origin
  PROVE  Target(g, s) <= Target(k, t)
<1> DEFINE u == Target(k, t)
<1>0. Ticks \in Nat \ {0}
  BY BidirAssumption
<1>1. /\ g.origin \in Int /\ g.epoch.disp \in Int /\ g.epoch.src \in Int
      /\ k.origin \in Int /\ k.epoch.disp \in Int /\ k.epoch.src \in Int
  BY DEF Typed, Histories, Epochs
<1>2. /\ u \in Int /\ Ticks * u \in Int /\ u >= k.origin
      /\ Ticks * u >= k.epoch.disp + t - k.epoch.src
  BY TargetIs
<1> HIDE DEF u
<1>3. Ticks * u >= g.epoch.disp + s - g.epoch.src /\ u >= g.origin
  BY <1>1, <1>2
<1>4. Target(g, s) <= u
  BY <1>2, <1>3, TargetIs
<1> QED
  BY <1>4 DEF u

\* Nothing comes before the opportunity that the mapping begins with.
LEMMA TargetStays ==
  ASSUME NEW g, Typed(g), NEW t \in Int, NEW s \in Int,
         g.epoch.disp = Ticks * t, g.epoch.src <= s
  PROVE  t <= Target(g, s)
<1> DEFINE u == Target(g, s)
<1>0. Ticks \in Nat \ {0} /\ Ticks * t \in Int
  BY BidirAssumption
<1>1. g.epoch.disp \in Int /\ g.epoch.src \in Int
  BY DEF Typed, Histories, Epochs
<1>2. u \in Int /\ Ticks * u \in Int /\ Ticks * u >= g.epoch.disp + s - g.epoch.src
  BY TargetIs
<1> HIDE DEF u
<1>3. Ticks * t < Ticks * u + Ticks
  BY <1>0, <1>1, <1>2
<1>4. t <= u
  BY <1>0, <1>2, <1>3, Factors
<1> QED
  BY <1>4 DEF u

\* What is filled lies strictly between the endpoints.
LEMMA BetweenEnds ==
  ASSUME NEW a \in Int, NEW b \in Int, NEW t \in Between(a, b)
  PROVE  t \in (a + 1)..(b - 1)
<1> DEFINE n == IF b - a > 1 THEN b - a - 1 ELSE 0
           most == Mult - 1
<1>0. Mult \in Nat \ {0} /\ most \in Nat /\ n \in Nat
  BY BidirAssumption
<1>1. n # 0 => b = a + n + 1
  OBVIOUS
<1>2. CASE n <= most
  <2>1. t \in (a + 1)..(a + n)
    BY <1>2 DEF Between
  <2> HIDE DEF n, most
  <2> QED
    BY <2>1, <1>0, <1>1
<1>3. CASE ~(n <= most)
  <2>1. PICK i \in 0..(most - 1) : t = a + 1 + ((2 * i + 1) * n) \div (2 * most)
    BY <1>3 DEF Between
  <2> DEFINE d == 2 * most
             x == (2 * i + 1) * n
             q == x \div d
  <2>2. t = a + 1 + q
    BY <2>1
  <2> HIDE DEF n, most
  <2>3. most >= 1 /\ d \in Nat \ {0} /\ i \in Nat /\ 2 * i + 1 < d
    BY <1>0
  <2>4. x \in Nat
    BY <1>0, <2>3
  <2>5. n \in Nat \ {0} /\ b = a + n + 1
    BY <1>0, <1>1, <1>3
  <2>6. (d - (2 * i + 1) - 1) * n >= 0
    BY <2>3, <2>5
  <2>7. (d - (2 * i + 1) - 1) * n = d * n - x - n
    BY <2>3, <2>5
  <2> HIDE DEF d, x
  <2>8. x = d * q + (x % d) /\ q \in Int /\ x % d \in 0..(d - 1)
    BY <2>3, <2>4, Division
  <2> HIDE DEF q
  <2>9. d * q \in Int /\ d * n \in Int /\ d * 0 = 0
    BY <2>3, <2>5, <2>8
  <2>10. x + n <= d * n
    BY <2>4, <2>5, <2>6, <2>7, <2>9
  <2>11. d * q < d * n
    BY <2>3, <2>4, <2>5, <2>8, <2>9, <2>10
  <2>12. q < n
    <3>1. CASE q >= n
      <4>1. d * (q - n) >= 0
        BY <3>1, <2>3, <2>5, <2>8
      <4>2. d * (q - n) = d * q - d * n
        BY <2>3, <2>5, <2>8
      <4> QED
        BY <4>1, <4>2, <2>9, <2>11
    <3> QED
      BY <3>1, <2>5, <2>8
  <2>13. d * 0 < d * q + d
    BY <2>3, <2>4, <2>8, <2>9
  <2>14. 0 <= q
    BY <2>3, <2>8, <2>13, Factors
  <2> QED
    BY <2>2, <2>5, <2>8, <2>12, <2>14
<1> QED
  BY <1>2, <1>3

\* They are finitely many.
LEMMA BetweenFinite ==
  ASSUME NEW a \in Int, NEW b \in Int
  PROVE  IsFiniteSet(Between(a, b)) /\ Between(a, b) \subseteq Int
<1>1. Between(a, b) \subseteq (a + 1)..(b - 1)
  BY BetweenEnds
<1>2. IsFiniteSet((a + 1)..(b - 1))
  BY FS_Interval
<1> QED
  BY <1>1, <1>2, FS_Subset

\* A queue that is not empty has an entry that is due first.
LEMMA Least ==
  ASSUME NEW q, IsFiniteSet(q), q # {}, \A e \in q : e.target \in Int
  PROVE  \E e \in q : \A d \in q : e.target <= d.target
<1> DEFINE Below(e) == {d \in q : d.target < e.target}
           sizes == {Cardinality(Below(e)) : e \in q}
<1>1. \A e \in q : IsFiniteSet(Below(e)) /\ Cardinality(Below(e)) \in Nat
  <2> TAKE e \in q
  <2>1. Below(e) \in SUBSET q
    OBVIOUS
  <2> QED
    BY <2>1, FS_Subset, FS_CardinalityType
<1>2. sizes \subseteq Nat /\ sizes # {}
  BY <1>1
<1>3. PICK c \in sizes : \A d \in sizes : ~(<<d, c>> \in OpToRel(<, Nat))
  BY <1>2, NatLessThanWellFounded, WFMin
<1>4. \A d \in sizes : ~(d < c)
  BY <1>2, <1>3 DEF OpToRel
<1>5. PICK e \in q : c = Cardinality(Below(e))
  OBVIOUS
<1>6. ASSUME NEW d \in q, d.target < e.target PROVE FALSE
  <2>1. Below(d) \in SUBSET Below(e)
    BY <1>6
  <2>2. d \in Below(e) /\ d \notin Below(d)
    BY <1>6
  <2>3. Cardinality(Below(d)) < Cardinality(Below(e))
    <3>1. Cardinality(Below(d)) <= Cardinality(Below(e))
      BY <1>1, <2>1, FS_Subset
    <3>2. Cardinality(Below(d)) # Cardinality(Below(e))
      BY <1>1, <2>1, <2>2, FS_Subset
    <3> HIDE DEF Below
    <3> QED
      BY <3>1, <3>2, <1>1
  <2>4. Cardinality(Below(d)) \in sizes
    OBVIOUS
  <2> QED
    BY <2>3, <2>4, <1>4, <1>5
<1> QED
  BY <1>6

-----------------------------------------------------------------------------
(* The first entry of the queue, and the newest; what leaves the queue.    *)

\* What most steps leave alone.
Same(g, k) ==
  /\ k.hold = g.hold /\ k.prev = g.prev /\ k.cur = g.cur /\ k.src = g.src
  /\ k.valid = g.valid /\ k.base = g.base /\ k.cut = g.cut /\ k.unread = g.unread
  /\ k.batch = g.batch /\ k.origin = g.origin

\* Each field can be set to a value of its type.
LEMMA Updates ==
  \A g \in Histories :
    /\ \A q \in SUBSET Entries : [g EXCEPT !.pending = q] \in Histories
    /\ \A x \in Int : /\ [g EXCEPT !.hold = x] \in Histories
                      /\ [g EXCEPT !.src = x] \in Histories
                      /\ [g EXCEPT !.base = x] \in Histories
                      /\ [g EXCEPT !.target = x] \in Histories
                      /\ [g EXCEPT !.failures = x] \in Histories
                      /\ [g EXCEPT !.prev = x] \in Histories
                      /\ [g EXCEPT !.cur = x] \in Histories
                      /\ [g EXCEPT !.origin = x] \in Histories
                      /\ [g EXCEPT !.batch = x] \in Histories
    /\ \A x \in BOOLEAN : /\ [g EXCEPT !.valid = x] \in Histories
                          /\ [g EXCEPT !.cut = x] \in Histories
                          /\ [g EXCEPT !.unread = x] \in Histories
    /\ \A e \in Epochs : [g EXCEPT !.epoch = e] \in Histories
    /\ \A x \in Nat : [g EXCEPT !.grid = x] \in Histories
    /\ \A q \in SUBSET Entries, x \in Int :
         [g EXCEPT !.pending = q, !.hold = x] \in Histories
    /\ \A q \in SUBSET Entries, x, y \in Int :
         [g EXCEPT !.pending = q, !.hold = x, !.failures = y] \in Histories
    /\ \A x, y \in Int : [g EXCEPT !.prev = x, !.cur = y] \in Histories
    /\ \A x \in BOOLEAN, y \in Int : [g EXCEPT !.valid = x, !.src = y] \in Histories
    /\ \A x, y \in BOOLEAN : [g EXCEPT !.unread = x, !.cut = y] \in Histories
    /\ \A p \in SUBSET Int : [g EXCEPT !.pins = p] \in Histories
    /\ \A q \in SUBSET Entries, r \in SUBSET Records :
         [g EXCEPT !.pending = q, !.recs = r] \in Histories
    /\ \A q \in SUBSET Entries, p \in SUBSET Int, x \in Int :
         [g EXCEPT !.batch = x, !.unread = TRUE, !.pins = p, !.pending = q] \in Histories
    /\ \A r \in SUBSET Records, e \in Epochs, x \in Nat :
         [g EXCEPT !.grid = x, !.recs = r, !.epoch = e] \in Histories
    /\ \A r \in SUBSET Records, e \in Epochs, x \in Nat :
         [g EXCEPT !.epoch = e, !.recs = r, !.grid = x] \in Histories
    /\ \A e \in Epochs, x \in Int : [g EXCEPT !.origin = x, !.epoch = e] \in Histories
    /\ \A r \in SUBSET Records : [g EXCEPT !.recs = r] \in Histories
    /\ \A q \in SUBSET Entries, r \in SUBSET Records, e \in Epochs :
         [g EXCEPT !.pending = q, !.epoch = e, !.recs = r] \in Histories
<1> TAKE g \in Histories
<1>1. \A q \in SUBSET Entries : [g EXCEPT !.pending = q] \in Histories
  BY DEF Histories
<1>2. \A x \in Int : /\ [g EXCEPT !.hold = x] \in Histories
                    /\ [g EXCEPT !.src = x] \in Histories
                    /\ [g EXCEPT !.base = x] \in Histories
                    /\ [g EXCEPT !.target = x] \in Histories
                    /\ [g EXCEPT !.failures = x] \in Histories
                    /\ [g EXCEPT !.prev = x] \in Histories
                    /\ [g EXCEPT !.cur = x] \in Histories
                    /\ [g EXCEPT !.origin = x] \in Histories
                    /\ [g EXCEPT !.batch = x] \in Histories
  BY DEF Histories
<1>3. \A x \in BOOLEAN : /\ [g EXCEPT !.valid = x] \in Histories
                        /\ [g EXCEPT !.cut = x] \in Histories
                        /\ [g EXCEPT !.unread = x] \in Histories
  BY DEF Histories
<1>4. \A e \in Epochs : [g EXCEPT !.epoch = e] \in Histories
  BY DEF Histories
<1>5. \A x \in Nat : [g EXCEPT !.grid = x] \in Histories
  BY DEF Histories
<1>6. \A q \in SUBSET Entries, x \in Int :
       [g EXCEPT !.pending = q, !.hold = x] \in Histories
  BY DEF Histories
<1>7. \A q \in SUBSET Entries, x, y \in Int :
       [g EXCEPT !.pending = q, !.hold = x, !.failures = y] \in Histories
  BY DEF Histories
<1>8. \A x, y \in Int : [g EXCEPT !.prev = x, !.cur = y] \in Histories
  BY DEF Histories
<1>9. \A x \in BOOLEAN, y \in Int : [g EXCEPT !.valid = x, !.src = y] \in Histories
  BY DEF Histories
<1>10. \A x, y \in BOOLEAN : [g EXCEPT !.unread = x, !.cut = y] \in Histories
  BY DEF Histories
<1>11. \A p \in SUBSET Int : [g EXCEPT !.pins = p] \in Histories
  BY DEF Histories
<1>12. \A q \in SUBSET Entries, r \in SUBSET Records :
       [g EXCEPT !.pending = q, !.recs = r] \in Histories
  BY DEF Histories
<1>13. \A q \in SUBSET Entries, p \in SUBSET Int, x \in Int :
       [g EXCEPT !.batch = x, !.unread = TRUE, !.pins = p, !.pending = q] \in Histories
  BY DEF Histories
<1>14. \A r \in SUBSET Records, e \in Epochs, x \in Nat :
       [g EXCEPT !.grid = x, !.recs = r, !.epoch = e] \in Histories
  BY DEF Histories
<1>15. \A r \in SUBSET Records, e \in Epochs, x \in Nat :
       [g EXCEPT !.epoch = e, !.recs = r, !.grid = x] \in Histories
  BY DEF Histories
<1>16. \A e \in Epochs, x \in Int : [g EXCEPT !.origin = x, !.epoch = e] \in Histories
  BY DEF Histories
<1>17. \A r \in SUBSET Records : [g EXCEPT !.recs = r] \in Histories
  BY DEF Histories
<1>18. \A q \in SUBSET Entries, r \in SUBSET Records, e \in Epochs :
       [g EXCEPT !.pending = q, !.epoch = e, !.recs = r] \in Histories
  BY DEF Histories
<1> QED
  BY <1>1, <1>2, <1>3, <1>4, <1>5, <1>6, <1>7, <1>8, <1>9, <1>10, <1>11, <1>12,
     <1>13, <1>14, <1>15, <1>16, <1>17, <1>18

\* The types of the fields, of an entry and of a record.
LEMMA EntryTypes ==
  ASSUME NEW g, Typed(g)
  PROVE  /\ \A e \in g.pending : e.real \in BOOLEAN /\ e.id \in Int /\ e.content \in Int
                                 /\ e.target \in Int
         /\ \A r \in g.recs : r.id \in Int /\ r.src \in Int /\ r.n \in Int
         /\ g.epoch.valid \in BOOLEAN /\ g.epoch.disp \in Int /\ g.epoch.src \in Int
         /\ g.epoch.n \in Int /\ g.origin \in Int /\ g.grid \in Nat
         /\ g.src \in Int /\ g.cur \in Int /\ g.prev \in Int /\ g.hold \in Int
         /\ g.valid \in BOOLEAN /\ g.base \in Int /\ IsFiniteSet(g.pending)
         /\ g.batch \in Int /\ g.unread \in BOOLEAN /\ g.cut \in BOOLEAN
<1>1. g.pending \subseteq Entries /\ g.recs \subseteq Records /\ g.epoch \in Epochs
  BY DEF Typed, Histories
<1>2. \A e \in g.pending : e.real \in BOOLEAN /\ e.id \in Int /\ e.content \in Int
                           /\ e.target \in Int
  BY <1>1 DEF Entries
<1>3. \A r \in g.recs : r.id \in Int /\ r.src \in Int /\ r.n \in Int
  BY <1>1 DEF Records
<1>4. g.epoch.valid \in BOOLEAN /\ g.epoch.disp \in Int /\ g.epoch.src \in Int
      /\ g.epoch.n \in Int
  BY <1>1 DEF Epochs
<1>5. /\ g.origin \in Int /\ g.grid \in Nat /\ g.src \in Int /\ g.cur \in Int /\ g.prev \in Int
      /\ g.hold \in Int /\ g.valid \in BOOLEAN /\ g.base \in Int /\ IsFiniteSet(g.pending)
      /\ g.batch \in Int /\ g.unread \in BOOLEAN /\ g.cut \in BOOLEAN
  BY DEF Typed, Histories
<1> QED
  BY <1>2, <1>3, <1>4, <1>5

\* The front of a queue is one of the entries that are due first.
LEMMA FrontIs ==
  ASSUME NEW g, Typed(g), g.pending # {}
  PROVE  /\ Front(g.pending) \in g.pending
         /\ \A e \in g.pending : Front(g.pending).target <= e.target
<1>1. \E e \in g.pending : \A d \in g.pending : e.target <= d.target
  BY EntryTypes, Least
<1> QED
  BY <1>1 DEF Front

\* The real entries are among those of the queue.
LEMMA RealIs ==
  ASSUME NEW g, Typed(g)
  PROVE  /\ Real(g.pending) \subseteq g.pending /\ IsFiniteSet(Real(g.pending))
         /\ \A e : e \in Real(g.pending) <=> e \in g.pending /\ e.real
<1>1. Real(g.pending) \in SUBSET g.pending
  BY DEF Real
<1> QED
  BY <1>1, EntryTypes, FS_Subset DEF Real

\* The newest real entry is one of a greatest frame.
LEMMA NewestIs ==
  ASSUME NEW g, Typed(g), Real(g.pending) # {}
  PROVE  /\ Newest(g.pending) \in Real(g.pending)
         /\ \A e \in Real(g.pending) : e.id <= Newest(g.pending).id
<1> DEFINE q == Real(g.pending)
           Above(e) == {d \in q : d.id > e.id}
           sizes == {Cardinality(Above(e)) : e \in q}
<1>0. IsFiniteSet(q) /\ \A e \in q : e.id \in Int /\ e.target \in Int
  BY RealIs, EntryTypes
<1> HIDE DEF q
<1>1. \A e \in q : IsFiniteSet(Above(e)) /\ Cardinality(Above(e)) \in Nat
  <2> TAKE e \in q
  <2>1. Above(e) \in SUBSET q
    OBVIOUS
  <2> QED
    BY <1>0, <2>1, FS_Subset, FS_CardinalityType
<1>2. sizes \subseteq Nat /\ sizes # {}
  BY <1>1 DEF q
<1>3. PICK c \in sizes : \A d \in sizes : ~(<<d, c>> \in OpToRel(<, Nat))
  BY <1>2, NatLessThanWellFounded, WFMin
<1>4. \A d \in sizes : ~(d < c)
  BY <1>2, <1>3 DEF OpToRel
<1>5. PICK e \in q : c = Cardinality(Above(e))
  OBVIOUS
<1>6. ASSUME NEW d \in q, d.id > e.id PROVE FALSE
  <2>1. Above(d) \in SUBSET Above(e)
    BY <1>0, <1>6
  <2>2. d \in Above(e) /\ d \notin Above(d)
    BY <1>0, <1>6
  <2>3. Cardinality(Above(d)) < Cardinality(Above(e))
    <3>1. Cardinality(Above(d)) <= Cardinality(Above(e))
      BY <1>1, <2>1, FS_Subset
    <3>2. Cardinality(Above(d)) # Cardinality(Above(e))
      BY <1>1, <2>1, <2>2, FS_Subset
    <3> HIDE DEF Above
    <3> QED
      BY <3>1, <3>2, <1>1
  <2>4. Cardinality(Above(d)) \in sizes
    OBVIOUS
  <2> QED
    BY <2>3, <2>4, <1>4, <1>5
<1>7. \A d \in q : d.id <= e.id
  BY <1>0, <1>6
<1> DEFINE top == {d \in q : d.id = e.id}
<1>8. IsFiniteSet(top) /\ e \in top
  <2>1. top \in SUBSET q
    OBVIOUS
  <2> QED
    BY <1>0, <2>1, FS_Subset
<1>9. PICK x \in top : \A d \in top : x.target <= d.target
  BY <1>0, <1>8, Least
<1>10. x \in q /\ \A d \in q : x.id > d.id \/ (x.id = d.id /\ x.target <= d.target)
  <2>1. x \in q /\ x.id = e.id
    BY <1>9
  <2>2. \A d \in q : d.id = e.id => x.target <= d.target
    BY <1>9
  <2> HIDE DEF top, Above, sizes
  <2> QED
    BY <1>0, <1>7, <2>1, <2>2
<1>11. /\ Newest(g.pending) \in q
       /\ \A d \in q : \/ Newest(g.pending).id > d.id
                       \/ Newest(g.pending).id = d.id /\ Newest(g.pending).target <= d.target
  <2> HIDE DEF top, Above, sizes
  <2> QED
    BY <1>10 DEF Newest, q
<1> QED
  BY <1>0, <1>11 DEF q

\* The statements that only say what the queue holds, and what is held, remain when
\* entries leave it.
LEMMA Fewer ==
  ASSUME NEW g, NEW k, Same(g, k), k.pending \subseteq g.pending,
         k.epoch = g.epoch, k.recs = g.recs, k.grid = g.grid
  PROVE  /\ \A s : Target(k, s) = Target(g, s)
         /\ \A f, s : Linked(g, f, s) => Linked(k, f, s)
         /\ \A n, f : Queue(g, n, f) => Queue(k, n, f)
         /\ \A c, s : Upto(g, c, s) => Upto(k, c, s)
         /\ \A n, s : Mapped(g, n, s) => Mapped(k, n, s)
         /\ \A n, sh : Behind(g, n, sh) => Behind(k, n, sh)
         /\ \A n, c, fl : Reported(g, n, c, fl) => Reported(k, n, c, fl)
         /\ \A f, s : Sent(g, f, s) => Sent(k, f, s)
         /\ \A f, sh : Display(g, f, sh) => Display(k, f, sh)
         /\ \A sh : Steady(g, sh) => Steady(k, sh)
         /\ \A t : OnTime(g, t) => OnTime(k, t)
<1>1. \A s : Target(k, s) = Target(g, s)
  BY DEF Target, Ideal, Same
<1>2. \A f, s : Linked(g, f, s) => Linked(k, f, s)
  BY DEF Linked, Same
<1>3. \A n, f : Queue(g, n, f) => Queue(k, n, f)
  BY DEF Queue
<1>4. \A c, s : Upto(g, c, s) => Upto(k, c, s)
  BY DEF Upto
<1>5. \A n, s : Mapped(g, n, s) => Mapped(k, n, s)
  BY <1>1 DEF Mapped
<1>6. \A n, sh : Behind(g, n, sh) => Behind(k, n, sh)
  BY DEF Behind, Same
<1>7. \A n, c, fl : Reported(g, n, c, fl) => Reported(k, n, c, fl)
  BY DEF Reported
<1>8. \A f, s : Sent(g, f, s) => Sent(k, f, s)
  BY DEF Sent, Same
<1>9. \A f, sh : Display(g, f, sh) => Display(k, f, sh)
  BY DEF Display, Same
<1>10. \A sh : Steady(g, sh) => Steady(k, sh)
  BY DEF Steady, Same
<1>11. \A t : OnTime(g, t) => OnTime(k, t)
  BY DEF OnTime
<1> QED
  BY <1>1, <1>2, <1>3, <1>4, <1>5, <1>6, <1>7, <1>8, <1>9, <1>10, <1>11

\* Any entries may leave the queue.
LEMMA Without ==
  ASSUME NEW g, Typed(g), NEW q \in SUBSET g.pending,
         NEW k, k = [g EXCEPT !.pending = q]
  PROVE  /\ Typed(k) /\ Same(g, k) /\ k.pending = q
         /\ k.epoch = g.epoch /\ k.recs = g.recs /\ k.grid = g.grid /\ k.target = g.target
<1>1. g \in Histories /\ q \in SUBSET Entries /\ IsFiniteSet(q)
  BY FS_Subset DEF Typed, Histories
<1>2. k \in Histories
  BY <1>1, Updates, Zenon
<1>3. k.pending = q
  BY <1>1 DEF Histories
<1>4. Same(g, k)
  BY <1>1 DEF Histories, Same
<1>5. k.epoch = g.epoch /\ k.recs = g.recs /\ k.grid = g.grid /\ k.target = g.target
  BY <1>1 DEF Histories
<1> QED
  BY <1>1, <1>2, <1>3, <1>4, <1>5 DEF Typed

\* Their order stays if the last frame does, as long as there is a real one.
LEMMA OrderFewer ==
  ASSUME NEW g, NEW k, NEW n, NEW c, Order(g, n, c),
         k.pending \subseteq g.pending, k.recs = g.recs,
         \A e \in k.pending : New(e, n) /\ e.real =>
           \E d \in k.pending : d.real /\ d.id = c /\ d.content = 2 * c
  PROVE  Order(k, n, c)
  BY DEF Order

\* It does if all the real ones stay.
LEMMA OrderReals ==
  ASSUME NEW g, NEW k, k.pending \subseteq g.pending, k.recs = g.recs,
         \A e \in g.pending : e.real => e \in k.pending
  PROVE  /\ \A n, c : Order(g, n, c) => Order(k, n, c)
         /\ \A c, sh : k.epoch = g.epoch /\ k.hold = g.hold /\ Arrives(g, c, sh)
                         => Arrives(k, c, sh)
<1>1. ASSUME NEW n, NEW c, Order(g, n, c) PROVE Order(k, n, c)
  <2>1. \A e \in k.pending : New(e, n) /\ e.real =>
          \E d \in k.pending : d.real /\ d.id = c /\ d.content = 2 * c
    BY <1>1 DEF Order
  <2> QED
    BY <1>1, <2>1, OrderFewer
<1>2. \A c, sh : k.epoch = g.epoch /\ k.hold = g.hold /\ Arrives(g, c, sh) => Arrives(k, c, sh)
  BY DEF Arrives
<1> QED
  BY <1>1, <1>2

\* A resync begins a new mapping at the newest real entry if that is recorded, and
\* none if not; what is queued and held stays.
LEMMA ResyncIs ==
  ASSUME NEW g, Typed(g), NEW k, k = Resync(g)
  PROVE  /\ Typed(k) /\ Same(g, k) /\ k.pending = g.pending /\ k.grid # 0
         /\ k.epoch.valid =>
              \E r \in g.recs :
                /\ Real(g.pending) # {} /\ r.id = Newest(g.pending).id
                /\ \A x \in k.recs : x.id = r.id /\ x.src = r.src
                /\ \E x \in k.recs : x.id = r.id
                /\ k.epoch.src = r.src /\ k.epoch.disp = Ticks * Newest(g.pending).target
         /\ ~k.epoch.valid => k.recs = {} /\ (\/ Real(g.pending) = {}
                                              \/ \A r \in g.recs : r.id # Newest(g.pending).id)
<1> DEFINE kept == IF Real(g.pending) = {} THEN {}
                   ELSE {r \in g.recs : r.id = Newest(g.pending).id}
           n == g.grid + 1
<1>1. g \in Histories /\ IsFiniteSet(g.pending) /\ g.grid \in Nat /\ n \in Nat /\ n # 0
  BY DEF Typed, Histories
<1>2. CASE kept = {}
  <2>1. k = [g EXCEPT !.grid = n, !.recs = {}, !.epoch = NoEpoch]
    BY <1>2 DEF Resync
  <2>2. NoEpoch \in Epochs /\ NoEpoch.valid = FALSE
    BY DEF NoEpoch, Epochs
  <2>3. k \in Histories
    <3>1. {} \in SUBSET Records
      OBVIOUS
    <3> HIDE DEF kept, n
    <3>2. [g EXCEPT !.grid = n, !.recs = {}, !.epoch = NoEpoch] \in Histories
      BY <1>1, <2>2, <3>1, Updates
    <3> QED
      BY <2>1, <3>2
  <2>4. k.pending = g.pending /\ k.epoch = NoEpoch /\ k.recs = {} /\ k.grid = n /\ Same(g, k)
    BY <1>1, <2>1 DEF Histories, Same
  <2>5. Real(g.pending) = {} \/ \A r \in g.recs : r.id # Newest(g.pending).id
    BY <1>2
  <2> HIDE DEF kept, n
  <2> QED
    BY <1>1, <2>2, <2>3, <2>4, <2>5 DEF Typed
<1>3. CASE kept # {}
  <2> DEFINE r == CHOOSE x \in kept : TRUE
             e == Newest(g.pending)
             rn == [r EXCEPT !.n = n]
             ep == Establish(r.src, Ticks * e.target, n)
  <2>1. k = [g EXCEPT !.grid = n, !.recs = {rn}, !.epoch = ep]
    BY <1>3 DEF Resync
  <2>2. r \in kept
    BY <1>3
  <2>3. r \in g.recs /\ r.id = e.id /\ Real(g.pending) # {}
    BY <1>3, <2>2
  <2>4. e \in Real(g.pending)
    BY <2>3, NewestIs
  <2>5. e.target \in Int
    BY <2>4, RealIs, EntryTypes
  <2> HIDE DEF kept, n, r, e
  <2>6. r \in Records
    BY <1>1, <2>3 DEF Histories
  <2>7. rn \in Records /\ rn.id = r.id /\ rn.src = r.src
    BY <1>1, <2>6 DEF Records
  <2>8. ep \in Epochs /\ ep.valid = TRUE /\ ep.src = r.src /\ ep.disp = Ticks * e.target
    <3>1. Ticks * e.target \in Int /\ r.src \in Int /\ n \in Int
      BY <2>5, <2>6, <1>1, BidirAssumption DEF Records
    <3> QED
      BY <3>1 DEF Establish, Epochs
  <2> HIDE DEF rn, ep
  <2>9. k \in Histories
    <3>1. {rn} \in SUBSET Records
      BY <2>7
    <3>2. [g EXCEPT !.grid = n, !.recs = {rn}, !.epoch = ep] \in Histories
      BY <1>1, <2>8, <3>1, Updates
    <3> QED
      BY <2>1, <3>2
  <2>10. k.pending = g.pending /\ k.epoch = ep /\ k.recs = {rn} /\ k.grid = n /\ Same(g, k)
    BY <1>1, <2>1 DEF Histories, Same
  <2>11. \A x \in k.recs : x.id = r.id /\ x.src = r.src
    BY <2>7, <2>10
  <2>12. \E x \in k.recs : x.id = r.id
    BY <2>7, <2>10
  <2>13. Typed(k)
    BY <1>1, <2>9, <2>10 DEF Typed
  <2>14. k.epoch.valid = TRUE /\ k.epoch.src = r.src /\ k.epoch.disp = Ticks * e.target
    BY <2>8, <2>10
  <2> QED
    BY <1>1, <2>3, <2>10, <2>11, <2>12, <2>13, <2>14 DEF e
<1> QED
  BY <1>2, <1>3

\* Every record after it is one of before, of the newest real entry.
LEMMA ResyncRecords ==
  ASSUME NEW g, Typed(g)
  PROVE  /\ \A x \in Resync(g).recs : \E r \in g.recs : x.id = r.id /\ x.src = r.src
         /\ Resync(g).epoch.valid => Real(g.pending) # {} /\ g.recs # {}
         /\ Resync(g).recs # {} => Resync(g).epoch.valid
  BY ResyncIs

\* The statements about what is queued and held, whatever the mapping.
LEMMA ResyncQueue ==
  ASSUME NEW g, Typed(g), NEW k, k = Resync(g)
  PROVE  /\ \A f, s : Linked(g, f, s) => Linked(k, f, s)
         /\ \A n, f : Queue(g, n, f) => Queue(k, n, f)
         /\ \A c, s : Upto(g, c, s) => Upto(k, c, s)
         /\ \A n, sh : Behind(g, n, sh) => Behind(k, n, sh)
         /\ \A n, c, fl : Reported(g, n, c, fl) => Reported(k, n, c, fl)
         /\ \A f, s : Sent(g, f, s) => Sent(k, f, s)
         /\ \A sh : Steady(g, sh) => Steady(k, sh)
<1>1. Typed(k) /\ Same(g, k) /\ k.pending = g.pending /\ k.grid # 0
  BY ResyncIs
<1>2. /\ \A x \in k.recs : \E r \in g.recs : x.id = r.id /\ x.src = r.src
      /\ k.epoch.valid => g.recs # {}
      /\ k.recs # {} => k.epoch.valid
  BY ResyncRecords
<1>3. \A f, s : Linked(g, f, s) => Linked(k, f, s)
  BY <1>1, <1>2 DEF Linked, Same
<1>4. \A n, f : Queue(g, n, f) => Queue(k, n, f)
  BY <1>1 DEF Queue
<1>5. \A c, s : Upto(g, c, s) => Upto(k, c, s)
  BY <1>1, <1>2 DEF Upto
<1>6. \A n, sh : Behind(g, n, sh) => Behind(k, n, sh)
  BY <1>1 DEF Behind, Same
<1>7. \A n, c, fl : Reported(g, n, c, fl) => Reported(k, n, c, fl)
  BY <1>1 DEF Reported
<1>8. \A f, s : Sent(g, f, s) => Sent(k, f, s)
  BY <1>1, <1>2 DEF Sent, Same
<1>9. \A sh : Steady(g, sh) => Steady(k, sh)
  BY <1>1 DEF Steady, Same
<1> QED
  BY <1>3, <1>4, <1>5, <1>6, <1>7, <1>8, <1>9

\* The order stays, and the new mapping puts no entry of the scene after its target.
LEMMA ResyncOrder ==
  ASSUME NEW g, Typed(g), NEW k, k = Resync(g), NEW n \in Int, NEW c \in Int, NEW f, NEW s \in Int,
         Order(g, n, c), Queue(g, n, f), Upto(g, c, s), n <= c
  PROVE  Order(k, n, c) /\ ((\E e \in g.pending : New(e, n) /\ e.real) => Mapped(k, n, s))
<1>1. Typed(k) /\ Same(g, k) /\ k.pending = g.pending
  BY ResyncIs
<1>2. ASSUME NEW e \in g.pending, New(e, n), e.real
      PROVE  /\ k.epoch.valid /\ Newest(g.pending).id = c /\ Real(g.pending) # {}
             /\ New(Newest(g.pending), n) /\ Newest(g.pending) \in g.pending
             /\ Newest(g.pending).real
             /\ \E r \in k.recs : r.id = c
  <2>1. PICK d \in g.pending : d.real /\ d.id = c /\ d.content = 2 * c
    BY <1>2 DEF Order
  <2>2. PICK r \in g.recs : r.id = c
    BY <1>2 DEF Order
  <2> DEFINE w == Newest(g.pending)
  <2>3. d \in Real(g.pending) /\ e \in Real(g.pending)
    BY <1>2, <2>1, RealIs
  <2>4. w \in Real(g.pending) /\ d.id <= w.id /\ e.id <= w.id
    BY <2>3, NewestIs
  <2> HIDE DEF w
  <2>5. w \in g.pending /\ w.real /\ w.id \in Int /\ e.id \in Int /\ d.id \in Int
    BY <2>4, RealIs, EntryTypes
  <2>6. w.id <= c
    BY <2>5 DEF Upto
  <2>7. w.id = c
    BY <2>1, <2>4, <2>5, <2>6
  <2>8. New(w, n)
    BY <1>2, <2>4, <2>5 DEF New
  <2>9. k.epoch.valid
    <3>1. ~(\/ Real(g.pending) = {} \/ \A x \in g.recs : x.id # Newest(g.pending).id)
      BY <2>2, <2>3, <2>7 DEF w
    <3> QED
      BY <3>1, ResyncIs
  <2>10. \E x \in k.recs : x.id = c
    BY <2>7, <2>9, ResyncIs DEF w
  <2> QED
    BY <2>3, <2>5, <2>7, <2>8, <2>9, <2>10 DEF w
<1>3. Order(k, n, c)
  BY <1>1, <1>2 DEF Order
<1>4. ASSUME NEW e0 \in g.pending, New(e0, n), e0.real, NEW e \in k.pending, New(e, n)
      PROVE  k.epoch.valid /\ e.target <= Target(k, s)
  <2> DEFINE w == Newest(g.pending)
  <2>1. /\ k.epoch.valid /\ w.id = c /\ New(w, n) /\ w \in g.pending /\ w.real
    BY <1>2, <1>4
  <2>2. PICK r \in g.recs : k.epoch.src = r.src /\ k.epoch.disp = Ticks * w.target
    BY <2>1, ResyncIs
  <2> HIDE DEF w
  <2>3. r.src <= s /\ r.src \in Int /\ w.target \in Int /\ e.target \in Int
    BY <1>1, <2>1, EntryTypes DEF Upto
  <2>4. w.target <= Target(k, s)
    BY <1>1, <2>2, <2>3, TargetStays
  <2>5. Target(k, s) \in Int
    BY <1>1, TargetIs
  <2>6. e.target <= w.target
    <3>1. CASE w.target < e.target
      <4>1. e.id <= c /\ c <= e.id /\ w.content <= e.content /\ e.id \in Int
        BY <1>1, <1>4, <2>1, <3>1, EntryTypes DEF Order, Upto
      <4>2. PICK d \in g.pending : d.real /\ d.id = c /\ d.content = 2 * c
        BY <1>4 DEF Order
      <4>3. New(d, n) /\ d = w
        <5>1. New(d, n)
          BY <2>1, <4>2 DEF New
        <5> QED
          BY <5>1, <2>1, <4>2 DEF Order
      <4>4. CASE e.real
        BY <4>1, <4>4, <2>1, <1>1, <1>4, <3>1, <2>3 DEF Order
      <4>5. CASE ~e.real
        <5>1. e.content = 2 * e.id - 1
          BY <1>1, <1>4, <4>5 DEF Queue
        <5> QED
          BY <4>1, <4>2, <4>3, <5>1
      <4> QED
        BY <4>4, <4>5
    <3> QED
      BY <3>1, <2>3
  <2> QED
    BY <2>1, <2>3, <2>4, <2>5, <2>6
<1>5. (\E e \in g.pending : New(e, n) /\ e.real) => Mapped(k, n, s)
  BY <1>4 DEF Mapped
<1> QED
  BY <1>3, <1>5

-----------------------------------------------------------------------------
(* The queue gives way.                                                    *)

\* No real entry is lost.
Spares(g, k) ==
  /\ Typed(k) /\ Same(g, k) /\ k.pending \subseteq g.pending
  /\ \A e \in g.pending : e.real => e \in k.pending
  /\ k.epoch = g.epoch /\ k.recs = g.recs /\ k.grid = g.grid

\* Real entries are, and with them all the others: the oldest of them.
GivesUp(g, k) ==
  /\ Typed(k) /\ Same(g, k) /\ k.pending \subseteq g.pending
  /\ \A e \in k.pending : e.real
  /\ \E d \in g.pending : d.real /\ d \notin k.pending
  /\ \A e \in k.pending, d \in g.pending : d.real /\ d \notin k.pending => d.target <= e.target
  /\ k.epoch = g.epoch /\ k.recs = g.recs /\ k.grid = g.grid

\* What goes first is not due after what stays.
LEMMA OldestAre ==
  ASSUME NEW q, IsFiniteSet(q), \A e \in q : e.target \in Int, NEW n \in Int
  PROVE  /\ Oldest(q, n) \subseteq q
         /\ \A d \in Oldest(q, n), e \in q \ Oldest(q, n) : d.target <= e.target
<1> DEFINE Before_(e) == {x \in q : x.target < e.target}
<1>1. Oldest(q, n) = {e \in q : Cardinality(Before_(e)) < n}
  BY DEF Oldest
<1>2. ASSUME NEW d \in Oldest(q, n), NEW e \in q \ Oldest(q, n), e.target < d.target
      PROVE  FALSE
  <2>1. d \in q /\ e \in q /\ Cardinality(Before_(d)) < n /\ ~(Cardinality(Before_(e)) < n)
    BY <1>1, <1>2
  <2>2. Before_(e) \in SUBSET Before_(d)
    BY <1>2, <2>1
  <2>3. Before_(d) \in SUBSET q
    OBVIOUS
  <2>4. IsFiniteSet(Before_(d)) /\ Cardinality(Before_(d)) \in Nat
    BY <2>3, FS_Subset, FS_CardinalityType
  <2>5. Cardinality(Before_(e)) <= Cardinality(Before_(d)) /\ Cardinality(Before_(e)) \in Nat
    BY <2>2, <2>4, FS_Subset, FS_CardinalityType
  <2> HIDE DEF Before_
  <2> QED
    BY <2>1, <2>4, <2>5
<1>3. Oldest(q, n) \subseteq q
  BY <1>1
<1> QED
  BY <1>2, <1>3

\* What is shed: generated entries only, or all of them and the oldest of the real ones.
LEMMA DoomedAre ==
  ASSUME NEW g, Typed(g), NEW n \in Int, NEW gone, gone = Doomed(g.pending, n)
  PROVE  /\ gone \subseteq g.pending
         /\ \/ \A e \in gone : ~e.real
            \/ /\ \A e \in g.pending : ~e.real => e \in gone
               /\ \E d \in gone : d.real
               /\ \A e \in g.pending \ gone, d \in gone : d.real => d.target <= e.target
<1> DEFINE q == g.pending
           made == q \ Real(q)
           over == n - Cardinality(made)
<1>1. IsFiniteSet(q) /\ IsFiniteSet(Real(q)) /\ \A e \in q : e.target \in Int
  BY EntryTypes, RealIs
<1>2. made \in SUBSET q /\ \A e \in made : ~e.real
  BY RealIs
<1>3. IsFiniteSet(made) /\ Cardinality(made) \in Nat
  BY <1>1, <1>2, FS_Subset, FS_CardinalityType
<1>4. CASE over <= 0
  <2>1. gone = Oldest(made, n)
    BY <1>4 DEF Doomed
  <2> HIDE DEF made, over
  <2>2. gone \subseteq made
    BY <1>1, <1>2, <1>3, <2>1, OldestAre
  <2> QED
    BY <1>2, <2>2
<1>5. CASE ~(over <= 0)
  <2> DEFINE old == Oldest(Real(q), over)
  <2>1. gone = made \cup old
    BY <1>5 DEF Doomed
  <2>2. \A e : e \in Real(q) <=> e \in q /\ e.real
    BY RealIs
  <2>3. over \in Int
    BY <1>3
  <2>4. \A e \in q : ~e.real => e \in made
    BY <2>2
  <2> HIDE DEF made, over
  <2>5. /\ old \subseteq Real(q)
        /\ \A d \in old, e \in Real(q) \ old : d.target <= e.target
    BY <1>1, <2>2, <2>3, OldestAre
  <2> HIDE DEF old
  <2>6. gone \subseteq q
    BY <1>2, <2>1, <2>2, <2>5
  <2>7. \A d \in gone : d.real => d \in old
    BY <1>2, <2>1
  <2>8. \A e \in q \ gone : e \in Real(q) \ old
    BY <2>1, <2>2, <2>4
  <2> QED
    BY <2>1, <2>4, <2>5, <2>6, <2>7, <2>8
<1> QED
  BY <1>4, <1>5

\* No real entry is lost, or none of the others is left and the mapping begins anew.
LEMMA ShedIs ==
  ASSUME NEW g, Typed(g), NEW cap \in Int, NEW k, k = Shed(g, cap)
  PROVE  \/ Spares(g, k)
         \/ \E w : GivesUp(g, w) /\ k = Resync(w)
<1> DEFINE n == Cardinality(g.pending) - cap
           gone == Doomed(g.pending, n)
           q == g.pending \ gone
           left == [g EXCEPT !.pending = q]
<1>1. n \in Int
  BY EntryTypes, FS_CardinalityType
<1>2. k = IF Cardinality(g.pending) <= cap THEN g
          ELSE IF Real(gone) = {} THEN left ELSE Resync(left)
  <2>1. gone = Doomed(g.pending, Cardinality(g.pending) - cap) /\ q = g.pending \ gone
    OBVIOUS
  <2> HIDE DEF gone, q
  <2> QED
    BY <2>1 DEF Shed
<1>3. Real(gone) = {} <=> \A e \in gone : ~e.real
  BY DEF Real
<1>4. /\ gone \subseteq g.pending
      /\ \/ \A e \in gone : ~e.real
         \/ /\ \A e \in g.pending : ~e.real => e \in gone
            /\ \E d \in gone : d.real
            /\ \A e \in g.pending \ gone, d \in gone : d.real => d.target <= e.target
  BY <1>1, DoomedAre
<1> HIDE DEF gone
<1>5. q \in SUBSET g.pending /\ \A e \in g.pending : e \in q <=> e \notin gone
  OBVIOUS
<1> HIDE DEF q
<1>6. /\ Typed(left) /\ Same(g, left) /\ left.pending = q
      /\ left.epoch = g.epoch /\ left.recs = g.recs /\ left.grid = g.grid
  BY <1>5, Without
<1> HIDE DEF left
<1>7. CASE Cardinality(g.pending) <= cap
  <2>1. k = g
    BY <1>2, <1>7
  <2> QED
    BY <2>1 DEF Spares, Same
<1>8. CASE ~(Cardinality(g.pending) <= cap) /\ Real(gone) = {}
  <2>1. k = left
    BY <1>2, <1>8
  <2> QED
    BY <1>3, <1>5, <1>6, <1>8, <2>1 DEF Spares
<1>9. CASE ~(Cardinality(g.pending) <= cap) /\ Real(gone) # {}
  <2>1. k = Resync(left)
    BY <1>2, <1>9
  <2>2. \A e \in q : e.real
    BY <1>3, <1>4, <1>5, <1>9, EntryTypes
  <2>3. \E d \in g.pending : d.real /\ d \notin q
    BY <1>3, <1>4, <1>5, <1>9
  <2>4. \A e \in q, d \in g.pending : d.real /\ d \notin q => d.target <= e.target
    BY <1>3, <1>4, <1>5, <1>9
  <2>5. GivesUp(g, left)
    BY <1>5, <1>6, <2>2, <2>3, <2>4 DEF GivesUp
  <2> QED
    BY <2>1, <2>5
<1> QED
  BY <1>7, <1>8, <1>9

\* The statements about what is queued and held carry over, and nothing enters.
LEMMA ShedQueue ==
  ASSUME NEW g, Typed(g), NEW cap \in Int, NEW k, k = Shed(g, cap)
  PROVE  /\ Typed(k) /\ Same(g, k) /\ k.pending \subseteq g.pending
         /\ k.grid # g.grid => k.grid # 0
         /\ \A f, s : Linked(g, f, s) => Linked(k, f, s)
         /\ \A n, f : Queue(g, n, f) => Queue(k, n, f)
         /\ \A c, s : Upto(g, c, s) => Upto(k, c, s)
         /\ \A n, sh : Behind(g, n, sh) => Behind(k, n, sh)
         /\ \A n, c, fl : Reported(g, n, c, fl) => Reported(k, n, c, fl)
         /\ \A f, s : Sent(g, f, s) => Sent(k, f, s)
         /\ \A sh : Steady(g, sh) => Steady(k, sh)
<1>1. CASE Spares(g, k)
  <2>1. /\ Typed(k) /\ Same(g, k) /\ k.pending \subseteq g.pending
        /\ k.epoch = g.epoch /\ k.recs = g.recs /\ k.grid = g.grid
    BY <1>1 DEF Spares
  <2> QED
    BY <2>1, Fewer
<1>2. ASSUME NEW w, GivesUp(g, w), k = Resync(w)
      PROVE  /\ Typed(k) /\ Same(g, k) /\ k.pending \subseteq g.pending
             /\ k.grid # g.grid => k.grid # 0
             /\ \A f, s : Linked(g, f, s) => Linked(k, f, s)
             /\ \A n, f : Queue(g, n, f) => Queue(k, n, f)
             /\ \A c, s : Upto(g, c, s) => Upto(k, c, s)
             /\ \A n, sh : Behind(g, n, sh) => Behind(k, n, sh)
             /\ \A n, c, fl : Reported(g, n, c, fl) => Reported(k, n, c, fl)
             /\ \A f, s : Sent(g, f, s) => Sent(k, f, s)
             /\ \A sh : Steady(g, sh) => Steady(k, sh)
  <2>1. /\ Typed(w) /\ Same(g, w) /\ w.pending \subseteq g.pending
        /\ w.epoch = g.epoch /\ w.recs = g.recs /\ w.grid = g.grid
    BY <1>2 DEF GivesUp
  <2>2. Typed(k) /\ Same(w, k) /\ k.pending = w.pending /\ k.grid # 0
    BY <1>2, <2>1, ResyncIs
  <2>3. Same(g, k)
    BY <2>1, <2>2 DEF Same
  <2>4. /\ \A f, s : Linked(g, f, s) => Linked(w, f, s)
        /\ \A n, f : Queue(g, n, f) => Queue(w, n, f)
        /\ \A c, s : Upto(g, c, s) => Upto(w, c, s)
        /\ \A n, sh : Behind(g, n, sh) => Behind(w, n, sh)
        /\ \A n, c, fl : Reported(g, n, c, fl) => Reported(w, n, c, fl)
        /\ \A f, s : Sent(g, f, s) => Sent(w, f, s)
        /\ \A sh : Steady(g, sh) => Steady(w, sh)
    BY <2>1, Fewer
  <2> QED
    BY <1>2, <2>1, <2>2, <2>3, <2>4, ResyncQueue
<1> QED
  BY <1>1, <1>2, ShedIs

\* When real entries go, the frame queued last stays as long as one of its scene does.
LEMMA LastStays ==
  ASSUME NEW g, Typed(g), NEW w, GivesUp(g, w), NEW n \in Int, NEW c \in Int, NEW f, NEW s,
         Order(g, n, c), Queue(g, n, f), Upto(g, c, s),
         NEW e \in w.pending, New(e, n)
  PROVE  \E d \in w.pending : d.real /\ d.id = c /\ d.content = 2 * c
<1>1. e \in g.pending /\ e.real
  BY DEF GivesUp
<1>2. PICK d \in g.pending : d.real /\ d.id = c /\ d.content = 2 * c
  BY <1>1 DEF Order
<1>3. e.id \in Int /\ d.id \in Int /\ e.target \in Int /\ d.target \in Int
  BY <1>1, <1>2, EntryTypes
<1>4. e.id <= d.id /\ New(d, n)
  BY <1>1, <1>2, <1>3 DEF Upto, New
<1>5. ASSUME d \notin w.pending PROVE FALSE
  <2>1. d.target <= e.target /\ d # e
    BY <1>2, <1>5 DEF GivesUp
  <2>2. d.target < e.target
    BY <1>1, <1>2, <1>3, <2>1 DEF Queue
  <2>3. d.id = e.id
    BY <1>1, <1>2, <1>3, <1>4, <2>2 DEF Order
  <2> QED
    BY <1>1, <1>2, <1>4, <2>1, <2>3 DEF Order
<1> QED
  BY <1>2, <1>5

\* The order stays, and so does what the mapping has to do with it; if real entries are
\* lost, it does whatever it had to do before.
LEMMA ShedOrder ==
  ASSUME NEW g, Typed(g), NEW cap \in Int, NEW k, k = Shed(g, cap),
         NEW n \in Int, NEW c \in Int, NEW f, NEW s \in Int,
         Order(g, n, c), Queue(g, n, f), Upto(g, c, s), n <= c
  PROVE  /\ Order(k, n, c)
         /\ Mapped(g, n, s) \/ Real(g.pending) \ Real(k.pending) # {} => Mapped(k, n, s)
<1>1. CASE Spares(g, k)
  <2>1. /\ Typed(k) /\ Same(g, k) /\ k.pending \subseteq g.pending
        /\ k.epoch = g.epoch /\ k.recs = g.recs /\ k.grid = g.grid
        /\ \A e \in g.pending : e.real => e \in k.pending
    BY <1>1 DEF Spares
  <2>2. Real(g.pending) \ Real(k.pending) = {}
    BY <2>1 DEF Real
  <2>3. Order(k, n, c)
    BY <2>1, OrderReals
  <2>4. Mapped(g, n, s) => Mapped(k, n, s)
    BY <2>1, Fewer
  <2> QED
    BY <2>2, <2>3, <2>4
<1>2. ASSUME NEW w, GivesUp(g, w), k = Resync(w)
      PROVE  Order(k, n, c) /\ Mapped(k, n, s)
  <2>1. /\ Typed(w) /\ Same(g, w) /\ w.pending \subseteq g.pending
        /\ \A e \in w.pending : e.real
        /\ w.epoch = g.epoch /\ w.recs = g.recs /\ w.grid = g.grid
    BY <1>2 DEF GivesUp
  <2>2. \A e \in w.pending : New(e, n) /\ e.real =>
          \E d \in w.pending : d.real /\ d.id = c /\ d.content = 2 * c
    BY <1>2, LastStays
  <2>3. Order(w, n, c)
    BY <2>1, <2>2, OrderFewer
  <2>4. Queue(w, n, f) /\ Upto(w, c, s)
    BY <2>1, Fewer
  <2>5. Order(k, n, c) /\ ((\E e \in w.pending : New(e, n) /\ e.real) => Mapped(k, n, s))
    BY <1>2, <2>1, <2>3, <2>4, ResyncOrder
  <2>6. k.pending = w.pending
    BY <1>2, <2>1, ResyncIs
  <2>7. ~(\E e \in w.pending : New(e, n) /\ e.real) => Mapped(k, n, s)
    BY <2>1, <2>6 DEF Mapped
  <2> QED
    BY <2>5, <2>7
<1> QED
  BY <1>1, <1>2, ShedIs

\* The frame queued last is still on the display or to come.
LEMMA ShedArrives ==
  ASSUME NEW g, Typed(g), NEW cap \in Int, NEW k, k = Shed(g, cap),
         NEW c \in Int, NEW f, NEW s, NEW sh,
         Queue(g, 0, f), Upto(g, c, s), Order(g, 0, c), Arrives(g, c, sh)
  PROVE  Arrives(k, c, sh)
<1>1. CASE Spares(g, k)
  <2>1. /\ Same(g, k) /\ k.pending \subseteq g.pending /\ k.epoch = g.epoch /\ k.recs = g.recs
        /\ \A e \in g.pending : e.real => e \in k.pending
    BY <1>1 DEF Spares
  <2>2. k.hold = g.hold
    BY <2>1 DEF Same
  <2> QED
    BY <2>1, <2>2, OrderReals
<1>2. ASSUME NEW w, GivesUp(g, w), k = Resync(w), k.epoch.valid
      PROVE  \E d \in k.pending : d.real /\ d.id = c /\ d.content = 2 * c
  <2>1. Typed(w) /\ w.pending \subseteq g.pending
    BY <1>2 DEF GivesUp
  <2>2. Real(w.pending) # {} /\ k.pending = w.pending
    BY <1>2, <2>1, ResyncIs
  <2>3. PICK e \in w.pending : e.real
    BY <2>1, <2>2, RealIs
  <2>4. e.id \in Int /\ e.content \in Int /\ e.content > 0 /\ e.content <= 2 * e.id
    BY <2>1, EntryTypes DEF Queue
  <2>5. New(e, 0)
    BY <2>4 DEF New
  <2> QED
    BY <1>2, <2>2, <2>5, LastStays
<1> QED
  BY <1>1, <1>2, ShedIs DEF Arrives

\* The mapping shows a frame after its source time, and every recorded frame is queued
\* for an opportunity after its own.
Ahead(g) ==
  /\ g.epoch.valid => g.epoch.disp > g.epoch.src
  /\ \A e \in g.pending, r \in g.recs : e.real /\ r.id = e.id => r.src < Ticks * e.target

\* What is on time is ahead of every source time so far.
LEMMA AheadOnTime ==
  ASSUME NEW g, Typed(g), NEW t \in Int, OnTime(g, t), NEW s \in Int, s < Ticks * t,
         \A r \in g.recs : r.src <= s
  PROVE  Ahead(g)
<1>0. Ticks \in Nat \ {0} /\ Ticks * t \in Int
  BY BidirAssumption
<1>1. ASSUME NEW e \in g.pending, NEW r \in g.recs PROVE r.src < Ticks * e.target
  <2>1. e.target \in Int /\ r.src \in Int /\ e.target >= t /\ r.src <= s
    BY EntryTypes DEF OnTime
  <2>2. Ticks * (e.target - t) >= 0 /\ Ticks * e.target \in Int
    BY <1>0, <2>1
  <2>3. Ticks * (e.target - t) = Ticks * e.target - Ticks * t
    BY <1>0, <2>1
  <2> QED
    BY <1>0, <2>1, <2>2, <2>3
<1> QED
  BY <1>1 DEF Ahead, OnTime

\* A new mapping begins at the target of a recorded frame.
LEMMA ResyncAhead ==
  ASSUME NEW g, Typed(g), NEW k, k = Resync(g), Ahead(g)
  PROVE  Ahead(k)
<1>1. /\ k.pending = g.pending
      /\ \A x \in k.recs : \E r \in g.recs : x.id = r.id /\ x.src = r.src
  BY ResyncIs, ResyncRecords
<1>2. ASSUME k.epoch.valid PROVE k.epoch.disp > k.epoch.src
  <2> DEFINE e == Newest(g.pending)
  <2>1. PICK r \in g.recs : /\ Real(g.pending) # {} /\ r.id = e.id
                            /\ k.epoch.src = r.src /\ k.epoch.disp = Ticks * e.target
    BY <1>2, ResyncIs
  <2>2. e \in Real(g.pending)
    BY <2>1, NewestIs
  <2>3. e \in g.pending /\ e.real /\ e.target \in Int /\ r.src \in Int
    BY <2>2, RealIs, EntryTypes
  <2> HIDE DEF e
  <2>4. r.src < Ticks * e.target
    BY <2>1, <2>3 DEF Ahead
  <2>5. Ticks * e.target \in Int
    BY <2>3, BidirAssumption
  <2> QED
    BY <2>1, <2>3, <2>4, <2>5
<1>3. ASSUME NEW e \in k.pending, NEW x \in k.recs, e.real, x.id = e.id
      PROVE  x.src < Ticks * e.target
  <2>1. PICK r \in g.recs : x.id = r.id /\ x.src = r.src
    BY <1>1
  <2> QED
    BY <1>1, <1>3, <2>1 DEF Ahead
<1> QED
  BY <1>2, <1>3 DEF Ahead

\* A queue that gave way has no other records, and is ahead if it was.
LEMMA ShedRecords ==
  ASSUME NEW g, Typed(g), NEW cap \in Int, NEW k, k = Shed(g, cap)
  PROVE  /\ \A x \in k.recs : \E r \in g.recs : x.id = r.id /\ x.src = r.src
         /\ k.recs # {} => g.recs # {}
         /\ k.epoch.valid => g.epoch.valid \/ k.pending # {}
         /\ Ahead(g) => Ahead(k)
<1>1. CASE Spares(g, k)
  BY <1>1 DEF Spares, Ahead
<1>2. ASSUME NEW w, GivesUp(g, w), k = Resync(w)
      PROVE  /\ \A x \in k.recs : \E r \in g.recs : x.id = r.id /\ x.src = r.src
             /\ k.recs # {} => g.recs # {}
             /\ k.epoch.valid => g.epoch.valid \/ k.pending # {}
             /\ Ahead(g) => Ahead(k)
  <2>1. Typed(w) /\ w.pending \subseteq g.pending /\ w.recs = g.recs
    BY <1>2 DEF GivesUp
  <2>2. /\ \A x \in k.recs : \E r \in g.recs : x.id = r.id /\ x.src = r.src
        /\ k.epoch.valid => Real(w.pending) # {} /\ g.recs # {}
        /\ k.recs # {} => k.epoch.valid
    BY <1>2, <2>1, ResyncRecords
  <2>3. k.pending = w.pending
    BY <1>2, <2>1, ResyncIs
  <2>4. k.epoch.valid => k.pending # {}
    BY <2>1, <2>2, <2>3, RealIs
  <2>7. Ahead(g) => Ahead(k)
    <3>1. Ahead(g) => Ahead(w)
      BY <1>2, <2>1 DEF Ahead, GivesUp
    <3> QED
      BY <1>2, <2>1, <3>1, ResyncAhead
  <2> QED
    BY <2>2, <2>4, <2>7
<1> QED
  BY <1>1, <1>2, ShedIs

\* A history that is not valid queues nothing of this scene, and maps nothing.
LEMMA NoneNew ==
  ASSUME NEW f, NEW s, NEW g, Whole(g, f, s), ~g.valid
  PROVE  /\ g.epoch.valid = FALSE /\ g.recs = {} /\ g.base = None /\ g.cur = None
         /\ ~back => \A e \in g.pending : ~New(e, since)
<1>1. Typed(g) /\ Linked(g, f, s) /\ (~back => InOrder(g))
  BY DEF Whole, Settled
<1>2. g.cur = None /\ g.base = None
  BY <1>1 DEF Linked
<1>3. g.epoch.valid = FALSE /\ g.recs = {}
  BY <1>1, <1>2, EntryTypes DEF Linked
<1>4. ~back => \A e \in g.pending : ~New(e, since)
  BY <1>1, <1>3 DEF InOrder, Mapped
<1> QED
  BY <1>2, <1>3, <1>4

\* What holds until a report moves the mapping back still does after the queue gave way.
LEMMA ShedInOrder ==
  ASSUME Types, NEW f \in Nat, NEW s \in Nat, NEW g, Whole(g, f, s), NEW cap \in Int,
         ~back, NEW k, k = Shed(g, cap)
  PROVE  InOrder(k)
<1>1. Typed(g) /\ Linked(g, f, s) /\ Queue(g, since, f) /\ InOrder(g)
      /\ (g.valid => Upto(g, g.cur, g.src) /\ since <= g.cur)
  BY DEF Whole, Settled
<1>2. /\ Typed(k) /\ Same(g, k) /\ k.pending \subseteq g.pending /\ Linked(k, f, s)
      /\ \A n, sh : Behind(g, n, sh) => Behind(k, n, sh)
      /\ \A n, c, fl : Reported(g, n, c, fl) => Reported(k, n, c, fl)
  BY <1>1, ShedQueue
<1>3. k.cur = g.cur /\ k.src = g.src /\ k.valid = g.valid /\ k.base = g.base
  BY <1>2 DEF Same
<1>4. Behind(k, since, shown) /\ Reported(k, since, k.cur, flight)
  BY <1>1, <1>2, <1>3 DEF InOrder
<1>5. CASE g.valid
  <2>1. g.cur \in Int /\ g.src \in Int /\ since \in Int
    BY <1>1, EntryTypes DEF Types
  <2>2. Order(k, since, g.cur) /\ Mapped(k, since, g.src)
    BY <1>1, <1>5, <2>1, ShedOrder DEF InOrder
  <2>3. ASSUME since = 0 PROVE Arrives(k, g.cur, shown)
    BY <1>1, <1>5, <2>1, <2>3, ShedArrives DEF InOrder
  <2> QED
    BY <1>3, <1>4, <2>2, <2>3 DEF InOrder
<1>6. CASE ~g.valid
  <2>1. (\A e \in k.pending : ~New(e, since)) /\ g.base = None
    BY <1>2, <1>6, NoneNew
  <2>2. ~k.epoch.valid
    BY <1>2, <1>3, <2>1 DEF Linked
  <2>3. Order(k, since, k.cur) /\ Mapped(k, since, k.src) /\ Arrives(k, k.cur, shown)
    BY <2>1, <2>2 DEF Order, Mapped, Arrives
  <2> QED
    BY <1>4, <2>3 DEF InOrder
<1> QED
  BY <1>5, <1>6

\* All that holds between two steps does.
LEMMA ShedWhole ==
  ASSUME Types, NEW f \in Nat, NEW s \in Nat, s < Ticks * now, NEW g, Whole(g, f, s),
         NEW cap \in Int, NEW k, k = Shed(g, cap)
  PROVE  Whole(k, f, s) /\ (Punctual /\ Undue(g, s) => Undue(k, s))
<1>1. /\ Typed(g) /\ Linked(g, f, s) /\ Queue(g, since, f) /\ Sent(g, f, s)
      /\ (g.valid => Upto(g, g.cur, g.src) /\ since <= g.cur)
      /\ Display(g, f, shown) /\ Steady(g, shown) /\ (Punctual => OnTime(g, now))
  BY DEF Whole, Settled
<1>2. /\ Typed(k) /\ Same(g, k) /\ k.pending \subseteq g.pending /\ Linked(k, f, s)
      /\ Queue(k, since, f) /\ Sent(k, f, s) /\ Steady(k, shown)
      /\ \A c, t : Upto(g, c, t) => Upto(k, c, t)
  BY <1>1, ShedQueue
<1>3. k.cur = g.cur /\ k.src = g.src /\ k.valid = g.valid /\ k.hold = g.hold
  BY <1>2 DEF Same
<1>4. /\ k.epoch.valid => g.epoch.valid \/ k.pending # {}
      /\ Ahead(g) => Ahead(k)
  BY <1>1, ShedRecords
<1>5. Display(k, f, shown)
  BY <1>1, <1>2, <1>3, <1>4 DEF Display
<1>6. ASSUME Punctual PROVE OnTime(k, now)
  <2>1. Ahead(g)
    <3>1. CASE g.valid
      <4>1. g.src <= s /\ g.src \in Int /\ now \in Int
        BY <1>1, <3>1, EntryTypes DEF Linked, Types
      <4>2. \A r \in g.recs : r.src <= s
        BY <1>1, <3>1, <4>1, EntryTypes DEF Upto
      <4> QED
        BY <1>1, <1>6, <4>1, <4>2, AheadOnTime
    <3>2. CASE ~g.valid
      BY <3>2, NoneNew DEF Ahead
    <3> QED
      BY <3>1, <3>2
  <2> QED
    BY <1>1, <1>2, <1>4, <1>6, <2>1 DEF OnTime, Ahead
<1>7. ~back => InOrder(k)
  BY ShedInOrder
<1>8. k.valid => Upto(k, k.cur, k.src) /\ since <= k.cur
  BY <1>1, <1>2, <1>3
<1>9. ASSUME Punctual, Undue(g, s), k.epoch.valid PROVE Ideal(k, s) > Ticks * (now - 1)
  <2>1. CASE Spares(g, k)
    BY <1>9, <2>1 DEF Spares, Undue, Ideal
  <2>2. ASSUME NEW w, GivesUp(g, w), k = Resync(w) PROVE Ideal(k, s) > Ticks * (now - 1)
    <3>1. Typed(w) /\ w.pending \subseteq g.pending /\ w.recs = g.recs
      BY <2>2 DEF GivesUp
    <3> DEFINE e == Newest(w.pending)
    <3>2. PICK r \in w.recs : /\ Real(w.pending) # {} /\ k.epoch.src = r.src
                              /\ k.epoch.disp = Ticks * e.target
      BY <1>9, <2>2, <3>1, ResyncIs
    <3>3. e \in g.pending
      <4>1. e \in Real(w.pending)
        BY <3>1, <3>2, NewestIs
      <4> QED
        BY <3>1, <4>1, RealIs
    <3> HIDE DEF e
    <3>4. e.target >= now /\ e.target \in Int /\ r.src \in Int /\ r \in g.recs
      BY <1>1, <1>9, <3>1, <3>2, <3>3, EntryTypes DEF OnTime
    <3>5. g.valid
      BY <1>1, <3>4, EntryTypes DEF Linked
    <3>6. r.src <= s
      <4>1. g.src <= s /\ g.src \in Int /\ r.src <= g.src
        BY <1>1, <3>4, <3>5, EntryTypes DEF Linked, Upto
      <4> QED
        BY <3>4, <4>1
    <3>7. Ticks * e.target > Ticks * (now - 1) /\ Ticks * e.target \in Int
          /\ Ticks * (now - 1) \in Int
      <4>1. Ticks \in Nat \ {0} /\ now \in Nat
        BY BidirAssumption DEF Types
      <4>2. Ticks * (e.target - (now - 1)) >= Ticks
        BY <3>4, <4>1
      <4>3. Ticks * (e.target - (now - 1)) = Ticks * e.target - Ticks * (now - 1)
        BY <3>4, <4>1
      <4> QED
        BY <3>4, <4>1, <4>2, <4>3
    <3>8. Ideal(k, s) = Ticks * e.target + s - r.src
      BY <3>2 DEF Ideal
    <3> QED
      BY <3>4, <3>6, <3>7, <3>8
  <2> QED
    BY <1>1, <2>1, <2>2, ShedIs
<1> QED
  BY <1>2, <1>5, <1>6, <1>7, <1>8, <1>9 DEF Whole, Settled, Undue

\* Histories that differ in nothing the statements are about.
Alike(g, k) ==
  /\ k.pending = g.pending /\ k.epoch = g.epoch /\ k.recs = g.recs /\ k.grid = g.grid
  /\ Same(g, k)

\* What is alike is as whole.
LEMMA AlikeWhole ==
  ASSUME NEW f, NEW s, NEW g, Whole(g, f, s), NEW k, Typed(k), Alike(g, k)
  PROVE  Whole(k, f, s)
<1>1. /\ Same(g, k) /\ k.pending \subseteq g.pending /\ k.epoch = g.epoch /\ k.recs = g.recs
      /\ k.grid = g.grid /\ \A e \in g.pending : e.real => e \in k.pending
  BY DEF Alike
<1>2. k.cur = g.cur /\ k.src = g.src /\ k.valid = g.valid /\ k.hold = g.hold
  BY <1>1 DEF Same
<1>3. /\ \A n, c : Order(g, n, c) => Order(k, n, c)
      /\ \A c, sh : Arrives(g, c, sh) => Arrives(k, c, sh)
  BY <1>1, <1>2, OrderReals
<1>4. /\ Linked(g, f, s) => Linked(k, f, s)
      /\ Queue(g, since, f) => Queue(k, since, f)
      /\ Upto(g, g.cur, g.src) => Upto(k, k.cur, k.src)
      /\ Mapped(g, since, g.src) => Mapped(k, since, k.src)
      /\ Behind(g, since, shown) => Behind(k, since, shown)
      /\ Reported(g, since, g.cur, flight) => Reported(k, since, k.cur, flight)
      /\ Sent(g, f, s) => Sent(k, f, s)
      /\ Display(g, f, shown) => Display(k, f, shown)
      /\ Steady(g, shown) => Steady(k, shown)
      /\ OnTime(g, now) => OnTime(k, now)
  BY <1>1, <1>2, Fewer
<1>5. ~back => InOrder(k)
  BY <1>2, <1>3, <1>4 DEF Whole, Settled, InOrder
<1> QED
  BY <1>2, <1>4, <1>5 DEF Whole, Settled

\* The images of a finished batch are let go.
LEMMA UnpinnedIs ==
  ASSUME NEW g, Typed(g)
  PROVE  Typed(Unpinned(g)) /\ Alike(g, Unpinned(g))
<1>1. g \in Histories /\ IsFiniteSet(g.pending)
  BY DEF Typed
<1>2. [g EXCEPT !.pins = {}] \in Histories
  BY <1>1, Updates
<1>3. Unpinned(g) = g \/ Unpinned(g) = [g EXCEPT !.pins = {}]
  BY DEF Unpinned
<1>4. Alike(g, Unpinned(g))
  BY <1>1, <1>3 DEF Histories, Alike, Same
<1> QED
  BY <1>1, <1>2, <1>3, <1>4 DEF Typed, Alike

-----------------------------------------------------------------------------
(* The ring gives way.                                                     *)

\* A set of naturals has a smallest one.
LEMMA Smallest ==
  ASSUME NEW S \in SUBSET Nat, S # {}
  PROVE  \E c \in S : \A d \in S : c <= d
<1>1. PICK c \in S : \A d \in S : ~(<<d, c>> \in OpToRel(<, Nat))
  BY NatLessThanWellFounded, WFMin
<1>2. \A d \in S : ~(d < c)
  BY <1>1 DEF OpToRel
<1> QED
  BY <1>2

\* The content of a real frame is not that of a generated one.
LEMMA Even ==
  ASSUME NEW x \in Int
  PROVE  ~Made(2 * x)
  BY DEF Made

\* A history that is forgotten keeps its queue and what it holds.
LEMMA ForgetIs ==
  ASSUME NEW g, Typed(g), NEW k, k = Forget(g)
  PROVE  /\ Typed(k) /\ k.pending = g.pending /\ k.hold = g.hold /\ k.failures = g.failures
         /\ k.epoch.valid = FALSE /\ k.recs = {} /\ k.prev = None /\ k.cur = None
         /\ k.base = None /\ k.valid = FALSE /\ k.unread = FALSE /\ k.cut = FALSE
         /\ k.grid = 0 /\ k.src = 0
<1>1. g \in Histories /\ IsFiniteSet(g.pending)
  BY DEF Typed
<1>2. NoEpoch \in Epochs /\ NoEpoch.valid = FALSE
  BY DEF NoEpoch, Epochs
<1>3. k \in Histories
  <2> DEFINE g1 == [g EXCEPT !.epoch = NoEpoch, !.grid = 0, !.origin = 0, !.recs = {}]
             g2 == [g1 EXCEPT !.prev = None, !.cur = None, !.src = 0, !.valid = FALSE]
             g3 == [g2 EXCEPT !.base = None, !.cut = FALSE, !.unread = FALSE]
  <2>1. k = g3
    BY DEF Forget
  <2>2. g1 \in Histories
    <3>1. 0 \in Nat /\ 0 \in Int /\ {} \in SUBSET Records
      OBVIOUS
    <3> QED
      BY <1>1, <1>2, <3>1, Updates, Zenon
  <2> HIDE DEF g1
  <2>3. g2 \in Histories
    <3>1. 0 \in Int /\ None \in Int /\ FALSE \in BOOLEAN
      BY DEF None
    <3> QED
      BY <2>2, <3>1, Updates, Zenon
  <2> HIDE DEF g2
  <2>4. g3 \in Histories
    <3>1. None \in Int /\ FALSE \in BOOLEAN
      BY DEF None
    <3> QED
      BY <2>3, <3>1, Updates, Zenon
  <2> QED
    BY <2>1, <2>4
<1>4. /\ k.pending = g.pending /\ k.hold = g.hold /\ k.failures = g.failures
      /\ k.epoch = NoEpoch /\ k.recs = {} /\ k.prev = None /\ k.cur = None
      /\ k.base = None /\ k.valid = FALSE /\ k.unread = FALSE /\ k.cut = FALSE
      /\ k.grid = 0 /\ k.src = 0
  BY <1>1 DEF Forget, Histories
<1> QED
  BY <1>1, <1>2, <1>3, <1>4 DEF Typed

\* The flush for want of an image leaves nothing but what is held, and that is not older
\* than what is shown, or of an earlier scene.
LEMMA FlushedWhole ==
  ASSUME Types, NEW f \in Nat, NEW s \in Nat, NEW g, Whole(g, f, s), NEW k, k = RingFlushed(g)
  PROVE  Whole(k, f, s) /\ k.pending = {} /\ k.valid = FALSE
<1> DEFINE keep == IF g.failures > 0 THEN None
                   ELSE IF Real(g.pending) # {} THEN Newest(g.pending).content
                   ELSE IF g.cur # None THEN 2 * g.cur ELSE g.hold
           u == Forget(Unpinned(g))
<1>1. /\ Typed(g) /\ Linked(g, f, s) /\ Queue(g, since, f) /\ Sent(g, f, s)
      /\ Display(g, f, shown) /\ (~back => InOrder(g))
  BY DEF Whole, Settled
<1>2. Typed(Unpinned(g)) /\ Unpinned(g).pending = g.pending
  BY <1>1, UnpinnedIs DEF Alike
<1>3. /\ Typed(u) /\ u.epoch.valid = FALSE /\ u.recs = {} /\ u.cur = None
      /\ u.base = None /\ u.valid = FALSE /\ u.unread = FALSE
  BY <1>2, ForgetIs
<1>4. k = [u EXCEPT !.pending = {}, !.hold = keep, !.failures = 1]
  BY DEF RingFlushed
<1>5. /\ keep \in Int /\ keep <= 2 * f /\ (Made(keep) => keep = shown)
      /\ ~back => keep >= shown \/ keep <= 2 * since
  <2>1. /\ g.hold \in Int /\ g.hold <= 2 * f /\ (Made(g.hold) => g.hold = shown)
        /\ ~back => g.hold >= shown \/ g.hold <= 2 * since
    BY <1>1, EntryTypes DEF Display, InOrder, Behind
  <2>2. /\ None \in Int /\ None <= 2 * f /\ ~Made(None)
        /\ None >= shown \/ None <= 2 * since
    BY DEF None, Made, Types
  <2>3. ASSUME Real(g.pending) # {}
        PROVE  /\ Newest(g.pending).content \in Int /\ Newest(g.pending).content <= 2 * f
               /\ ~Made(Newest(g.pending).content)
               /\ ~back => \/ Newest(g.pending).content >= shown
                           \/ Newest(g.pending).content <= 2 * since
    <3> DEFINE e == Newest(g.pending)
    <3>1. e \in Real(g.pending)
      BY <1>1, <2>3, NewestIs
    <3>2. e \in g.pending /\ e.real /\ e.id \in Int /\ e.content \in Int
      BY <1>1, <3>1, RealIs, EntryTypes
    <3> HIDE DEF e
    <3>3. e.content <= 2 * e.id /\ e.id <= f /\ ~Made(e.content)
      BY <1>1, <3>2 DEF Queue
    <3>4. ~back /\ New(e, since) => e.content >= shown
      BY <1>1, <3>2 DEF InOrder, Behind
    <3>5. ~New(e, since) => e.id <= since
      BY <3>2 DEF New, Types
    <3> QED
      BY <3>2, <3>3, <3>4, <3>5 DEF e, Types
  <2>4. ASSUME g.cur # None
        PROVE  2 * g.cur \in Int /\ 2 * g.cur <= 2 * f /\ ~Made(2 * g.cur) /\ 2 * g.cur >= shown
    <3>1. g.valid /\ g.cur \in Int /\ g.cur <= f
      BY <1>1, <2>4, EntryTypes DEF Linked
    <3>2. shown <= 2 * g.cur
      BY <1>1, <3>1 DEF Display
    <3> QED
      BY <3>1, <3>2, Even DEF Types
  <2> QED
    BY <2>1, <2>2, <2>3, <2>4
<1> HIDE DEF keep, u
<1>6. {} \in SUBSET Entries /\ u \in Histories
  BY <1>3 DEF Typed
<1>7. [u EXCEPT !.pending = {}, !.hold = keep, !.failures = 1] \in Histories
  <2>1. 1 \in Int
    OBVIOUS
  <2> QED
    BY <1>5, <1>6, <2>1, Updates
<1>8. /\ k.pending = {} /\ k.hold = keep /\ k.epoch.valid = FALSE /\ k.recs = {} /\ k.cur = None
      /\ k.base = None /\ k.valid = FALSE /\ k.unread = FALSE
  BY <1>3, <1>4, <1>6 DEF Histories
<1>9. Typed(k)
  BY <1>4, <1>7, <1>8, FS_EmptySet DEF Typed
<1>10. Linked(k, f, s) /\ Queue(k, since, f) /\ Sent(k, f, s)
  BY <1>1, <1>8 DEF Linked, Queue, Sent
<1>11. Display(k, f, shown) /\ Steady(k, shown) /\ OnTime(k, now)
  BY <1>1, <1>5, <1>8 DEF Display, Steady, OnTime
<1>12. ~back => InOrder(k)
  BY <1>5, <1>8 DEF InOrder, Order, Mapped, Behind, Reported, Arrives
<1> QED
  BY <1>8, <1>9, <1>10, <1>11, <1>12 DEF Whole, Settled

\* Entries have given way: what was recorded is the same, and a new mapping does not show
\* source time `s' before now.
Gives(g, k, s) ==
  /\ k.pending \subseteq g.pending /\ Same(g, k)
  /\ Punctual /\ Undue(g, s) => Undue(k, s)

\* Some have, or all.
Less(g, k, s) == Gives(g, k, s) \/ (k.pending = {} /\ k.valid = FALSE)

\* The queue after each entry that gave way.
Shrinks(F, g, N) ==
  F = [n \in 0..N |-> IF n = 0 THEN g ELSE Shed(F[n - 1], N - n)]

\* There is such a run.
LEMMA ShrinkRuns ==
  ASSUME NEW g, NEW N \in Nat
  PROVE  \E F : Shrinks(F, g, N)
<1> DEFINE Runs(F, m) == F = [n \in 0..m |-> IF n = 0 THEN g ELSE Shed(F[n - 1], N - n)]
           bad == {m \in Nat : ~\E F : Runs(F, m)}
<1>1. ASSUME bad # {} PROVE FALSE
  <2>1. bad \in SUBSET Nat
    OBVIOUS
  <2> HIDE DEF bad
  <2>2. PICK c \in bad : \A d \in bad : c <= d
    BY <1>1, <2>1, Smallest
  <2>3. c \in Nat /\ ~\E F : Runs(F, c)
    BY <2>2 DEF bad
  <2>4. CASE c = 0
    <3>1. [n \in 0..0 |-> g] = [n \in 0..0 |-> IF n = 0 THEN g
                                              ELSE Shed([m \in 0..0 |-> g][n - 1], N - n)]
      OBVIOUS
    <3>2. Runs([n \in 0..0 |-> g], 0)
      BY <3>1
    <3> QED
      BY <2>3, <2>4, <3>2
  <2>5. CASE c # 0
    <3>1. c - 1 \in Nat /\ c - 1 \notin bad
      BY <2>2, <2>3, <2>5
    <3>2. PICK F : Runs(F, c - 1)
      BY <3>1 DEF bad
    <3> DEFINE G == [n \in 0..c |-> IF n = c THEN Shed(F[c - 1], N - c) ELSE F[n]]
    <3>3. \A n \in 0..(c - 1) : F[n] = IF n = 0 THEN g ELSE Shed(F[n - 1], N - n)
      BY <3>2
    <3>4. \A n \in 0..c : G[n] = IF n = 0 THEN g ELSE Shed(G[n - 1], N - n)
      <4> TAKE n \in 0..c
      <4>1. CASE n = c
        <5>1. G[n] = Shed(F[c - 1], N - c)
          BY <4>1
        <5>2. G[c - 1] = F[c - 1]
          BY <2>3, <2>5
        <5> QED
          BY <2>5, <4>1, <5>1, <5>2
      <4>2. CASE n # c
        <5>1. n \in 0..(c - 1) /\ G[n] = F[n]
          BY <2>3, <4>2
        <5>2. n # 0 => n - 1 \in 0..c /\ n - 1 # c
          BY <2>3
        <5>3. n # 0 => G[n - 1] = F[n - 1]
          BY <5>2
        <5> HIDE DEF G
        <5> QED
          BY <3>3, <5>1, <5>3
      <4> QED
        BY <4>1, <4>2
    <3>5. G = [n \in 0..c |-> IF n = 0 THEN g ELSE Shed(G[n - 1], N - n)]
      <4>1. G = [n \in 0..c |-> G[n]]
        OBVIOUS
      <4> HIDE DEF G
      <4> QED
        BY <3>4, <4>1
    <3> QED
      BY <2>3, <3>5
  <2> QED
    BY <2>4, <2>5
<1>2. \E F : Runs(F, N)
  BY <1>1
<1> QED
  BY <1>2 DEF Shrinks

\* However many entries gave way, or if the ring was flushed, the history is whole.
LEMMA ShrunkWhole ==
  ASSUME Types, NEW f \in Nat, NEW s \in Nat, s < Ticks * now, NEW g, Whole(g, f, s),
         NEW k, k = Shrunk(g)
  PROVE  /\ Whole(k, f, s) /\ Less(g, k, s)
         /\ HasFree(k) \/ (k.pending = {} /\ k.valid = FALSE)
<1> DEFINE N == Cardinality(g.pending)
           F == CHOOSE x : Shrinks(x, g, N)
           enough == {n \in 0..(N - 1) : HasFree(F[n])}
           last == Greater(N - 1, 0)
<1>1. N \in Nat
  BY EntryTypes, FS_CardinalityType DEF Whole, Settled
<1> HIDE DEF N
<1>2. Shrinks(F, g, N)
  BY <1>1, ShrinkRuns
<1>3. k = IF enough = {} THEN RingFlushed(F[last])
          ELSE F[CHOOSE n \in enough : \A m \in enough : n <= m]
  BY DEF Shrunk, Shrinks, N
<1> HIDE DEF F
<1>4. \A n \in 0..N : F[n] = IF n = 0 THEN g ELSE Shed(F[n - 1], N - n)
  BY <1>2 DEF Shrinks
<1>5. \A n \in 0..N : Whole(F[n], f, s) /\ Gives(g, F[n], s)
  <2> DEFINE Good(n) == Whole(F[n], f, s) /\ Gives(g, F[n], s)
             bad == {n \in Nat : n <= N /\ ~Good(n)}
  <2>1. ASSUME bad # {} PROVE FALSE
    <3>1. bad \in SUBSET Nat
      OBVIOUS
    <3>2. PICK c \in bad : \A d \in bad : c <= d
      BY <2>1, <3>1, Smallest
    <3>3. c \in Nat /\ c <= N /\ ~Good(c)
      BY <3>2
    <3>4. CASE c = 0
      <4>1. F[0] = g
        BY <1>1, <1>4
      <4>2. Good(0)
        BY <4>1 DEF Same, Gives
      <4> QED
        BY <3>3, <3>4, <4>2
    <3>5. CASE c # 0
      <4>1. c - 1 \in Nat /\ c - 1 <= N /\ ~(c <= c - 1) /\ c \in 0..N
        BY <1>1, <3>3, <3>5
      <4>2. Good(c - 1)
        BY <3>2, <4>1
      <4>3. F[c] = Shed(F[c - 1], N - c) /\ N - c \in Int
        BY <1>1, <1>4, <3>5, <4>1
      <4> DEFINE p == F[c - 1]
      <4>4. /\ Whole(p, f, s) /\ p.pending \subseteq g.pending /\ Same(g, p) /\ Typed(p)
            /\ Punctual /\ Undue(g, s) => Undue(p, s)
        BY <4>2 DEF Whole, Settled, Gives
      <4> HIDE DEF p
      <4>5. F[c] = Shed(p, N - c)
        BY <4>3 DEF p
      <4>6. Whole(F[c], f, s) /\ (Punctual /\ Undue(p, s) => Undue(F[c], s))
        BY <4>3, <4>4, <4>5, ShedWhole
      <4>7. F[c].pending \subseteq p.pending /\ Same(p, F[c])
        BY <4>3, <4>4, <4>5, ShedQueue
      <4>8. Good(c)
        BY <4>4, <4>6, <4>7 DEF Same, Gives
      <4> QED
        BY <3>3, <4>8
    <3> QED
      BY <3>4, <3>5
  <2>2. \A n \in 0..N : n \in Nat /\ n <= N
    BY <1>1
  <2> QED
    BY <2>1, <2>2
<1>6. CASE enough = {}
  <2>1. last \in 0..N
    BY <1>1 DEF Greater
  <2>2. Whole(F[last], f, s)
    BY <1>5, <2>1
  <2>3. k = RingFlushed(F[last])
    BY <1>3, <1>6
  <2> HIDE DEF last
  <2> DEFINE p == F[last]
  <2>a. Whole(p, f, s) /\ k = RingFlushed(p)
    BY <2>2, <2>3
  <2> HIDE DEF p
  <2>4. Whole(k, f, s) /\ k.pending = {} /\ k.valid = FALSE
    BY <2>a, FlushedWhole
  <2> QED
    BY <2>4 DEF Less
<1>7. CASE enough # {}
  <2> DEFINE c == CHOOSE n \in enough : \A m \in enough : n <= m
  <2>1. enough \in SUBSET Nat
    OBVIOUS
  <2>2. \E n \in enough : \A m \in enough : n <= m
    <3> HIDE DEF enough
    <3> QED
      BY <1>7, <2>1, Smallest
  <2>3. c \in enough
    BY <2>2
  <2>4. k = F[c]
    BY <1>3, <1>7
  <2> HIDE DEF c
  <2>5. c \in 0..N /\ HasFree(F[c])
    BY <1>1, <2>3
  <2> QED
    BY <1>5, <2>4, <2>5 DEF Less
<1> QED
  BY <1>6, <1>7

\* Before a composite: there is an image to draw into, or nothing is left.
LEMMA AcquiredWhole ==
  ASSUME Types, NEW f \in Nat, NEW s \in Nat, s < Ticks * now, NEW g, Whole(g, f, s),
         NEW k, k = Acquired(g)
  PROVE  /\ Whole(k, f, s) /\ Less(g, k, s)
         /\ HasFree(k) \/ (k.pending = {} /\ k.valid = FALSE)
<1> DEFINE u == Unpinned(g)
           w == Shed(u, HardCap)
<1>1. Typed(u) /\ Alike(g, u)
  BY UnpinnedIs DEF Whole, Settled
<1>2. Whole(u, f, s)
  BY <1>1, AlikeWhole
<1>3. HardCap \in Int
  BY BidirAssumption DEF HardCap, Lesser, Greater
<1>4. k = IF HasFree(w) THEN w ELSE Shrunk(w)
  BY DEF Acquired
<1> HIDE DEF u
<1>5. /\ Whole(w, f, s) /\ Same(u, w) /\ w.pending \subseteq u.pending
      /\ Punctual /\ Undue(u, s) => Undue(w, s)
  BY <1>1, <1>2, <1>3, ShedWhole, ShedQueue
<1>6. /\ w.pending \subseteq g.pending /\ Same(g, w)
      /\ Punctual /\ Undue(g, s) => Undue(w, s)
  <2>1. Undue(g, s) => Undue(u, s)
    BY <1>1 DEF Alike, Undue, Ideal
  <2> QED
    BY <1>1, <1>5, <2>1 DEF Alike, Same
<1> HIDE DEF w
<1>7. CASE HasFree(w)
  BY <1>4, <1>5, <1>6, <1>7 DEF Less, Gives
<1>8. CASE ~HasFree(w)
  <2>1. k = Shrunk(w)
    BY <1>4, <1>8
  <2>2. /\ Whole(k, f, s) /\ Less(w, k, s)
        /\ HasFree(k) \/ (k.pending = {} /\ k.valid = FALSE)
    BY <1>5, <2>1, ShrunkWhole
  <2>3. Less(g, k, s)
    BY <1>6, <2>2 DEF Less, Gives, Same
  <2> QED
    BY <2>2, <2>3
<1> QED
  BY <1>7, <1>8

-----------------------------------------------------------------------------
(* Planning a pair: the batch and the endpoints.                           *)

\* What a plan leaves alone but for the statistics of its batch.
Kin(g, k) ==
  /\ k.hold = g.hold /\ k.prev = g.prev /\ k.cur = g.cur /\ k.src = g.src
  /\ k.valid = g.valid /\ k.base = g.base /\ k.origin = g.origin

\* A real entry takes the place of what has its target, and its frame is recorded.
LEMMA QueuedIs ==
  ASSUME NEW g, Typed(g), NEW f \in Int, NEW src \in Int, NEW content \in Int, NEW t \in Int,
         \A o \in g.pending : o.target = t => o.id <= f,
         NEW k, k = Queued(g, f, src, content, t)
  PROVE  /\ Typed(k) /\ Kin(g, k) /\ k.epoch = g.epoch /\ k.grid = g.grid
         /\ k.pending = {o \in g.pending : o.target # t} \cup {RealEntry(f, content, t)}
         /\ k.recs = {r \in g.recs : r.id # f} \cup {[id |-> f, src |-> src, n |-> g.epoch.n]}
<1> DEFINE e == RealEntry(f, content, t)
           q == {o \in g.pending : o.target # t} \cup {e}
           r == {x \in g.recs : x.id # f} \cup {[id |-> f, src |-> src, n |-> g.epoch.n]}
<1>1. g \in Histories /\ IsFiniteSet(g.pending) /\ g.pending \subseteq Entries
      /\ g.recs \subseteq Records
  BY DEF Typed, Histories
<1>2. e \in Entries /\ e.real = TRUE /\ e.id = f /\ e.target = t
  BY DEF RealEntry, Entries
<1>3. Enters(g.pending, e)
  <2> HIDE DEF e
  <2>1. \A o \in g.pending : o.id \in Int
    BY EntryTypes
  <2>2. \A o \in g.pending : o.target = e.target => e.id >= o.id
    BY <1>2, <2>1
  <2> QED
    BY <1>2, <2>2 DEF Enters, Yields
<1>4. Insert(g.pending, e) = q
  BY <1>2, <1>3 DEF Insert
<1>5. k = [g EXCEPT !.pending = q, !.recs = r]
  BY <1>3, <1>4 DEF Queued
<1>6. q \in SUBSET Entries /\ IsFiniteSet(q)
  <2> DEFINE p == {o \in g.pending : o.target # t}
  <2>1. p \in SUBSET g.pending
    OBVIOUS
  <2>2. IsFiniteSet(p)
    BY <1>1, <2>1, FS_Subset
  <2> HIDE DEF p, e
  <2>3. IsFiniteSet(p \cup {e}) /\ p \cup {e} \in SUBSET Entries
    BY <1>1, <1>2, <2>1, <2>2, FS_AddElement
  <2> QED
    BY <2>3 DEF p
<1>7. r \in SUBSET Records
  <2>1. [id |-> f, src |-> src, n |-> g.epoch.n] \in Records
    BY EntryTypes DEF Records
  <2> QED
    BY <1>1, <2>1
<1> HIDE DEF q, r
<1>8. [g EXCEPT !.pending = q, !.recs = r] \in Histories
  BY <1>1, <1>6, <1>7, Updates
<1>9. k.pending = q /\ k.recs = r /\ k.epoch = g.epoch /\ k.grid = g.grid /\ Kin(g, k)
  BY <1>1, <1>5 DEF Histories, Kin
<1>10. Typed(k)
  BY <1>5, <1>6, <1>8, <1>9 DEF Typed
<1> QED
  BY <1>9, <1>10 DEF q, r

\* The batch that a plan asks for, and the history with it in the queue.
Batch(g, f, made) == {MadeEntry(f, t, g.batch + 1) : t \in made}
Filled(g, f, made) ==
  IF made = {} THEN g
  ELSE [g EXCEPT !.batch = @ + 1, !.unread = TRUE, !.pins = {g.prev, g.cur},
                 !.pending = @ \cup {MadeEntry(f, t, g.batch + 1) : t \in made}]

\* The batch changes the queue and the pins alone.
LEMMA FilledIs ==
  ASSUME NEW g, Typed(g), NEW f \in Int, NEW made \in SUBSET Int, IsFiniteSet(made),
         NEW k, k = Filled(g, f, made)
  PROVE  /\ Typed(k) /\ Kin(g, k) /\ k.epoch = g.epoch /\ k.grid = g.grid /\ k.recs = g.recs
         /\ k.pending = g.pending \cup Batch(g, f, made)
<1> DEFINE more == Batch(g, f, made)
           q == g.pending \cup more
           p == {g.prev, g.cur}
           x == g.batch + 1
<1>1. g \in Histories /\ IsFiniteSet(g.pending) /\ g.pending \subseteq Entries
  BY DEF Typed, Histories
<1>2. x \in Int /\ p \in SUBSET Int
  BY EntryTypes
<1>3. more \in SUBSET Entries
  <2>1. \A y \in Int, t \in Int : MadeEntry(f, t, y) \in Entries
    BY DEF MadeEntry, Entries
  <2>2. \A t \in made : MadeEntry(f, t, x) \in Entries
    <3> HIDE DEF x
    <3> QED
      BY <1>2, <2>1
  <2> QED
    BY <2>2 DEF Batch
<1>4. IsFiniteSet(more)
  <2> DEFINE m == [t \in made |-> MadeEntry(f, t, x)]
  <2>1. more = {m[t] : t \in made}
    BY DEF Batch
  <2>2. m \in Surjection(made, more)
    BY <2>1 DEF Surjection
  <2> HIDE DEF more, m
  <2> QED
    BY <2>2, FS_Surjection
<1>5. q \in SUBSET Entries /\ IsFiniteSet(q)
  <2> HIDE DEF more
  <2> QED
    BY <1>1, <1>3, <1>4, FS_Union
<1>6. CASE made = {}
  <2>1. k = g /\ more = {}
    BY <1>6 DEF Filled, Batch
  <2> QED
    BY <2>1 DEF Kin
<1>7. CASE made # {}
  <2>1. k = [g EXCEPT !.batch = x, !.unread = TRUE, !.pins = p, !.pending = q]
    BY <1>7 DEF Filled, Batch
  <2> HIDE DEF q, p, x, more
  <2>2. [g EXCEPT !.batch = x, !.unread = TRUE, !.pins = p, !.pending = q] \in Histories
    BY <1>1, <1>2, <1>5, Updates
  <2>3. k.pending = q /\ k.recs = g.recs /\ k.epoch = g.epoch /\ k.grid = g.grid /\ Kin(g, k)
    BY <1>1, <2>1 DEF Histories, Kin
  <2> QED
    BY <1>5, <2>1, <2>2, <2>3 DEF Typed, q, more
<1> QED
  BY <1>6, <1>7

-----------------------------------------------------------------------------
(* Planning a pair: the mapping.                                           *)

\* The mapping that a plan uses: the one there is, or one that begins now.
Begun(g0) ==
  LET gridded == IF g0.grid # 0 THEN g0
                 ELSE [g0 EXCEPT !.epoch = NoEpoch, !.recs = {}, !.grid = 1]
  IN  IF gridded.epoch.valid THEN gridded
      ELSE [gridded EXCEPT !.origin = now, !.epoch = Establish(g0.src, Ticks * now, gridded.grid)]

\* What a plan leaves of the frames recorded and held.
Kept(g, k) ==
  /\ k.hold = g.hold /\ k.prev = g.prev /\ k.cur = g.cur /\ k.src = g.src
  /\ k.valid = g.valid /\ k.base = g.base

\* A history that is given a mapping, if it had none.
AsBegun(g, k) ==
  /\ Typed(k) /\ Kept(g, k) /\ k.pending = g.pending /\ k.recs \subseteq g.recs
  /\ k.epoch.valid = TRUE /\ k.grid # 0
  /\ g.epoch.valid => k = g
  /\ ~g.epoch.valid => /\ k.origin = now /\ k.epoch.src = g.src
                       /\ k.epoch.disp = Ticks * now

\* A planned history has one.
LEMMA BegunIs ==
  ASSUME now \in Nat, NEW g, Typed(g), g.epoch.valid => g.grid # 0, NEW k, k = Begun(g)
  PROVE  AsBegun(g, k)
<1> DEFINE w == IF g.grid # 0 THEN g ELSE [g EXCEPT !.epoch = NoEpoch, !.recs = {}, !.grid = 1]
           ep == Establish(g.src, Ticks * now, w.grid)
<1>1. g \in Histories /\ IsFiniteSet(g.pending)
  BY DEF Typed
<1>2. NoEpoch \in Epochs /\ NoEpoch.valid = FALSE
  BY DEF NoEpoch, Epochs
<1>3. /\ w \in Histories /\ w.pending = g.pending /\ w.recs \subseteq g.recs /\ Kept(g, w)
      /\ w.grid # 0 /\ (w.epoch.valid => g.epoch.valid /\ w = g) /\ (g.epoch.valid => w = g)
  <2>1. CASE g.grid # 0
    BY <1>1, <2>1 DEF Kept
  <2>2. CASE g.grid = 0
    <3> DEFINE v == [g EXCEPT !.epoch = NoEpoch, !.recs = {}, !.grid = 1]
    <3>1. w = v
      BY <2>2
    <3>2. v \in Histories
      <4>1. {} \in SUBSET Records /\ 1 \in Nat
        OBVIOUS
      <4> QED
        BY <1>1, <1>2, <4>1, Updates
    <3>3. v.epoch = NoEpoch /\ v.recs = {} /\ v.grid = 1 /\ v.pending = g.pending /\ Kept(g, v)
      BY <1>1 DEF Histories, Kept
    <3> HIDE DEF v
    <3> QED
      BY <1>2, <2>2, <3>1, <3>2, <3>3
  <2> QED
    BY <2>1, <2>2
<1>4. k = IF w.epoch.valid THEN w ELSE [w EXCEPT !.origin = now, !.epoch = ep]
  BY DEF Begun
<1> HIDE DEF w
<1>5. CASE w.epoch.valid
  <2>1. k = g /\ g.epoch.valid /\ w = g
    BY <1>3, <1>4, <1>5
  <2> QED
    BY <1>3, <2>1, EntryTypes DEF AsBegun
<1>6. CASE ~w.epoch.valid
  <2>1. k = [w EXCEPT !.origin = now, !.epoch = ep]
    BY <1>4, <1>6
  <2>2. Typed(w)
    BY <1>1, <1>3 DEF Typed
  <2>3. /\ ep \in Epochs /\ ep.valid = TRUE /\ ep.src = g.src /\ ep.disp = Ticks * now
    <3>1. g.src \in Int /\ Ticks * now \in Int /\ w.grid \in Int
      BY <2>2, EntryTypes, BidirAssumption
    <3> QED
      BY <3>1 DEF Establish, Epochs
  <2> HIDE DEF ep
  <2>4. [w EXCEPT !.origin = now, !.epoch = ep] \in Histories
    <3>1. now \in Int
      OBVIOUS
    <3> QED
      BY <1>3, <2>3, <3>1, Updates
  <2>5. k.origin = now /\ k.epoch = ep /\ k.pending = w.pending /\ k.recs = w.recs
        /\ k.grid = w.grid /\ Kept(w, k)
    BY <1>3, <2>1 DEF Histories, Kept
  <2>6. Typed(k)
    BY <1>1, <1>3, <2>1, <2>4, <2>5 DEF Typed
  <2>7. Kept(g, k)
    BY <1>3, <2>5 DEF Kept
  <2>8. ~g.epoch.valid
    BY <1>3, <1>6
  <2> QED
    BY <1>3, <2>3, <2>5, <2>6, <2>7, <2>8 DEF AsBegun
<1> QED
  BY <1>5, <1>6

\* The targets of a pair are in order, and if the mapping begins with it, not before now.
LEMMA BegunTargets ==
  ASSUME now \in Nat, NEW g0, Typed(g0), g0.epoch.valid => g0.grid # 0, NEW s \in Int, g0.src <= s,
         NEW g, g = Begun(g0)
  PROVE  /\ Target(g, g0.src) \in Int /\ Target(g, s) \in Int
         /\ Target(g, g0.src) <= Target(g, s)
         /\ ~g0.epoch.valid => now <= Target(g, g0.src)
<1>1. /\ Typed(g) /\ g0.src \in Int
      /\ ~g0.epoch.valid => g.origin = now
  <2>1. AsBegun(g0, g)
    BY BegunIs, Zenon
  <2> QED
    BY <2>1, EntryTypes DEF AsBegun
<1>2. g.epoch.disp \in Int /\ g.epoch.src \in Int /\ g.origin \in Int
  BY <1>1, EntryTypes
<1>3. Target(g, g0.src) \in Int /\ Target(g, s) \in Int /\ Target(g, g0.src) >= g.origin
  BY <1>1, TargetIs
<1>4. Target(g, g0.src) <= Target(g, s)
  <2>1. g.epoch.disp + g0.src - g.epoch.src <= g.epoch.disp + s - g.epoch.src
        /\ g.origin <= g.origin
    BY <1>1, <1>2
  <2> QED
    BY <1>1, <2>1, TargetGrows
<1> QED
  BY <1>1, <1>2, <1>3, <1>4

\* A frame has no target before its own time, or before the time at which the mapping
\* shows it.
LEMMA Fresh ==
  ASSUME NEW g, Typed(g), g.epoch.disp > g.epoch.src, NEW s \in Int
  PROVE  /\ s < Ticks * Target(g, s)
         /\ \A t \in Int : Ideal(g, s) > Ticks * (t - 1) => t <= Target(g, s)
<1> DEFINE u == Target(g, s)
<1>0. Ticks \in Nat \ {0}
  BY BidirAssumption
<1>1. /\ u \in Int /\ Ticks * u \in Int /\ Ticks * u >= g.epoch.disp + s - g.epoch.src
      /\ g.epoch.disp \in Int /\ g.epoch.src \in Int
  BY TargetIs, EntryTypes
<1> HIDE DEF u
<1>2. s < Ticks * u
  BY <1>1
<1>3. ASSUME NEW t \in Int, Ideal(g, s) > Ticks * (t - 1) PROVE t <= u
  <2>1. Ticks * (t - 1) = Ticks * t - Ticks /\ Ticks * t \in Int
    BY <1>0
  <2>2. Ticks * t < Ticks * u + Ticks
    BY <1>0, <1>1, <1>3, <2>1 DEF Ideal
  <2> QED
    BY <1>0, <1>1, <2>2, Factors
<1> QED
  BY <1>2, <1>3 DEF u

-----------------------------------------------------------------------------
(* Planning a pair: the steps of a plan.                                   *)

\* The queue after it made room for a plan of so many entries, the pair and its batch
\* added to it, and the queue cut to the plan.
Spared(g, cap, plan) == Shed([g EXCEPT !.target = plan], cap)

Joined(shed, f, s, src, c, made, a, b, first) ==
  LET filled == Filled(shed, f, made)
      paired == IF first THEN Queued(filled, f - 1, src, 2 * c, a) ELSE filled
  IN  Queued(paired, f, s, 2 * shed.cur, b)

Finished(e, plan, lost) ==
  IF lost /\ Real(e.pending) \ Real(Shed(e, plan).pending) = {}
  THEN Resync(Shed(e, plan)) ELSE Shed(e, plan)

\* A plan for frame `f' in these steps: the targets of the pair, what is filled between
\* them, and what each step leaves.
Pairing(g0, c, f, s, g, a, b, first, cap, plan, made, shed, k) ==
  /\ g = Begun(g0) /\ a = Target(g, g0.src) /\ b = Target(g, s)
  /\ first <=> (~g0.epoch.valid /\ a # b)
  /\ made \subseteq Between(a, b)
  /\ \A t \in made : t > now /\ \A e \in g.pending : e.target # t
  /\ shed = Spared(g, cap, plan)
  /\ k = Joined(shed, f, s, g0.src, c, made, a, b, first)

\* How deep a plan may be, and what it may leave, are whole numbers.
LEMMA PlanTypes ==
  ASSUME NEW g, Typed(g), NEW s \in Int, NEW r \in Int, NEW incoming \in Int
  PROVE  /\ Lesser(HardCap, CeilDiv(s - r, Ticks) + 1) \in Int
         /\ \A over \in Int : Cardinality(g.pending) - Lesser(over, Cardinality(g.pending)) \in Int
<1>1. Ticks \in Nat \ {0} /\ HardCap \in Int
  BY BidirAssumption DEF HardCap, Lesser, Greater
<1>2. CeilDiv(s - r, Ticks) \in Int
  <2>1. s - r \in Int
    OBVIOUS
  <2> QED
    BY <1>1, <2>1, Ceiling
<1>3. Cardinality(g.pending) \in Int
  BY EntryTypes, FS_CardinalityType
<1> QED
  BY <1>1, <1>2, <1>3 DEF Lesser

\* A plan goes through these steps.
InSteps(g0, f, s, p) ==
  \E g, a, b, cap, plan, made, shed, k : \E first \in BOOLEAN :
    /\ cap \in Int /\ plan \in Int
    /\ Pairing(g0, g0.prev, f, s, g, a, b, first, cap, plan, made, shed, k)
    /\ p = Finished(k, plan, Real(g.pending) \ Real(shed.pending) # {})

\* So the plan of a frame is made of these parts.
LEMMA PlannedShape ==
  ASSUME now \in Nat, NEW g0, Typed(g0), g0.epoch.valid => g0.grid # 0,
         NEW f \in Int, NEW s \in Int, NEW most, g0.cur = f,
         NEW p, p = Planned(g0, f, s, most)
  PROVE  InSteps(g0, f, s, p)
<1> DEFINE gridded == IF g0.grid # 0 THEN g0
                      ELSE [g0 EXCEPT !.epoch = NoEpoch, !.recs = {}, !.grid = 1]
           est == ~gridded.epoch.valid
           g == IF ~est THEN gridded
                ELSE [gridded EXCEPT !.origin = now,
                        !.epoch = Establish(g0.src, Ticks * now, gridded.grid)]
           a == Target(g, g0.src)
           b == Target(g, s)
           incoming == IF est /\ a # b THEN 2 ELSE 1
           plan == Lesser(HardCap, CeilDiv(s - g0.src, Ticks) + 1)
           depth == Cardinality(g.pending)
           room == Greater(plan - depth - incoming, 0)
           wanted == IF g.batch > gpu THEN {}
                     ELSE First({t \in Between(a, b) :
                                   t > now /\ \A e \in g.pending : e.target # t}, room)
           made == First(wanted, most)
           over == Greater(depth + incoming - plan, 0)
           shed == Shed([g EXCEPT !.target = plan], depth - Lesser(over, depth))
           filled == IF made = {} THEN shed
                     ELSE [shed EXCEPT !.batch = @ + 1, !.unread = TRUE,
                             !.pins = {shed.prev, shed.cur},
                             !.pending = @ \cup {MadeEntry(f, t, shed.batch + 1) : t \in made}]
           paired == IF est /\ a # b
                     THEN Queued(filled, f - 1, g0.src, 2 * g0.prev, a) ELSE filled
           ended == Queued(paired, f, s, 2 * g0.cur, b)
           final == Shed(ended, plan)
           lost == Real(g.pending) \ Real(shed.pending) # {}
           lostLast == Real(ended.pending) \ Real(final.pending) # {}
           first == est /\ a # b
           cap == depth - Lesser(over, depth)
<1>1. p = IF lost /\ ~lostLast THEN Resync(final) ELSE final
  BY DEF Planned
<1>2. g = Begun(g0)
  BY DEF Begun
<1>3. est <=> ~g0.epoch.valid
  <2>1. CASE g0.grid # 0
    BY <2>1
  <2>2. CASE g0.grid = 0
    <3>1. ~g0.epoch.valid
      BY <2>2
    <3>2. gridded.epoch = NoEpoch
      BY <2>2 DEF Typed, Histories
    <3> QED
      BY <3>1, <3>2 DEF NoEpoch
  <2> QED
    BY <2>1, <2>2
<1>4. Typed(g) /\ g.cur = f
  <2> HIDE DEF g
  <2>1. Typed(g) /\ Kept(g0, g)
    <3>1. AsBegun(g0, g)
      BY <1>2, BegunIs, Zenon
    <3> QED
      BY <3>1 DEF AsBegun
  <2> QED
    BY <2>1 DEF Kept
<1> HIDE DEF gridded
<1>5. first \in BOOLEAN /\ (first <=> (~g0.epoch.valid /\ a # b))
  BY <1>3
<1> HIDE DEF est
<1>6. shed = Spared(g, cap, plan)
  BY DEF Spared
<1>7. plan \in Int /\ cap \in Int
  <2> HIDE DEF g, a, b
  <2>1. g0.src \in Int /\ depth \in Int /\ incoming \in Int
    <3>1. IsFiniteSet(g.pending) /\ g0.src \in Int
      BY <1>4, EntryTypes
    <3>2. depth \in Int
      BY <3>1, FS_CardinalityType
    <3>3. incoming \in Int
      OBVIOUS
    <3> QED
      BY <3>1, <3>2, <3>3
  <2>2. plan \in Int
    BY <1>4, <2>1, PlanTypes
  <2> HIDE DEF plan, incoming
  <2>3. over \in Int
    BY <2>1, <2>2 DEF Greater
  <2> HIDE DEF over
  <2> QED
    BY <1>4, <2>1, <2>2, <2>3 DEF Lesser
<1>8. /\ made \subseteq Between(a, b)
      /\ \A t \in made : t > now /\ \A e \in g.pending : e.target # t
  <2> HIDE DEF a, b, g, room
  <2>1. made \subseteq wanted
    BY DEF First
  <2>2. wanted \subseteq {t \in Between(a, b) : t > now /\ \A e \in g.pending : e.target # t}
    BY DEF First
  <2> QED
    BY <2>1, <2>2
<1> HIDE DEF made, cap, plan, a, b, g
<1>9. shed.cur = f /\ shed.cur = g0.cur
  <2> DEFINE w == [g EXCEPT !.target = plan]
  <2>1. Typed(w) /\ w.cur = g.cur
    <3>1. w \in Histories
      BY <1>4, <1>7, Updates DEF Typed
    <3>2. w.pending = g.pending /\ w.cur = g.cur
      BY <1>4 DEF Typed, Histories
    <3> QED
      BY <1>4, <3>1, <3>2 DEF Typed
  <2>2. shed = Shed(w, cap)
    BY <1>6 DEF Spared
  <2> HIDE DEF w, shed
  <2>3. Same(w, shed)
    BY <1>7, <2>1, <2>2, ShedQueue
  <2> QED
    BY <1>4, <2>1, <2>3 DEF Same
<1> HIDE DEF shed
<1>10. ended = Joined(shed, f, s, g0.src, g0.prev, made, a, b, first)
  BY <1>9 DEF Joined, Filled
<1>11. p = Finished(ended, plan, lost)
  <2> HIDE DEF ended, lost
  <2> QED
    BY <1>1 DEF Finished
<1> HIDE DEF ended, first
<1> QED
  BY <1>2, <1>5, <1>6, <1>7, <1>8, <1>10, <1>11 DEF Pairing, InSteps, lost, a, b

\* Making room only lets entries go.
LEMMA SparedIs ==
  ASSUME NEW g, Typed(g), NEW cap \in Int, NEW plan \in Int
  PROVE  \E w : Typed(w) /\ Alike(g, w) /\ Spared(g, cap, plan) = Shed(w, cap)
<1> DEFINE w == [g EXCEPT !.target = plan]
<1>1. g \in Histories /\ IsFiniteSet(g.pending)
  BY DEF Typed
<1>2. w \in Histories
  BY <1>1, Updates
<1>3. Alike(g, w)
  BY <1>1 DEF Histories, Alike, Same
<1>4. Typed(w)
  BY <1>1, <1>2, <1>3 DEF Typed, Alike
<1>5. Spared(g, cap, plan) = Shed(w, cap)
  BY DEF Spared
<1> HIDE DEF w
<1> QED
  BY <1>3, <1>4, <1>5

\* What a pair and its batch leave of a queue `q': the frame's own entry, those made for
\* it, that of its predecessor if the mapping begins with it, and what they did not
\* replace.
Added(k, q, c, f, a, b, first) ==
  /\ RealEntry(f, 2 * f, b) \in k.pending
  /\ \A x, y \in k.pending : x.target = y.target => x = y
  /\ \A x \in k.pending :
       \/ x \in q /\ x.target # b /\ (first => x.target # a)
       \/ /\ ~x.real /\ x.id = f /\ x.content = 2 * f - 1
          /\ a < x.target /\ x.target < b /\ now < x.target
       \/ first /\ x.real /\ x.id = f - 1 /\ x.content = 2 * c /\ x.target = a
       \/ x = RealEntry(f, 2 * f, b)

\* Where a pair can be added: frame `f' comes after `c', the last frame queued.
Joinable(g, c, f, made, a, b, first) ==
  /\ Typed(g) /\ f \in Int /\ c \in Int /\ 0 < c /\ c < f /\ g.cur = f
  /\ a \in Int /\ b \in Int /\ a <= b /\ (first => a # b)
  /\ made \subseteq Between(a, b)
  /\ \A t \in made : t > now /\ \A e \in g.pending : e.target # t
  /\ \A x, y \in g.pending : x.target = y.target => x = y
  /\ \A e \in g.pending : e.id <= c

\* Where it was.
Extends(g, k, c, f, a, b, first) ==
  /\ Typed(g) /\ Typed(k) /\ f \in Int /\ c \in Int /\ 0 < c /\ c < f
  /\ a \in Int /\ b \in Int /\ a <= b /\ (first => a # b)
  /\ \A e \in g.pending : e.id <= c
  /\ Added(k, g.pending, c, f, a, b, first)

\* The records: the frame's, that of its predecessor, and those there were.
Expects(g, k, f, s, src, first) ==
  /\ \E r \in k.recs : r.id = f
  /\ \A r \in k.recs : \/ \E x \in g.recs : x.id = r.id /\ x.src = r.src
                       \/ first /\ r.id = f - 1 /\ r.src = src
                       \/ r.id = f /\ r.src = s

\* The queue with a pair and its batch is what they add up to.
LEMMA JoinedIs ==
  ASSUME NEW g, NEW c, NEW f, NEW made, NEW a, NEW b, NEW first \in BOOLEAN,
         Joinable(g, c, f, made, a, b, first), NEW s \in Int, NEW src \in Int,
         NEW k, k = Joined(g, f, s, src, c, made, a, b, first)
  PROVE  /\ Typed(k) /\ Kin(g, k) /\ k.epoch = g.epoch /\ k.grid = g.grid
         /\ Extends(g, k, c, f, a, b, first) /\ Expects(g, k, f, s, src, first)
<1> DEFINE w == Filled(g, f, made)
           p == IF first THEN Queued(w, f - 1, src, 2 * c, a) ELSE w
           pred == RealEntry(f - 1, 2 * c, a)
           mine == RealEntry(f, 2 * f, b)
           batch == Batch(g, f, made)
<1>1. /\ Typed(g) /\ f \in Int /\ c \in Int /\ 0 < c /\ c < f /\ g.cur = f
      /\ a \in Int /\ b \in Int /\ a <= b /\ (first => a # b)
      /\ \A t \in made : t > now /\ \A e \in g.pending : e.target # t
      /\ \A x, y \in g.pending : x.target = y.target => x = y
      /\ \A e \in g.pending : e.id <= c /\ e.id \in Int /\ e.target \in Int
  BY EntryTypes DEF Joinable
<1>2. made \in SUBSET Int /\ IsFiniteSet(made) /\ \A t \in made : t \in Int /\ a < t /\ t < b
  <2>1. made \in SUBSET Between(a, b) /\ \A t \in Between(a, b) : t \in (a + 1)..(b - 1)
    BY <1>1, BetweenEnds DEF Joinable
  <2>2. IsFiniteSet(Between(a, b))
    BY <1>1, BetweenFinite
  <2> QED
    BY <1>1, <2>1, <2>2, FS_Subset
<1>3. k = Queued(p, f, s, 2 * g.cur, b)
  BY DEF Joined
<1>4. /\ Typed(w) /\ Kin(g, w) /\ w.epoch = g.epoch /\ w.grid = g.grid /\ w.recs = g.recs
      /\ w.pending = g.pending \cup batch
  BY <1>1, <1>2, FilledIs
<1>5. \A x \in batch : /\ ~x.real /\ x.id = f /\ x.content = 2 * f - 1
                       /\ x.target \in made
                       /\ \A y \in batch : x.target = y.target => x = y
  <2>1. \A x \in batch : \E t \in made : x = MadeEntry(f, t, g.batch + 1)
    BY DEF Batch
  <2>2. \A t : /\ MadeEntry(f, t, g.batch + 1).real = FALSE
               /\ MadeEntry(f, t, g.batch + 1).id = f
               /\ MadeEntry(f, t, g.batch + 1).content = 2 * f - 1
               /\ MadeEntry(f, t, g.batch + 1).target = t
    BY DEF MadeEntry
  <2> HIDE DEF batch
  <2> QED
    BY <2>1, <2>2
<1> HIDE DEF w, batch
<1>6. \A x \in batch : /\ x.target \in Int /\ a < x.target /\ x.target < b /\ now < x.target
                       /\ \A e \in g.pending : e.target # x.target
  BY <1>1, <1>2, <1>5
<1>7. pred.real = TRUE /\ pred.id = f - 1 /\ pred.content = 2 * c /\ pred.target = a
  BY DEF RealEntry
<1>8. mine.real = TRUE /\ mine.id = f /\ mine.content = 2 * f /\ mine.target = b
  BY DEF RealEntry
<1>9. /\ Typed(p) /\ Kin(g, p) /\ p.epoch = g.epoch /\ p.grid = g.grid
      /\ p.pending = IF first THEN {o \in w.pending : o.target # a} \cup {pred} ELSE w.pending
      /\ \A r \in p.recs : \/ \E x \in g.recs : x.id = r.id /\ x.src = r.src
                           \/ first /\ r.id = f - 1 /\ r.src = src
  <2>1. CASE first
    <3>1. \A o \in w.pending : o.target = a => o.id <= f - 1
      BY <1>1, <1>4, <1>6
    <3> DEFINE i == f - 1
               x2 == 2 * c
    <3>2. p = Queued(w, i, src, x2, a) /\ i \in Int /\ x2 \in Int
      BY <1>1, <2>1
    <3> HIDE DEF p, pred, i, x2
    <3>3. /\ Typed(p) /\ Kin(w, p) /\ p.epoch = w.epoch /\ p.grid = w.grid
          /\ p.pending = {o \in w.pending : o.target # a} \cup {RealEntry(i, x2, a)}
          /\ p.recs = {r \in w.recs : r.id # i}
                      \cup {[id |-> i, src |-> src, n |-> w.epoch.n]}
      <4>1. \A o \in w.pending : o.target = a => o.id <= i
        BY <3>1 DEF i
      <4> QED
        BY <1>1, <1>4, <3>2, <4>1, QueuedIs
    <3>4. Kin(g, p)
      BY <1>4, <3>3 DEF Kin
    <3>5. \A r \in p.recs : \/ \E x \in g.recs : x.id = r.id /\ x.src = r.src
                            \/ first /\ r.id = f - 1 /\ r.src = src
      BY <1>4, <2>1, <3>3 DEF i
    <3>6. p.pending = {o \in w.pending : o.target # a} \cup {pred}
      BY <3>3 DEF pred, i, x2
    <3> QED
      BY <1>4, <2>1, <3>3, <3>4, <3>5, <3>6
  <2>2. CASE ~first
    BY <1>4, <2>2
  <2> QED
    BY <2>1, <2>2
<1> HIDE DEF p, pred
<1>10. \A o \in p.pending : o.id <= f
  BY <1>1, <1>4, <1>5, <1>7, <1>9
<1>11. /\ Typed(k) /\ Kin(p, k) /\ k.epoch = p.epoch /\ k.grid = p.grid
       /\ k.pending = {o \in p.pending : o.target # b} \cup {mine}
       /\ k.recs = {r \in p.recs : r.id # f} \cup {[id |-> f, src |-> s, n |-> p.epoch.n]}
  <2>1. 2 * g.cur \in Int /\ 2 * g.cur = 2 * f
    BY <1>1
  <2> QED
    BY <1>1, <1>3, <1>9, <1>10, <2>1, QueuedIs
<1>12. Kin(g, k) /\ k.epoch = g.epoch /\ k.grid = g.grid
  BY <1>9, <1>11 DEF Kin
<1>13. Expects(g, k, f, s, src, first)
  <2> DEFINE rec == [id |-> f, src |-> s, n |-> p.epoch.n]
  <2>1. rec.id = f /\ rec.src = s
    OBVIOUS
  <2>2. k.recs = {r \in p.recs : r.id # f} \cup {rec}
    BY <1>11
  <2> HIDE DEF rec
  <2>3. rec \in k.recs /\ \A r \in k.recs : r \in p.recs \/ r = rec
    BY <2>2
  <2>4. ASSUME NEW r \in k.recs
        PROVE  \/ \E x \in g.recs : x.id = r.id /\ x.src = r.src
               \/ first /\ r.id = f - 1 /\ r.src = src
               \/ r.id = f /\ r.src = s
    <3>1. CASE r \in p.recs
      BY <3>1, <1>9
    <3>2. CASE r = rec
      BY <3>2, <2>1
    <3> QED
      BY <2>3, <3>1, <3>2
  <2> QED
    BY <2>1, <2>3, <2>4 DEF Expects
<1> HIDE DEF mine
<1>14. \A x \in k.pending :
         \/ x \in g.pending /\ x.target # b /\ (first => x.target # a)
         \/ x \in batch
         \/ first /\ x = pred
         \/ x = mine
  BY <1>4, <1>9, <1>11
<1>15. \A x, y \in k.pending : x.target = y.target => x = y
  <2> TAKE x, y \in k.pending
  <2>1. CASE x \in g.pending /\ x.target # b /\ (first => x.target # a)
    BY <2>1, <1>1, <1>6, <1>7, <1>8, <1>14
  <2>2. CASE x \in batch
    BY <2>2, <1>1, <1>5, <1>6, <1>7, <1>8, <1>14
  <2>3. CASE first /\ x = pred
    <3>1. x.target = a /\ a # b
      BY <2>3, <1>1, <1>7
    <3>2. y \in batch => y.target # a
      BY <1>1, <1>6
    <3> QED
      BY <2>3, <3>1, <3>2, <1>8, <1>14
  <2>4. CASE x = mine
    BY <2>4, <1>1, <1>6, <1>7, <1>8, <1>14
  <2> QED
    BY <2>1, <2>2, <2>3, <2>4, <1>14
<1>16. Added(k, g.pending, c, f, a, b, first)
  <2>1. mine \in k.pending
    BY <1>11
  <2>2. \A x \in k.pending :
          \/ x \in g.pending /\ x.target # b /\ (first => x.target # a)
          \/ /\ ~x.real /\ x.id = f /\ x.content = 2 * f - 1
             /\ a < x.target /\ x.target < b /\ now < x.target
          \/ first /\ x.real /\ x.id = f - 1 /\ x.content = 2 * c /\ x.target = a
          \/ x = mine
    BY <1>5, <1>6, <1>7, <1>14
  <2> QED
    BY <1>15, <2>1, <2>2 DEF Added, mine
<1> QED
  BY <1>1, <1>11, <1>12, <1>13, <1>16 DEF Extends

\* The four kinds of entries of the scene after a pair was added.
LEMMA AddedAre ==
  ASSUME NEW g, NEW k, NEW c, NEW f, NEW a, NEW b, NEW first \in BOOLEAN,
         Extends(g, k, c, f, a, b, first), NEW x \in k.pending
  PROVE  /\ x.real \in BOOLEAN /\ x.id \in Int /\ x.content \in Int /\ x.target \in Int
         /\ x.id <= f
         /\ \/ x \in g.pending /\ x.target # b /\ (first => x.target # a) /\ x.id <= c
            \/ /\ ~x.real /\ x.id = f /\ x.content = 2 * f - 1
               /\ a < x.target /\ x.target < b /\ now < x.target
            \/ first /\ x.real /\ x.id = f - 1 /\ x.content = 2 * c /\ x.target = a
            \/ x.real /\ x.id = f /\ x.content = 2 * f /\ x.target = b
<1>1. x.real \in BOOLEAN /\ x.id \in Int /\ x.content \in Int /\ x.target \in Int
  BY EntryTypes DEF Extends
<1>2. \/ x \in g.pending /\ x.target # b /\ (first => x.target # a)
      \/ /\ ~x.real /\ x.id = f /\ x.content = 2 * f - 1
         /\ a < x.target /\ x.target < b /\ now < x.target
      \/ first /\ x.real /\ x.id = f - 1 /\ x.content = 2 * c /\ x.target = a
      \/ x = RealEntry(f, 2 * f, b)
  BY DEF Extends, Added
<1>3. x = RealEntry(f, 2 * f, b) => x.real /\ x.id = f /\ x.content = 2 * f /\ x.target = b
  BY DEF RealEntry
<1> QED
  BY <1>1, <1>2, <1>3 DEF Extends

\* What the queue holds stays as it should be.
LEMMA AddedQueue ==
  ASSUME NEW g, NEW k, NEW c, NEW f, NEW a, NEW b, NEW first \in BOOLEAN,
         Extends(g, k, c, f, a, b, first), NEW n \in Int, Queue(g, n, f), n < f,
         n <= c \/ n = f - 1
  PROVE  Queue(k, n, f)
<1>1. f \in Int /\ c \in Int /\ 0 < c /\ c < f
  BY DEF Extends
<1>2. \A e, d \in k.pending : e.target = d.target => e = d
  BY DEF Extends, Added
<1>3. ASSUME NEW e \in k.pending
      PROVE  /\ e.content > 0 /\ e.content <= 2 * e.id /\ e.id <= f
             /\ e.real => ~Made(e.content)
             /\ ~e.real => e.content = 2 * e.id - 1 /\ New(e, n)
             /\ New(e, n) => e.content >= 2 * n
  <2>1. ~Made(2 * c) /\ ~Made(2 * f)
    BY <1>1, Even
  <2>2. CASE e \in g.pending
    BY <2>2 DEF Queue
  <2>3. CASE ~(e \in g.pending)
    BY <1>1, <2>1, <2>3, AddedAre DEF New
  <2> QED
    BY <2>2, <2>3
<1> QED
  BY <1>2, <1>3 DEF Queue

\* Their order too, if what there was of the scene is due no later than its predecessor.
LEMMA AddedOrder ==
  ASSUME NEW g, NEW k, NEW c, NEW f, NEW a, NEW b, NEW first \in BOOLEAN,
         Extends(g, k, c, f, a, b, first), NEW n \in Int, Queue(g, n, f), Order(g, n, c),
         \A e \in g.pending : New(e, n) => e.target <= a /\ ~first,
         \E r \in k.recs : r.id = f
  PROVE  Order(k, n, f) /\ \A e \in k.pending : New(e, n) => e.target <= b
<1>1. f \in Int /\ c \in Int /\ 0 < c /\ c < f /\ a \in Int /\ b \in Int /\ a <= b
      /\ (first => a # b)
  BY DEF Extends
<1> DEFINE Old(x) == x \in g.pending /\ x.id <= c /\ x.content <= 2 * c /\ x.target <= a
                     /\ x.target < b /\ ~first
           Filler(x) == ~x.real /\ x.id = f /\ x.content = 2 * f - 1 /\ a < x.target /\ x.target < b
           Pred(x) == first /\ x.real /\ x.id = f - 1 /\ x.content = 2 * c /\ x.target = a
           Mine(x) == x.real /\ x.id = f /\ x.content = 2 * f /\ x.target = b
<1>2. ASSUME NEW x \in k.pending, New(x, n)
      PROVE  /\ x.real \in BOOLEAN /\ x.id \in Int /\ x.content \in Int /\ x.target \in Int
             /\ Old(x) \/ Filler(x) \/ Pred(x) \/ Mine(x)
  <2>1. CASE x \in g.pending /\ x.target # b /\ (first => x.target # a) /\ x.id <= c
    <3>1. x.content <= 2 * x.id /\ x.target <= a /\ ~first
      BY <1>2, <2>1 DEF Queue
    <3>2. x.id \in Int /\ x.content \in Int /\ x.target \in Int /\ x.real \in BOOLEAN
      BY AddedAre
    <3>3. Old(x)
      BY <1>1, <2>1, <3>1, <3>2
    <3> QED
      BY <3>2, <3>3
  <2> QED
    BY <2>1, AddedAre
<1>3. \A x, y \in k.pending : x.target = y.target => x = y
  BY DEF Extends, Added
<1>4. ASSUME NEW e \in k.pending, NEW d \in k.pending, New(e, n), New(d, n), e.target < d.target
      PROVE  e.id <= d.id /\ e.content <= d.content
  <2>1. CASE Old(e) /\ Old(d)
    BY <1>4, <2>1 DEF Order
  <2>2. CASE ~(Old(e) /\ Old(d))
    BY <1>1, <1>2, <1>4, <2>2
  <2> QED
    BY <2>1, <2>2
<1>5. ASSUME NEW e \in k.pending, NEW d \in k.pending, New(e, n), New(d, n),
             e.real, d.real, e.id = d.id
      PROVE  e = d
  <2>1. CASE Old(e) /\ Old(d)
    BY <1>5, <2>1 DEF Order
  <2>2. CASE ~(Old(e) /\ Old(d))
    <3>1. e.target = d.target
      BY <1>1, <1>2, <1>5, <2>2
    <3> QED
      BY <1>3, <3>1
  <2> QED
    BY <2>1, <2>2
<1>6. \E d \in k.pending : d.real /\ d.id = f /\ d.content = 2 * f
  <2>1. RealEntry(f, 2 * f, b) \in k.pending
    BY DEF Extends, Added
  <2> QED
    BY <2>1 DEF RealEntry
<1>7. \A e \in k.pending : New(e, n) => e.target <= b
  BY <1>1, <1>2
<1> HIDE DEF Old, Filler, Pred, Mine
<1> QED
  BY <1>4, <1>5, <1>6, <1>7 DEF Order

\* None of them is older than what is, or is going to be, on the display.
LEMMA AddedBehind ==
  ASSUME NEW g, NEW k, NEW c, NEW f, NEW a, NEW b, NEW first \in BOOLEAN,
         Extends(g, k, c, f, a, b, first), NEW n \in Int, NEW sh \in Int, Behind(g, n, sh),
         sh <= 2 * c, g.hold <= 2 * c, k.hold = g.hold
  PROVE  Behind(k, n, sh)
<1>1. f \in Int /\ c \in Int /\ 0 < c /\ c < f /\ g.hold \in Int
  BY EntryTypes DEF Extends
<1>2. ASSUME NEW e \in k.pending, New(e, n) PROVE e.content >= sh /\ e.content >= k.hold
  <2>1. CASE e \in g.pending
    BY <1>2, <2>1 DEF Behind
  <2>2. CASE ~(e \in g.pending)
    BY <1>1, <2>2, AddedAre
  <2> QED
    BY <2>1, <2>2
<1> QED
  BY <1>2 DEF Behind

\* At most one entry is due.
Single(g) ==
  \A e, d \in g.pending : e.target <= now /\ d.target <= now => e = d

\* The entries of a pair leave at most one that is due.
LEMMA AddedSingle ==
  ASSUME now \in Nat, NEW g, NEW k, NEW c, NEW f, NEW a, NEW b, NEW first \in BOOLEAN,
         Extends(g, k, c, f, a, b, first), first => now <= a,
         \/ \A e \in g.pending : e.target > now
         \/ now <= b /\ \A e \in g.pending : e.target >= now
  PROVE  Single(k)
<1>1. a \in Int /\ b \in Int /\ a <= b /\ (first => a # b)
      /\ \A x, y \in k.pending : x.target = y.target => x = y
  BY DEF Extends, Added
<1>2. ASSUME NEW e \in k.pending, NEW d \in k.pending, e.target <= now, d.target <= now
      PROVE  e.target = d.target
  <2>1. CASE \A x \in g.pending : x.target > now
    BY <2>1, <1>1, <1>2, AddedAre
  <2>2. CASE now <= b /\ \A x \in g.pending : x.target >= now
    BY <2>2, <1>1, <1>2, AddedAre
  <2> QED
    BY <2>1, <2>2
<1> QED
  BY <1>1, <1>2 DEF Single

-----------------------------------------------------------------------------
(* The end of a plan, and the whole of it.                                 *)

\* The statements carry over, and nothing enters.
LEMMA FinishedIs ==
  ASSUME NEW g, Typed(g), NEW plan \in Int, NEW lost \in BOOLEAN, NEW k, k = Finished(g, plan, lost)
  PROVE  /\ Typed(k) /\ Same(g, k) /\ k.pending \subseteq g.pending
         /\ g.grid # 0 => k.grid # 0
         /\ \A n, f : Queue(g, n, f) => Queue(k, n, f)
         /\ \A c, s : Upto(g, c, s) => Upto(k, c, s)
         /\ \A n, sh : Behind(g, n, sh) => Behind(k, n, sh)
         /\ \A x \in k.recs : \E r \in g.recs : x.id = r.id /\ x.src = r.src
         /\ Ahead(g) => Ahead(k)
<1> DEFINE w == Shed(g, plan)
<1>1. /\ Typed(w) /\ Same(g, w) /\ w.pending \subseteq g.pending
      /\ w.grid # g.grid => w.grid # 0
      /\ \A n, f : Queue(g, n, f) => Queue(w, n, f)
      /\ \A c, s : Upto(g, c, s) => Upto(w, c, s)
      /\ \A n, sh : Behind(g, n, sh) => Behind(w, n, sh)
  BY ShedQueue
<1>2. /\ \A x \in w.recs : \E r \in g.recs : x.id = r.id /\ x.src = r.src
      /\ Ahead(g) => Ahead(w)
  BY ShedRecords
<1>3. k = w \/ k = Resync(w)
  BY DEF Finished
<1> HIDE DEF w
<1>4. CASE k = w
  BY <1>1, <1>2, <1>4
<1>5. CASE k = Resync(w)
  <2>1. Typed(k) /\ Same(w, k) /\ k.pending = w.pending /\ k.grid # 0
    BY <1>1, <1>5, ResyncIs
  <2>2. Same(g, k)
    BY <1>1, <2>1 DEF Same
  <2>3. /\ \A n, f : Queue(w, n, f) => Queue(k, n, f)
        /\ \A c, s : Upto(w, c, s) => Upto(k, c, s)
        /\ \A n, sh : Behind(w, n, sh) => Behind(k, n, sh)
    BY <1>1, <1>5, ResyncQueue
  <2>4. \A x \in k.recs : \E r \in w.recs : x.id = r.id /\ x.src = r.src
    BY <1>1, <1>5, ResyncRecords
  <2>5. Ahead(g) => Ahead(k)
    BY <1>1, <1>2, <1>5, ResyncAhead
  <2>6. \A x \in k.recs : \E r \in g.recs : x.id = r.id /\ x.src = r.src
    <3> TAKE x \in k.recs
    <3>1. PICK y \in w.recs : x.id = y.id /\ x.src = y.src
      BY <2>4
    <3> QED
      BY <1>2, <3>1
  <2> QED
    BY <1>1, <2>1, <2>2, <2>3, <2>5, <2>6
<1> QED
  BY <1>3, <1>4, <1>5

\* The order stays, and so does the mapping; if real entries were given up before the
\* pair was added, it begins anew here.
LEMMA FinishedOrder ==
  ASSUME NEW g, Typed(g), NEW plan \in Int, NEW lost \in BOOLEAN, NEW k, k = Finished(g, plan, lost),
         NEW n \in Int, NEW c \in Int, NEW s \in Int,
         Order(g, n, c), Queue(g, n, c), Upto(g, c, s), n < c,
         lost \/ Mapped(g, n, s), \E d \in g.pending : d.real /\ d.id = c /\ d.content = 2 * c
  PROVE  /\ Order(k, n, c) /\ Mapped(k, n, s)
         /\ \A sh : n = 0 => Arrives(k, c, sh)
<1> DEFINE w == Shed(g, plan)
<1>1. PICK d \in g.pending : d.real /\ d.id = c /\ d.content = 2 * c
  OBVIOUS
<1>2. /\ Typed(w) /\ Queue(w, n, c) /\ Upto(w, c, s)
  BY ShedQueue
<1>3. /\ Order(w, n, c)
      /\ Mapped(g, n, s) \/ Real(g.pending) \ Real(w.pending) # {} => Mapped(w, n, s)
  <2>1. n <= c
    OBVIOUS
  <2> QED
    BY <2>1, ShedOrder
<1>4. ASSUME NEW sh, n = 0 PROVE Arrives(w, c, sh)
  <2>1. Arrives(g, c, sh)
    BY <1>1 DEF Arrives
  <2> QED
    BY <1>4, <2>1, ShedArrives
<1>5. k = IF lost /\ Real(g.pending) \ Real(w.pending) = {} THEN Resync(w) ELSE w
  BY DEF Finished
<1> HIDE DEF w
<1>6. CASE lost /\ Real(g.pending) \ Real(w.pending) = {}
  <2>1. d \in w.pending
    <3>1. d \in Real(g.pending)
      BY <1>1, RealIs
    <3> QED
      BY <1>2, <1>6, <3>1, RealIs
  <2>2. New(d, n)
    BY <1>1 DEF New
  <2>3. k = Resync(w)
    BY <1>5, <1>6
  <2>4. Order(k, n, c) /\ Mapped(k, n, s)
    BY <1>1, <1>2, <1>3, <2>1, <2>2, <2>3, ResyncOrder
  <2>5. d \in k.pending
    BY <1>2, <2>1, <2>3, ResyncIs
  <2> QED
    BY <1>1, <2>4, <2>5 DEF Arrives
<1>7. CASE ~(lost /\ Real(g.pending) \ Real(w.pending) = {})
  <2>1. k = w
    BY <1>5, <1>7
  <2> QED
    BY <1>3, <1>4, <1>7, <2>1
<1> QED
  BY <1>6, <1>7

\* In the scene that begins after frame `n' no report has moved the mapping back.
Calm(n) == ~back \/ n # since

\* A history whose frame `f' is recorded and about to be planned: `c' was before it, `n'
\* the last frame of the scenes before.
Poised(g, c, f, s, n) ==
  /\ Typed(g) /\ g.cur = f /\ g.prev = c
  /\ 0 < c /\ c < f /\ 0 < g.src /\ g.src < s
  /\ n < f /\ (n <= c \/ n = f - 1)
  /\ g.epoch.valid => g.grid # 0
  /\ Queue(g, n, f) /\ Upto(g, c, g.src)
  /\ g.hold = shown /\ g.hold <= 2 * c
  /\ \A i \in DOMAIN flight :
       /\ flight[i].id <= c /\ (flight[i].id = c => g.src < Ticks * flight[i].at)
       /\ \A r \in g.recs : r.id = flight[i].id => r.src < Ticks * flight[i].at
  /\ Calm(n) => Order(g, n, c) /\ Mapped(g, n, g.src) /\ Behind(g, n, shown)

\* It is on time, and its frame's opportunity has not passed, or nothing is due.
Timely(g, s) ==
  /\ \A e \in g.pending : e.target >= now
  /\ g.epoch.valid => g.epoch.disp > g.epoch.src
  /\ Undue(g, s) \/ \A e \in g.pending : e.target > now

\* What a plan adds is not older than the frame before.
Adds(g, k) == \A x \in k.pending : x \in g.pending \/ x.content >= 2 * g.prev

\* What the pair and its batch leave of it.
Joins(g0, k, f, s, n, g, shed) ==
  /\ Typed(k) /\ Kept(g0, k) /\ k.grid # 0
  /\ Queue(k, n, f) /\ Upto(k, f, s)
  /\ \E d \in k.pending : d.real /\ d.id = f /\ d.content = 2 * f
  /\ \A r \in k.recs : \/ \E x \in g0.recs : x.id = r.id /\ x.src = r.src
                       \/ r.id = f - 1 /\ r.src = g0.src
                       \/ r.id = f /\ r.src = s
  /\ Calm(n) => /\ Order(k, n, f) /\ Behind(k, n, shown)
                /\ Real(g.pending) \ Real(shed.pending) # {} \/ Mapped(k, n, s)
  /\ Timely(g0, s) => Ahead(k) /\ Single(k)
  /\ Adds(g0, k)

\* Making room keeps the statements about the queue, and the mapping unless a real entry
\* is given up.
LEMMA SparedKeeps ==
  ASSUME NEW g, Typed(g), g.grid # 0, NEW cap \in Int, NEW plan \in Int,
         NEW k, k = Spared(g, cap, plan)
  PROVE  /\ Typed(k) /\ Same(g, k) /\ k.pending \subseteq g.pending /\ k.grid # 0
         /\ \A n, f : Queue(g, n, f) => Queue(k, n, f)
         /\ \A c, s : Upto(g, c, s) => Upto(k, c, s)
         /\ \A n, sh : Behind(g, n, sh) => Behind(k, n, sh)
         /\ \A x \in k.recs : \E r \in g.recs : x.id = r.id /\ x.src = r.src
         /\ Ahead(g) => Ahead(k)
         /\ \A n, c, s \in Int : \A f : Queue(g, n, f) /\ Upto(g, c, s) /\ Order(g, n, c)
                                     => Order(k, n, c)
         /\ Real(g.pending) \ Real(k.pending) = {} => k.epoch = g.epoch
<1>1. PICK w : Typed(w) /\ Alike(g, w) /\ k = Shed(w, cap)
  BY SparedIs
<1>2. /\ w.pending = g.pending /\ w.epoch = g.epoch /\ w.recs = g.recs /\ w.grid = g.grid
      /\ Same(g, w)
  BY <1>1 DEF Alike
<1>3. /\ \A n, f : Queue(g, n, f) => Queue(w, n, f)
      /\ \A c, s : Upto(g, c, s) => Upto(w, c, s)
      /\ \A n, c : Order(g, n, c) => Order(w, n, c)
      /\ \A n, sh : Behind(g, n, sh) => Behind(w, n, sh)
      /\ Ahead(g) => Ahead(w)
  BY <1>2 DEF Queue, Upto, Order, Behind, Ahead, Same
<1>4. /\ Typed(k) /\ Same(w, k) /\ k.pending \subseteq w.pending
      /\ k.grid # w.grid => k.grid # 0
      /\ \A n, f : Queue(w, n, f) => Queue(k, n, f)
      /\ \A c, s : Upto(w, c, s) => Upto(k, c, s)
      /\ \A n, sh : Behind(w, n, sh) => Behind(k, n, sh)
  BY <1>1, ShedQueue
<1>5. /\ \A x \in k.recs : \E r \in w.recs : x.id = r.id /\ x.src = r.src
      /\ Ahead(w) => Ahead(k)
  BY <1>1, ShedRecords
<1>6. Same(g, k)
  BY <1>2, <1>4 DEF Same
<1>7. ASSUME NEW n \in Int, NEW c \in Int, NEW s \in Int, NEW f,
             Queue(g, n, f), Upto(g, c, s), Order(g, n, c)
      PROVE  Order(k, n, c)
  <2>1. Queue(w, n, f) /\ Upto(w, c, s) /\ Order(w, n, c)
    BY <1>3, <1>7
  <2>2. CASE n <= c
    BY <1>1, <2>1, <2>2, ShedOrder
  <2>3. CASE ~(n <= c)
    <3>1. \A e \in k.pending : e.id <= c /\ e.id \in Int
      BY <1>4, <2>1, EntryTypes DEF Upto
    <3>2. \A e \in k.pending : ~New(e, n)
      BY <2>3, <3>1 DEF New
    <3> QED
      BY <3>2 DEF Order
  <2> QED
    BY <2>2, <2>3
<1>8. ASSUME Real(g.pending) \ Real(k.pending) = {} PROVE k.epoch = g.epoch
  <2>1. CASE Spares(w, k)
    BY <1>2, <2>1 DEF Spares
  <2>2. ASSUME NEW v, GivesUp(w, v), k = Resync(v) PROVE FALSE
    <3>1. Typed(v) /\ v.pending \subseteq w.pending
      BY <2>2 DEF GivesUp
    <3>2. PICK d \in w.pending : d.real /\ d \notin v.pending
      BY <2>2 DEF GivesUp
    <3>3. k.pending = v.pending
      BY <2>2, <3>1, ResyncIs
    <3>4. d \in Real(g.pending) /\ d \notin Real(k.pending)
      BY <1>2, <3>2, <3>3, <1>4, RealIs
    <3> QED
      BY <1>8, <3>4
  <2> QED
    BY <1>1, <2>1, <2>2, ShedIs
<1> QED
  BY <1>2, <1>3, <1>4, <1>5, <1>6, <1>7, <1>8

\* The pair and its batch join the queue: all of the above.
LEMMA PairJoined ==
  ASSUME Types, NEW c \in Int, NEW f \in Int, NEW s \in Int, NEW n \in Int, s < Ticks * now,
         NEW g0, Poised(g0, c, f, s, n),
         NEW g, NEW a, NEW b, NEW first \in BOOLEAN, NEW cap \in Int, NEW plan \in Int,
         NEW made, NEW shed, NEW k,
         Pairing(g0, c, f, s, g, a, b, first, cap, plan, made, shed, k)
  PROVE  Joins(g0, k, f, s, n, g, shed)
<1>0. now \in Nat /\ shown \in Int /\ Ticks \in Nat \ {0} /\ Ticks * now \in Int
  BY BidirAssumption DEF Types
<1>1. /\ Typed(g0) /\ g0.cur = f /\ g0.prev = c /\ 0 < c /\ c < f /\ 0 < g0.src /\ g0.src < s
      /\ n < f /\ (n <= c \/ n = f - 1) /\ (g0.epoch.valid => g0.grid # 0)
      /\ Queue(g0, n, f) /\ Upto(g0, c, g0.src) /\ g0.hold = shown /\ g0.hold <= 2 * c
      /\ Calm(n) => Order(g0, n, c) /\ Mapped(g0, n, g0.src) /\ Behind(g0, n, shown)
  BY DEF Poised
<1>2. /\ g = Begun(g0) /\ a = Target(g, g0.src) /\ b = Target(g, s)
      /\ (first <=> (~g0.epoch.valid /\ a # b)) /\ made \subseteq Between(a, b)
      /\ \A t \in made : t > now /\ \A e \in g.pending : e.target # t
      /\ shed = Spared(g, cap, plan) /\ k = Joined(shed, f, s, g0.src, c, made, a, b, first)
  BY DEF Pairing
<1>3. g0.src \in Int /\ g0.epoch.valid \in BOOLEAN /\ g0.src <= s
  BY <1>1, EntryTypes
<1>4. /\ Typed(g) /\ Kept(g0, g) /\ g.pending = g0.pending /\ g.recs \subseteq g0.recs
      /\ g.epoch.valid = TRUE /\ g.grid # 0
      /\ g0.epoch.valid => g = g0
      /\ ~g0.epoch.valid => /\ g.origin = now /\ g.epoch.src = g0.src
                            /\ g.epoch.disp = Ticks * now
  <2>1. Typed(g0) /\ (g0.epoch.valid => g0.grid # 0) /\ g = Begun(g0)
    BY <1>1, <1>2
  <2> QED
    <3>1. AsBegun(g0, g)
      BY <1>0, <2>1, BegunIs, Zenon
    <3> QED
      BY <3>1 DEF AsBegun
<1>5. a \in Int /\ b \in Int /\ a <= b /\ (~g0.epoch.valid => now <= a)
  BY <1>0, <1>1, <1>2, <1>3, BegunTargets
<1>6. Queue(g, n, f) /\ Upto(g, c, g0.src)
  BY <1>1, <1>4 DEF Queue, Upto
<1>7. /\ Typed(shed) /\ Same(g, shed) /\ shed.pending \subseteq g.pending /\ shed.grid # 0
      /\ Queue(shed, n, f) /\ Upto(shed, c, g0.src)
      /\ \A sh : Behind(g, n, sh) => Behind(shed, n, sh)
      /\ \A x \in shed.recs : \E r \in g.recs : x.id = r.id /\ x.src = r.src
      /\ Ahead(g) => Ahead(shed)
      /\ Order(g, n, c) => Order(shed, n, c)
      /\ Real(g.pending) \ Real(shed.pending) = {} => shed.epoch = g.epoch
  <2>1. shed = Spared(g, cap, plan)
    BY <1>2
  <2>2. /\ Typed(shed) /\ Same(g, shed) /\ shed.pending \subseteq g.pending /\ shed.grid # 0
        /\ \A m, i : Queue(g, m, i) => Queue(shed, m, i)
        /\ \A m, t : Upto(g, m, t) => Upto(shed, m, t)
        /\ \A m, sh : Behind(g, m, sh) => Behind(shed, m, sh)
        /\ \A x \in shed.recs : \E r \in g.recs : x.id = r.id /\ x.src = r.src
        /\ Ahead(g) => Ahead(shed)
        /\ \A m, i, t \in Int : \A j : Queue(g, m, j) /\ Upto(g, i, t) /\ Order(g, m, i)
                                    => Order(shed, m, i)
        /\ Real(g.pending) \ Real(shed.pending) = {} => shed.epoch = g.epoch
    BY <1>4, <2>1, SparedKeeps
  <2> QED
    BY <1>3, <1>6, <2>2
<1>8. shed.cur = f /\ shed.hold = shown /\ shed.origin = g.origin /\ Kept(g0, shed)
  BY <1>1, <1>4, <1>7 DEF Same, Kept
<1>9. Joinable(shed, c, f, made, a, b, first)
  <2>1. \A x, y \in shed.pending : x.target = y.target => x = y
    BY <1>7 DEF Queue
  <2>2. \A e \in shed.pending : e.id <= c
    BY <1>7 DEF Upto
  <2>3. \A t \in made : t > now /\ \A e \in shed.pending : e.target # t
    BY <1>2, <1>7
  <2> QED
    BY <1>1, <1>2, <1>5, <1>7, <1>8, <2>1, <2>2, <2>3 DEF Joinable
<1>10. /\ Typed(k) /\ Kin(shed, k) /\ k.epoch = shed.epoch /\ k.grid = shed.grid
       /\ Extends(shed, k, c, f, a, b, first) /\ Expects(shed, k, f, s, g0.src, first)
  BY <1>2, <1>3, <1>9, JoinedIs
<1>11. Kept(g0, k) /\ k.grid # 0 /\ k.hold = shown
  BY <1>7, <1>8, <1>10 DEF Kin, Kept
<1>12. Queue(k, n, f)
  BY <1>1, <1>7, <1>10, AddedQueue
<1>13. \E d \in k.pending : d.real /\ d.id = f /\ d.content = 2 * f
  <2>1. RealEntry(f, 2 * f, b) \in k.pending
    BY <1>10 DEF Extends, Added
  <2> QED
    BY <2>1 DEF RealEntry
<1>14. \A r \in k.recs : \/ \E x \in shed.recs : x.id = r.id /\ x.src = r.src
                         \/ first /\ r.id = f - 1 /\ r.src = g0.src
                         \/ r.id = f /\ r.src = s
  BY <1>10 DEF Expects
<1>15. \A x \in shed.recs : x.src <= g0.src /\ x.src \in Int
  BY <1>7, EntryTypes DEF Upto
<1>16. Upto(k, f, s)
  <2>1. \A e \in k.pending : e.id <= f
    BY <1>10, AddedAre
  <2>2. ASSUME NEW r \in k.recs PROVE r.src <= s
    <3>1. CASE \E x \in shed.recs : x.id = r.id /\ x.src = r.src
      BY <3>1, <1>1, <1>3, <1>15
    <3>2. CASE ~\E x \in shed.recs : x.id = r.id /\ x.src = r.src
      BY <3>2, <1>3, <1>14
    <3> QED
      BY <3>1, <3>2
  <2> QED
    BY <2>1, <2>2 DEF Upto
<1>17. \A r \in k.recs : \/ \E x \in g0.recs : x.id = r.id /\ x.src = r.src
                         \/ r.id = f - 1 /\ r.src = g0.src
                         \/ r.id = f /\ r.src = s
  <2>1. \A x \in shed.recs : \E y \in g0.recs : x.id = y.id /\ x.src = y.src
    BY <1>4, <1>7
  <2> TAKE r \in k.recs
  <2>2. CASE \E x \in shed.recs : x.id = r.id /\ x.src = r.src
    BY <2>1, <2>2
  <2> QED
    BY <2>2, <1>14
<1>18. ASSUME Calm(n)
       PROVE  /\ Order(k, n, f) /\ Behind(k, n, shown)
              /\ Real(g.pending) \ Real(shed.pending) # {} \/ Mapped(k, n, s)
  <2>1. Order(g0, n, c) /\ Mapped(g0, n, g0.src) /\ Behind(g0, n, shown)
    BY <1>1, <1>18
  <2>2. \A e \in g.pending : New(e, n) => e.target <= a /\ ~first /\ g = g0
    BY <1>2, <1>4, <2>1 DEF Mapped
  <2>3. Order(g, n, c)
    <3>1. CASE g = g0
      BY <2>1, <3>1
    <3>2. CASE g # g0
      BY <2>2, <3>2 DEF Order
    <3> QED
      BY <3>1, <3>2
  <2>4. Behind(g, n, shown)
    <3>1. g.hold = g0.hold
      BY <1>4 DEF Kept
    <3> QED
      BY <1>4, <2>1, <3>1 DEF Behind
  <2>5. Order(shed, n, c) /\ Behind(shed, n, shown)
    BY <1>7, <2>3, <2>4
  <2>6. \A e \in shed.pending : New(e, n) => e.target <= a /\ ~first
    BY <1>7, <2>2
  <2>7. \E r \in k.recs : r.id = f
    BY <1>10 DEF Expects
  <2>8. Order(k, n, f) /\ \A e \in k.pending : New(e, n) => e.target <= b
    BY <1>7, <1>10, <2>5, <2>6, <2>7, AddedOrder
  <2>9. Behind(k, n, shown)
    <3>1. shown <= 2 * c /\ shed.hold <= 2 * c /\ k.hold = shed.hold
      BY <1>1, <1>8, <1>11
    <3> QED
      BY <1>0, <1>10, <2>5, <3>1, AddedBehind
  <2>10. ASSUME Real(g.pending) \ Real(shed.pending) = {} PROVE Mapped(k, n, s)
    <3>1. k.epoch = g.epoch /\ k.origin = g.origin
      BY <1>7, <1>8, <1>10, <2>10 DEF Kin
    <3>2. Target(k, s) = b
      BY <1>2, <3>1 DEF Target, Ideal
    <3> QED
      BY <1>4, <2>8, <3>1, <3>2 DEF Mapped
  <2> QED
    BY <2>8, <2>9, <2>10
<1>19. ASSUME Timely(g0, s) PROVE Ahead(k) /\ Single(k)
  <2>1. /\ \A e \in g.pending : e.target >= now
        /\ Undue(g0, s) \/ \A e \in g.pending : e.target > now
    BY <1>4, <1>19 DEF Timely
  <2>2. g.epoch.disp > g.epoch.src
    <3>1. CASE g0.epoch.valid
      BY <1>4, <1>19, <3>1 DEF Timely
    <3>2. CASE ~g0.epoch.valid
      BY <1>0, <1>1, <1>3, <1>4, <3>2
    <3> QED
      BY <3>1, <3>2
  <2>3. /\ g0.src < Ticks * a /\ s < Ticks * b
        /\ Ideal(g, s) > Ticks * (now - 1) => now <= b
    BY <1>0, <1>2, <1>3, <1>4, <2>2, Fresh
  <2>4. Ahead(g)
    <3>1. g0.src < Ticks * now /\ \A r \in g.recs : r.src <= g0.src
      BY <1>0, <1>1, <1>3, <1>6 DEF Upto
    <3>2. OnTime(g, now)
      BY <2>1, <2>2 DEF OnTime
    <3>3. now \in Int
      BY <1>0
    <3> QED
      BY <1>3, <1>4, <3>1, <3>2, <3>3, AheadOnTime
  <2>5. k.epoch.valid => k.epoch.disp > k.epoch.src
    BY <1>7, <1>10, <2>4 DEF Ahead
  <2>6. ASSUME NEW e \in k.pending, NEW r \in k.recs, e.real, r.id = e.id
        PROVE  r.src < Ticks * e.target
    <3>1. r.src \in Int /\ (r.id # f => r.src <= g0.src) /\ r.src <= s
      <4>1. r.src \in Int
        BY <1>10, EntryTypes
      <4>2. CASE \E x \in shed.recs : x.id = r.id /\ x.src = r.src
        BY <4>1, <4>2, <1>1, <1>3, <1>15
      <4>3. CASE ~\E x \in shed.recs : x.id = r.id /\ x.src = r.src
        BY <4>1, <4>3, <1>3, <1>14
      <4> QED
        BY <4>2, <4>3, <4>1
    <3>2. e.target \in Int /\ Ticks * e.target \in Int
      BY <1>0, <1>10, EntryTypes
    <3>3. CASE e.target = b /\ e.id = f
      BY <2>3, <3>1, <3>2, <3>3
    <3>4. CASE e.target = a /\ e.id = f - 1
      <4>1. r.src <= g0.src
        BY <2>6, <3>1, <3>4
      <4> QED
        BY <1>3, <2>3, <3>1, <3>2, <3>4, <4>1
    <3>5. CASE e \in shed.pending /\ e.id <= c
      <4>1. r.id # f
        BY <1>1, <2>6, <3>5
      <4>2. e.target >= now
        BY <1>7, <2>1, <3>5
      <4>3. Ticks * (e.target - now) >= 0
        BY <1>0, <3>2, <4>2
      <4>4. Ticks * (e.target - now) = Ticks * e.target - Ticks * now
        BY <1>0, <3>2
      <4> QED
        BY <1>0, <1>1, <1>3, <3>1, <3>2, <4>1, <4>3, <4>4
    <3> QED
      BY <1>10, <2>6, <3>3, <3>4, <3>5, AddedAre
  <2>7. Ahead(k)
    BY <2>5, <2>6 DEF Ahead
  <2>8. Single(k)
    <3>1. first => now <= a
      BY <1>2, <1>5
    <3>2. Undue(g0, s) => now <= b
      <4>1. CASE g0.epoch.valid
        BY <1>4, <2>3, <4>1 DEF Undue
      <4>2. CASE ~g0.epoch.valid
        BY <1>0, <1>5, <4>2
      <4> QED
        BY <4>1, <4>2
    <3>3. \/ \A e \in shed.pending : e.target > now
          \/ now <= b /\ \A e \in shed.pending : e.target >= now
      BY <1>7, <2>1, <3>2
    <3> QED
      BY <1>0, <1>10, <3>1, <3>3, AddedSingle
  <2> QED
    BY <2>7, <2>8
<1>20. Adds(g0, k)
  <2>1. \A x \in k.pending : x \in shed.pending \/ x.content >= 2 * c
    BY <1>1, <1>10, AddedAre
  <2> QED
    BY <1>1, <1>4, <1>7, <2>1 DEF Adds
<1> QED
  BY <1>10, <1>11, <1>12, <1>13, <1>16, <1>17, <1>18, <1>19, <1>20 DEF Joins

\* A history whose frame `f' has been planned.
Fit(g, f, s, n) ==
  /\ Typed(g) /\ g.cur = f
  /\ g.epoch.valid => g.grid # 0
  /\ Queue(g, n, f) /\ Upto(g, f, s)
  /\ \A i \in DOMAIN flight :
       /\ flight[i].id <= f /\ (flight[i].id = f => s < Ticks * flight[i].at)
       /\ \A r \in g.recs : r.id = flight[i].id => r.src < Ticks * flight[i].at
  /\ Calm(n) => /\ Order(g, n, f) /\ Mapped(g, n, s)
                /\ Behind(g, n, shown) /\ Reported(g, n, f, flight)
                /\ n = 0 => Arrives(g, f, shown)

\* The plan leaves the order, the mapping and the reports as they should be.
LEMMA PlannedFit ==
  ASSUME Types, NEW c \in Int, NEW f \in Int, NEW s \in Int, NEW n \in Int, s < Ticks * now,
         NEW g0, Poised(g0, c, f, s, n), NEW most, NEW p, p = Planned(g0, f, s, most)
  PROVE  /\ Fit(p, f, s, n) /\ Kept(g0, p) /\ Adds(g0, p)
         /\ Timely(g0, s) => Ahead(p) /\ Single(p)
<1>1. /\ Typed(g0) /\ g0.cur = f /\ g0.prev = c /\ 0 < c /\ c < f /\ n < f
      /\ g0.src \in Int /\ (g0.epoch.valid => g0.grid # 0) /\ now \in Nat
  BY EntryTypes DEF Poised, Types
<1>2. PICK g, a, b, cap, plan, made, shed, k : \E first \in BOOLEAN :
        /\ cap \in Int /\ plan \in Int
        /\ Pairing(g0, g0.prev, f, s, g, a, b, first, cap, plan, made, shed, k)
        /\ p = Finished(k, plan, Real(g.pending) \ Real(shed.pending) # {})
  <2>1. InSteps(g0, f, s, p)
    BY <1>1, PlannedShape
  <2> QED
    BY <2>1 DEF InSteps
<1>3. PICK first \in BOOLEAN :
        /\ cap \in Int /\ plan \in Int
        /\ Pairing(g0, c, f, s, g, a, b, first, cap, plan, made, shed, k)
        /\ p = Finished(k, plan, Real(g.pending) \ Real(shed.pending) # {})
  BY <1>1, <1>2
<1>4. Joins(g0, k, f, s, n, g, shed)
  BY <1>3, PairJoined
<1> DEFINE lost == Real(g.pending) \ Real(shed.pending) # {}
<1>5. lost \in BOOLEAN /\ p = Finished(k, plan, lost)
  BY <1>3
<1>6. /\ Typed(k) /\ Kept(g0, k) /\ k.grid # 0 /\ Queue(k, n, f) /\ Upto(k, f, s)
      /\ \E d \in k.pending : d.real /\ d.id = f /\ d.content = 2 * f
      /\ \A r \in k.recs : \/ \E x \in g0.recs : x.id = r.id /\ x.src = r.src
                           \/ r.id = f - 1 /\ r.src = g0.src
                           \/ r.id = f /\ r.src = s
      /\ Calm(n) => Order(k, n, f) /\ Behind(k, n, shown) /\ (lost \/ Mapped(k, n, s))
      /\ Timely(g0, s) => Ahead(k) /\ Single(k)
      /\ Adds(g0, k)
  BY <1>4 DEF Joins
<1> HIDE DEF lost
<1>7. /\ Typed(p) /\ Same(k, p) /\ p.pending \subseteq k.pending /\ p.grid # 0
      /\ Queue(p, n, f) /\ Upto(p, f, s)
      /\ \A m, sh : Behind(k, m, sh) => Behind(p, m, sh)
      /\ \A x \in p.recs : \E r \in k.recs : x.id = r.id /\ x.src = r.src
      /\ Ahead(k) => Ahead(p)
  BY <1>3, <1>5, <1>6, FinishedIs
<1>8. ASSUME Calm(n)
      PROVE  Order(p, n, f) /\ Mapped(p, n, s) /\ \A sh : n = 0 => Arrives(p, f, sh)
  BY <1>1, <1>3, <1>5, <1>6, <1>8, FinishedOrder
<1>9. Kept(g0, p) /\ p.cur = f
  BY <1>1, <1>6, <1>7 DEF Kept, Same
<1>10. Adds(g0, p)
  BY <1>6, <1>7 DEF Adds
<1>11. Timely(g0, s) => Ahead(p) /\ Single(p)
  BY <1>6, <1>7 DEF Single
<1>12. \A i \in DOMAIN flight : flight[i].id \in Int /\ flight[i].id <= c
  <2>1. \A i \in DOMAIN flight : flight[i] \in Reports
    BY DEF Types
  <2>2. \A i \in DOMAIN flight : flight[i].id <= c
    BY DEF Poised
  <2> QED
    BY <2>1, <2>2 DEF Reports
<1>13. ASSUME NEW i \in DOMAIN flight, NEW r \in p.recs, r.id = flight[i].id
       PROVE  r.src < Ticks * flight[i].at
  <2>1. \/ \E x \in g0.recs : x.id = r.id /\ x.src = r.src
        \/ r.id = f - 1 /\ r.src = g0.src
        \/ r.id = f /\ r.src = s
    <3>1. PICK y \in k.recs : r.id = y.id /\ r.src = y.src
      BY <1>7
    <3> QED
      BY <1>6, <3>1
  <2>2. ASSUME NEW x \in g0.recs, x.id = r.id, x.src = r.src PROVE r.src < Ticks * flight[i].at
    BY <1>13, <2>2 DEF Poised
  <2>3. CASE r.id = f - 1 /\ r.src = g0.src
    <3>1. flight[i].id = c
      <4>1. flight[i].id \in Int /\ flight[i].id <= c /\ flight[i].id = f - 1
        BY <1>12, <1>13, <2>3
      <4> QED
        BY <1>1, <4>1
    <3> QED
      BY <2>3, <3>1 DEF Poised
  <2>4. r.id # f
    BY <1>1, <1>12, <1>13
  <2> QED
    BY <2>1, <2>2, <2>3, <2>4
<1>14. \A i \in DOMAIN flight : flight[i].id < f
  BY <1>1, <1>12
<1>15. Calm(n) => Behind(p, n, shown) /\ Reported(p, n, f, flight)
  BY <1>6, <1>7, <1>14 DEF Reported
<1>16. \A i \in DOMAIN flight : flight[i].id <= f /\ flight[i].id # f
  BY <1>14, <1>12
<1> QED
  BY <1>7, <1>8, <1>9, <1>10, <1>11, <1>13, <1>15, <1>16 DEF Fit

-----------------------------------------------------------------------------
(* A frame is recorded: what holds then, and where nothing is planned.      *)

\* Nothing of this scene that is older than the display is queued or held.
Onward(g) ==
  /\ \A e \in g.pending : e.content >= shown \/ e.content <= 2 * since
  /\ g.hold >= shown \/ g.hold <= 2 * since

\* That is so between two steps.
LEMMA WholeOnward ==
  ASSUME Types, NEW f \in Nat, NEW s \in Nat, NEW g, Whole(g, f, s), ~back
  PROVE  Onward(g)
<1>1. Typed(g) /\ Queue(g, since, f) /\ Behind(g, since, shown) /\ since \in Nat /\ shown \in Int
  BY DEF Whole, Settled, InOrder, Types
<1>2. ASSUME NEW e \in g.pending PROVE e.content >= shown \/ e.content <= 2 * since
  <2>1. e.id \in Int /\ e.content \in Int /\ e.content <= 2 * e.id
    BY <1>1, EntryTypes DEF Queue
  <2>2. CASE New(e, since)
    BY <1>1, <2>2 DEF Behind
  <2>3. CASE ~New(e, since)
    BY <1>1, <2>1, <2>3 DEF New
  <2> QED
    BY <2>2, <2>3
<1>3. g.hold >= shown \/ g.hold <= 2 * since
  BY <1>1 DEF Behind
<1> QED
  BY <1>2, <1>3 DEF Onward

\* A history that recorded frame `f', before its queue is shown.
Done(k, f, s, n) ==
  /\ Fit(k, f, s, n) /\ Linked(k, f, s) /\ Display(k, f, shown) /\ k.valid /\ k.src = s
  /\ Punctual => Single(k) /\ (k.epoch.valid => k.epoch.disp > k.epoch.src)
  /\ ~back => Onward(k)

\* What is held is what is on the display, or of an earlier frame.
LEMMA HeldLast ==
  ASSUME Types, NEW f \in Nat, NEW g, Typed(g), Display(g, f, shown)
  PROVE  g.hold >= shown \/ g.hold <= 2 * (f - 1)
<1>1. /\ g.hold \in Int /\ shown \in Int /\ (Made(g.hold) => g.hold = shown)
      /\ g.hold <= 2 * f /\ shown <= 2 * f
  BY EntryTypes DEF Display, Types
<1>2. CASE Made(g.hold)
  BY <1>1, <1>2
<1>3. CASE ~Made(g.hold)
  <2>1. g.hold % 2 = 0
    BY <1>1, <1>3 DEF Made
  <2>2. g.hold = 2 * f \/ g.hold <= 2 * (f - 1)
    BY <1>1, <2>1
  <2> QED
    BY <1>1, <2>2
<1> QED
  BY <1>2, <1>3

\* A frame that is recorded alone, with nothing of its scene in the queue.
LEMMA Alone ==
  ASSUME Types, NEW f \in Nat \ {0}, NEW s \in Nat \ {0}, s < Ticks * now, NEW n \in Nat,
         NEW g, Whole(g, f, s), NEW k, Typed(k), k.pending \subseteq g.pending, Queue(k, n, f),
         Calm(n) => (\A e \in k.pending : ~New(e, n)) /\ (k.hold >= shown \/ k.hold <= 2 * n),
         k.cur = f, k.src = s, k.valid, k.base \in {None, f}, k.epoch.valid = FALSE,
         k.recs = {}, k.unread = FALSE, k.hold = g.hold
  PROVE  Done(k, f, s, n)
<1>1. /\ Typed(g) /\ Sent(g, f, s) /\ Display(g, f, shown) /\ Queue(g, since, f)
      /\ g.valid => Upto(g, g.cur, g.src)
      /\ Punctual => OnTime(g, now)
  BY DEF Whole, Settled
<1>2. Upto(k, f, s)
  BY DEF Upto, Queue
<1>3. \A i \in DOMAIN flight : flight[i].id <= f /\ (flight[i].id = f => s < Ticks * flight[i].at)
  BY <1>1 DEF Sent
<1>4. ASSUME Calm(n)
      PROVE  /\ Order(k, n, f) /\ Mapped(k, n, s) /\ Behind(k, n, shown)
             /\ Reported(k, n, f, flight) /\ Arrives(k, f, shown)
  BY <1>4 DEF Order, Mapped, Behind, Reported, Arrives
<1>5. Fit(k, f, s, n)
  BY <1>2, <1>3, <1>4 DEF Fit
<1>6. Linked(k, f, s)
  <2>1. k.valid = TRUE
    BY EntryTypes
  <2>2. k.cur # None /\ k.valid = (k.cur # None)
    BY <2>1 DEF None
  <2>3. k.base \in {None, k.cur} /\ k.recs = {} /\ k.unread = FALSE /\ k.epoch.valid = FALSE
    OBVIOUS
  <2>4. k.cur > 0 /\ k.cur <= f /\ k.src > 0 /\ k.src <= s /\ k.src = s /\ k.cur = f
    OBVIOUS
  <2> QED
    BY <2>2, <2>3, <2>4 DEF Linked
<1>7. Display(k, f, shown)
  BY <1>1 DEF Display
<1>8. ASSUME Punctual PROVE Single(k)
  <2>1. ASSUME NEW e \in k.pending, NEW d \in k.pending, e.target <= now, d.target <= now
        PROVE  e = d
    <3>1. e.target >= now /\ d.target >= now /\ e.target \in Int /\ d.target \in Int
      BY <1>1, <1>8, EntryTypes DEF OnTime
    <3>2. e.target = d.target
      BY <2>1, <3>1 DEF Types
    <3> QED
      BY <3>2 DEF Queue
  <2> QED
    BY <2>1 DEF Single
<1>9. ASSUME ~back PROVE Onward(k)
  <2>1. Onward(g)
    BY <1>9, WholeOnward
  <2> QED
    BY <2>1 DEF Onward
<1> QED
  BY <1>5, <1>6, <1>7, <1>8, <1>9 DEF Done

\* A history that a scene change has invalidated keeps its real entries and what it holds.
LEMMA InvalidatedIs ==
  ASSUME NEW g, Typed(g), NEW k, k = Invalidated(g)
  PROVE  /\ Typed(k) /\ k.pending = Real(g.pending) /\ k.hold = g.hold
         /\ k.epoch.valid = FALSE /\ k.recs = {} /\ k.prev = None /\ k.cur = None
         /\ k.base = None /\ k.valid = FALSE /\ k.unread = FALSE /\ k.cut = FALSE
<1> DEFINE u == Unpinned(g)
           w == Forget(u)
<1>1. Typed(u) /\ Alike(g, u)
  BY UnpinnedIs
<1> HIDE DEF u
<1>2. /\ Typed(w) /\ w.pending = u.pending /\ w.hold = u.hold
      /\ w.epoch.valid = FALSE /\ w.recs = {} /\ w.prev = None /\ w.cur = None
      /\ w.base = None /\ w.valid = FALSE /\ w.unread = FALSE /\ w.cut = FALSE
  BY <1>1, ForgetIs
<1>3. k = [w EXCEPT !.pending = Real(w.pending)]
  BY DEF Invalidated, u
<1> HIDE DEF w
<1>4. Real(w.pending) \in SUBSET w.pending
  BY DEF Real
<1>5. /\ Typed(k) /\ Same(w, k) /\ k.pending = Real(w.pending)
      /\ k.epoch = w.epoch /\ k.recs = w.recs
  BY <1>2, <1>3, <1>4, Without
<1>6. w.pending = g.pending /\ w.hold = g.hold
  BY <1>1, <1>2 DEF Alike, Same
<1> QED
  BY <1>2, <1>5, <1>6 DEF Same

\* The frame of a new base layer is the current one, and the first of its history.
Noted(g, f) == [g EXCEPT !.prev = g.cur, !.cur = f]
Opened(g, f, s) == [Noted(g, f) EXCEPT !.valid = TRUE, !.src = s]

AsOpened(g, k, f, s) ==
  /\ Typed(k) /\ k.pending = g.pending /\ k.hold = g.hold /\ k.epoch = g.epoch
  /\ k.recs = g.recs /\ k.base = g.base /\ k.unread = g.unread
  /\ k.cur = f /\ k.src = s /\ k.valid = TRUE

\* What the first frame changes.
LEMMA OpenedIs ==
  ASSUME NEW g, Typed(g), NEW f \in Int, NEW s \in Int, NEW k, k = Opened(g, f, s)
  PROVE  AsOpened(g, k, f, s)
<1> DEFINE w == Noted(g, f)
<1>1. g \in Histories /\ g.cur \in Int
  BY DEF Typed, Histories
<1>2. w \in Histories
  BY <1>1, Updates DEF Noted
<1>3. /\ w.pending = g.pending /\ w.hold = g.hold /\ w.epoch = g.epoch
      /\ w.recs = g.recs /\ w.base = g.base /\ w.unread = g.unread /\ w.cur = f
  BY <1>1 DEF Histories, Noted
<1>4. k = [w EXCEPT !.valid = TRUE, !.src = s]
  BY DEF Opened
<1> HIDE DEF w
<1>5. k \in Histories
  <2>1. \A x \in BOOLEAN : [w EXCEPT !.valid = x, !.src = s] \in Histories
    BY <1>2, Updates
  <2> QED
    BY <1>4, <2>1
<1>6. /\ k.pending = w.pending /\ k.hold = w.hold /\ k.epoch = w.epoch
      /\ k.recs = w.recs /\ k.base = w.base /\ k.unread = w.unread
      /\ k.cur = w.cur /\ k.src = s /\ k.valid = TRUE
  BY <1>2, <1>4 DEF Histories
<1> QED
  BY <1>3, <1>5, <1>6 DEF Typed, AsOpened

\* The texture of a new base layer.
Based(g, f) == [g EXCEPT !.base = f]

AsBased(g, k, f) ==
  /\ Typed(k) /\ k.pending = g.pending /\ k.hold = g.hold /\ k.epoch = g.epoch
  /\ k.recs = g.recs /\ k.unread = g.unread /\ k.grid = g.grid /\ k.origin = g.origin
  /\ k.cur = g.cur /\ k.src = g.src /\ k.valid = g.valid /\ k.batch = g.batch
  /\ k.base = f

\* What a new base layer changes.
LEMMA BasedIs ==
  ASSUME NEW g, Typed(g), NEW f \in Int, NEW k, k = Based(g, f)
  PROVE  AsBased(g, k, f)
<1>1. g \in Histories
  BY DEF Typed
<1>2. k \in Histories
  BY <1>1, Updates DEF Based
<1>3. /\ k.pending = g.pending /\ k.hold = g.hold /\ k.epoch = g.epoch
      /\ k.recs = g.recs /\ k.unread = g.unread /\ k.grid = g.grid /\ k.origin = g.origin
      /\ k.cur = g.cur /\ k.src = g.src /\ k.valid = g.valid /\ k.batch = g.batch
      /\ k.base = f
  BY <1>1 DEF Histories, Based
<1> QED
  BY <1>2, <1>3 DEF Typed, AsBased

\* The frame takes the place of the current one.
LEMMA NotedIs ==
  ASSUME NEW g, Typed(g), NEW f \in Int, NEW k, k = Noted(g, f)
  PROVE  /\ Typed(k) /\ k.pending = g.pending /\ k.hold = g.hold /\ k.epoch = g.epoch
         /\ k.recs = g.recs /\ k.unread = g.unread /\ k.grid = g.grid /\ k.origin = g.origin
         /\ k.prev = g.cur /\ k.cur = f /\ k.src = g.src /\ k.valid = g.valid
         /\ k.batch = g.batch /\ k.base = g.base
<1>1. g \in Histories /\ g.cur \in Int
  BY DEF Typed, Histories
<1>2. k \in Histories
  BY <1>1, Updates DEF Noted
<1>3. /\ k.pending = g.pending /\ k.hold = g.hold /\ k.epoch = g.epoch
      /\ k.recs = g.recs /\ k.unread = g.unread /\ k.grid = g.grid /\ k.origin = g.origin
      /\ k.prev = g.cur /\ k.cur = f /\ k.src = g.src /\ k.valid = g.valid
      /\ k.batch = g.batch /\ k.base = g.base
  BY <1>1 DEF Histories, Noted
<1> QED
  BY <1>2, <1>3 DEF Typed

\* The statistics are read at most once, and touch the queue only when they find a cut.
AsObserved(g, k, cut) ==
  /\ Typed(k) /\ k.hold = g.hold /\ k.grid = g.grid /\ k.origin = g.origin
  /\ k.prev = g.prev /\ k.cur = g.cur /\ k.src = g.src /\ k.valid = g.valid
  /\ k.base = g.base
  /\ k.unread => g.unread
  /\ ~cut => k.pending = g.pending /\ k.epoch = g.epoch /\ k.recs = g.recs
  /\ cut /\ g.unread /\ g.batch <= gpu =>
       /\ k.pending = Real(g.pending)
       /\ \/ k.epoch = g.epoch /\ k.recs = g.recs
          \/ k.epoch.valid = FALSE /\ k.recs = {}

\* What the statistics of a batch change.
LEMMA ObservedIs ==
  ASSUME gpu \in Int, NEW g, Typed(g), NEW cut \in BOOLEAN, NEW k, k = Observed(g, cut)
  PROVE  AsObserved(g, k, cut)
<1> DEFINE seen == [g EXCEPT !.unread = FALSE, !.cut = cut]
           q == Real(seen.pending)
<1>1. g \in Histories /\ IsFiniteSet(g.pending) /\ g.batch \in Int /\ g.unread \in BOOLEAN
  BY EntryTypes DEF Typed
<1>2. seen \in Histories
  <2>1. \A x, y \in BOOLEAN : [g EXCEPT !.unread = x, !.cut = y] \in Histories
    BY <1>1, Updates
  <2> QED
    BY <2>1
<1>3. /\ seen.hold = g.hold /\ seen.grid = g.grid /\ seen.origin = g.origin
      /\ seen.prev = g.prev /\ seen.cur = g.cur /\ seen.src = g.src /\ seen.valid = g.valid
      /\ seen.base = g.base /\ seen.unread = FALSE
      /\ seen.pending = g.pending /\ seen.epoch = g.epoch /\ seen.recs = g.recs
  BY <1>1 DEF Histories
<1>4. k = IF g.batch > gpu \/ ~g.unread THEN g
          ELSE IF ~cut THEN seen
          ELSE IF g.cut THEN [seen EXCEPT !.pending = q]
          ELSE [seen EXCEPT !.pending = q, !.epoch = NoEpoch, !.recs = {}]
  BY DEF Observed
<1> HIDE DEF seen
<1>5. q \in SUBSET g.pending /\ q \in SUBSET Entries /\ IsFiniteSet(q) /\ q = Real(g.pending)
  <2>1. q = Real(g.pending)
    BY <1>3
  <2>2. q \subseteq g.pending /\ IsFiniteSet(q)
    BY <2>1, RealIs
  <2>3. g.pending \subseteq Entries
    BY <1>1 DEF Histories
  <2> QED
    BY <2>1, <2>2, <2>3
<1> HIDE DEF q
<1>6. NoEpoch \in Epochs /\ NoEpoch.valid = FALSE
  BY DEF NoEpoch, Epochs
<1>a. g.batch <= gpu \/ g.batch > gpu
  BY <1>1
<1>7. CASE g.batch > gpu \/ ~g.unread
  <2>1. k = g /\ ~(g.unread /\ g.batch <= gpu)
    BY <1>1, <1>4, <1>7
  <2> QED
    BY <2>1 DEF AsObserved
<1>8. CASE ~(g.batch > gpu \/ ~g.unread) /\ ~cut
  <2>1. k = seen
    BY <1>4, <1>8
  <2> QED
    BY <1>1, <1>2, <1>3, <1>8, <2>1 DEF Typed, AsObserved
<1>9. CASE ~(g.batch > gpu \/ ~g.unread) /\ cut /\ g.cut
  <2>1. k = [seen EXCEPT !.pending = q]
    BY <1>4, <1>9
  <2>2. k \in Histories
    <3>1. \A x \in SUBSET Entries : [seen EXCEPT !.pending = x] \in Histories
      BY <1>2, Updates
    <3> QED
      BY <1>5, <2>1, <3>1, Zenon
  <2>3. /\ k.hold = seen.hold /\ k.grid = seen.grid /\ k.origin = seen.origin
        /\ k.prev = seen.prev /\ k.cur = seen.cur /\ k.src = seen.src /\ k.valid = seen.valid
        /\ k.base = seen.base /\ k.unread = seen.unread
        /\ k.pending = q /\ k.epoch = seen.epoch /\ k.recs = seen.recs
    BY <1>2, <2>1 DEF Histories
  <2> QED
    BY <1>3, <1>5, <1>9, <2>2, <2>3 DEF Typed, AsObserved
<1>10. CASE ~(g.batch > gpu \/ ~g.unread) /\ cut /\ ~g.cut
  <2>1. k = [seen EXCEPT !.pending = q, !.epoch = NoEpoch, !.recs = {}]
    BY <1>4, <1>10
  <2>2. k \in Histories
    <3>1. \A r \in SUBSET Records, e \in Epochs :
            [seen EXCEPT !.pending = q, !.epoch = e, !.recs = r] \in Histories
      BY <1>2, <1>5, Updates
    <3>2. {} \in SUBSET Records
      OBVIOUS
    <3> QED
      BY <1>6, <2>1, <3>1, <3>2, Zenon
  <2>3. /\ k.hold = seen.hold /\ k.grid = seen.grid /\ k.origin = seen.origin
        /\ k.prev = seen.prev /\ k.cur = seen.cur /\ k.src = seen.src /\ k.valid = seen.valid
        /\ k.base = seen.base /\ k.unread = seen.unread
        /\ k.pending = q /\ k.epoch = NoEpoch /\ k.recs = {}
    BY <1>2, <2>1 DEF Histories
  <2> QED
    BY <1>3, <1>5, <1>6, <1>10, <2>2, <2>3 DEF Typed, AsObserved
<1> QED
  BY <1>7, <1>8, <1>9, <1>10

\* The source time of the frame is noted.
Dated(g, s) == [g EXCEPT !.src = s]

\* A base layer whose frame is recorded: it opens a history, or joins it, with a pair or
\* without.
AsRecorded(g, k, f, s, scene, cut, most) ==
  /\ scene => k = Opened(Invalidated(g), f, s)
  /\ ~scene /\ ~g.valid => k = Opened(Based(g, f), f, s)
  /\ ~scene /\ g.valid /\ Pairs(g, scene) =>
       k = Dated(Planned(Observed(Noted(Based(g, f), f), cut), f, s, most), s)
  /\ ~scene /\ g.valid /\ ~Pairs(g, scene) =>
       k = Dated(Observed(Noted(Based(g, f), f), cut), s)

\* Recording is one of these.
LEMMA RecordedIs ==
  ASSUME NEW g, Typed(g), NEW scene \in BOOLEAN, NEW cut \in BOOLEAN, NEW most,
         NEW k, k = Recorded(g, scene, cut, most),
         NEW f, f = frame'.id, NEW s, s = frame'.src
  PROVE  AsRecorded(g, k, f, s, scene, cut, most)
<1> DEFINE old == IF scene THEN Invalidated(g) ELSE Based(g, f)
           kept == Noted(old, f)
           seen == Observed(kept, cut)
           done == IF Pairs(g, scene) THEN Planned(seen, f, s, most) ELSE seen
<1>1. k = IF ~old.valid THEN [kept EXCEPT !.valid = TRUE, !.src = s]
          ELSE [done EXCEPT !.src = s]
  BY DEF Recorded, Based, Noted
<1>2. Invalidated(g).valid = FALSE
  BY InvalidatedIs
<1>3. ASSUME ~scene PROVE old = Based(g, f) /\ old.valid = g.valid
  <2>1. old = Based(g, f)
    BY <1>3
  <2>2. g \in Histories
    BY DEF Typed
  <2>3. Based(g, f).valid = g.valid
    BY <2>2 DEF Histories, Based
  <2> QED
    BY <2>1, <2>3
<1>4. ASSUME scene PROVE k = Opened(Invalidated(g), f, s)
  BY <1>1, <1>2, <1>4 DEF Opened
<1>5. ASSUME ~scene, ~g.valid PROVE k = Opened(Based(g, f), f, s)
  BY <1>1, <1>3, <1>5 DEF Opened
<1>6. ASSUME ~scene, g.valid PROVE k = [done EXCEPT !.src = s] /\ old = Based(g, f)
  <2> HIDE DEF done, kept, old
  <2> QED
    BY <1>1, <1>3, <1>6
<1> QED
  BY <1>4, <1>5, <1>6 DEF AsRecorded, Dated

-----------------------------------------------------------------------------
(* A frame is recorded: what a plan starts from, and what recording leaves. *)

\* The frame is the current one, and the statistics of the last batch are read.
AsSeen(g, k, f, cut) ==
  /\ Typed(k) /\ k.hold = g.hold /\ k.grid = g.grid /\ k.origin = g.origin
  /\ k.prev = g.cur /\ k.cur = f /\ k.src = g.src /\ k.valid = g.valid /\ k.base = f
  /\ k.unread = TRUE => g.unread = TRUE
  /\ ~cut => k.pending = g.pending /\ k.epoch = g.epoch /\ k.recs = g.recs
  /\ cut => /\ k.pending = Real(g.pending)
            /\ \/ k.epoch = g.epoch /\ k.recs = g.recs
               \/ k.epoch.valid = FALSE /\ k.recs = {}

\* All that recording changes before the plan.
LEMMA SeenIs ==
  ASSUME gpu \in Int, NEW g, Typed(g), NEW f \in Int, NEW cut \in BOOLEAN,
         cut => g.unread = TRUE /\ g.batch <= gpu,
         NEW k, k = Observed(Noted(Based(g, f), f), cut)
  PROVE  AsSeen(g, k, f, cut)
<1> DEFINE b == Based(g, f)
           m == Noted(b, f)
<1>1. /\ Typed(b) /\ b.pending = g.pending /\ b.hold = g.hold /\ b.epoch = g.epoch
      /\ b.recs = g.recs /\ b.unread = g.unread /\ b.grid = g.grid /\ b.origin = g.origin
      /\ b.cur = g.cur /\ b.src = g.src /\ b.valid = g.valid /\ b.batch = g.batch
      /\ b.base = f
  BY BasedIs DEF AsBased
<1> HIDE DEF b
<1>2. /\ Typed(m) /\ m.pending = b.pending /\ m.hold = b.hold /\ m.epoch = b.epoch
      /\ m.recs = b.recs /\ m.unread = b.unread /\ m.grid = b.grid /\ m.origin = b.origin
      /\ m.prev = b.cur /\ m.cur = f /\ m.src = b.src /\ m.valid = b.valid
      /\ m.batch = b.batch /\ m.base = b.base
  BY <1>1, NotedIs
<1>3. k = Observed(m, cut)
  BY DEF b
<1> HIDE DEF m
<1>4. AsObserved(m, k, cut)
  BY <1>2, <1>3, ObservedIs, Zenon
<1>5. g.unread \in BOOLEAN
  BY EntryTypes
<1> QED
  BY <1>1, <1>2, <1>4, <1>5 DEF AsObserved, AsSeen

\* A history from which a plan can start.
Plannable(g, g0, f, s, n) ==
  /\ Poised(g0, g.cur, f, s, n)
  /\ g0.valid = TRUE /\ g0.base = f /\ g.cur \in Nat /\ n \in Nat
  /\ g0.pending \subseteq g.pending
  /\ Punctual /\ (Undue(g, s) \/ \A e \in g.pending : e.target > now)
       => Timely(g0, s)

\* A new frame, with the statistics of the last batch read, is ready to be planned: a cut
\* that they find leaves nothing of its scene in the queue.
LEMMA ObservedPoised ==
  ASSUME Types, gpu \in Int, NEW f \in Nat, f # 0, NEW s \in Nat, s # 0, s < Ticks * now,
         NEW g, Whole(g, f, s), g.valid, g.cur # f, NEW cut \in BOOLEAN,
         cut => g.unread /\ g.batch <= gpu,
         NEW g0, g0 = Observed(Noted(Based(g, f), f), cut),
         NEW n, n = IF cut THEN f - 1 ELSE since
  PROVE  Plannable(g, g0, f, s, n)
<1> DEFINE c == g.cur
<1>1. /\ Typed(g) /\ Linked(g, f, s) /\ Queue(g, since, f) /\ Sent(g, f, s)
      /\ Upto(g, c, g.src) /\ since <= c /\ Display(g, f, shown) /\ Steady(g, shown)
      /\ ~back => InOrder(g)
      /\ Punctual => OnTime(g, now)
  BY DEF Whole, Settled
<1>2. /\ now \in Nat /\ shown \in Int /\ since \in Nat /\ c \in Int /\ g.src \in Int
      /\ g.valid = TRUE /\ g.hold \in Int /\ f \in Int /\ s \in Int
  BY <1>1, EntryTypes DEF Types
<1>3. /\ 0 < c /\ c < f /\ 0 < g.src /\ g.src < s /\ c \in Nat
      /\ g.epoch.valid => g.grid # 0
  <2>1. g.cur > 0 /\ g.cur <= f /\ g.src > 0 /\ g.src <= s /\ (g.src = s <=> g.cur = f)
    BY <1>1 DEF Linked
  <2>2. g.epoch.valid => g.grid # 0
    BY <1>1 DEF Linked
  <2> QED
    BY <1>2, <2>1, <2>2
<1>7. /\ Typed(g0) /\ g0.hold = g.hold /\ g0.grid = g.grid /\ g0.origin = g.origin
      /\ g0.prev = c /\ g0.cur = f /\ g0.src = g.src /\ g0.valid = TRUE /\ g0.base = f
      /\ ~cut => g0.pending = g.pending /\ g0.epoch = g.epoch /\ g0.recs = g.recs
      /\ cut => /\ g0.pending = Real(g.pending)
                /\ \/ g0.epoch = g.epoch /\ g0.recs = g.recs
                   \/ g0.epoch.valid = FALSE /\ g0.recs = {}
  <2>1. g.unread \in BOOLEAN /\ (cut => g.unread = TRUE)
    BY <1>1, EntryTypes
  <2>2. cut => g.unread = TRUE /\ g.batch <= gpu
    BY <2>1
  <2>3. Typed(g) /\ f \in Int
    BY <1>1, <1>2
  <2>4. AsSeen(g, g0, f, cut)
    BY <2>2, <2>3, SeenIs, Zenon
  <2> QED
    BY <1>2, <2>4 DEF AsSeen
<1>8. g0.pending \subseteq g.pending /\ g0.recs \subseteq g.recs
  <2>1. Real(g.pending) \subseteq g.pending
    BY DEF Real
  <2> QED
    BY <1>7, <2>1
<1>9. (~cut => n = since) /\ (cut => n = f - 1) /\ n \in Nat /\ n < f /\ (n <= c \/ n = f - 1)
  BY <1>1, <1>2, <1>3
<1>10. g0.epoch.valid => g.epoch.valid /\ g0.epoch = g.epoch
  BY <1>7
<1>11. ASSUME cut, NEW e \in g0.pending PROVE ~New(e, n)
  <2>1. e.id <= c /\ e.id \in Int
    BY <1>1, <1>8, EntryTypes DEF Upto
  <2> QED
    BY <1>2, <1>3, <1>9, <1>11, <2>1 DEF New
<1>12. Queue(g0, n, f)
  <2>1. CASE ~cut
    BY <1>1, <1>7, <1>9, <2>1 DEF Queue
  <2>2. CASE cut
    <3>1. \A e \in g0.pending : e.real /\ ~New(e, n)
      BY <1>7, <1>11, <2>2 DEF Real
    <3>2. \A e, d \in g0.pending : e.target = d.target => e = d
      BY <1>1, <1>8 DEF Queue
    <3>3. \A e \in g0.pending : /\ e.content > 0 /\ e.content <= 2 * e.id /\ e.id <= f
                                /\ e.real => ~Made(e.content)
      BY <1>1, <1>8 DEF Queue
    <3> QED
      BY <3>1, <3>2, <3>3 DEF Queue
  <2> QED
    BY <2>1, <2>2
<1>13. Upto(g0, c, g0.src)
  BY <1>1, <1>7, <1>8 DEF Upto
<1>14. g0.hold = shown /\ g0.hold <= 2 * c
  BY <1>1, <1>2, <1>7 DEF Steady, Display
<1>15. \A i \in DOMAIN flight :
         /\ flight[i].id <= c /\ (flight[i].id = c => g0.src < Ticks * flight[i].at)
         /\ \A r \in g0.recs : r.id = flight[i].id => r.src < Ticks * flight[i].at
  BY <1>1, <1>7, <1>8 DEF Sent
<1>16. ASSUME Calm(n)
       PROVE  Order(g0, n, c) /\ Mapped(g0, n, g0.src) /\ Behind(g0, n, shown)
  <2>1. CASE ~cut
    <3>1. InOrder(g) /\ n = since
      BY <1>1, <1>9, <1>16, <2>1 DEF Calm
    <3>2. Order(g, n, c) /\ Mapped(g, n, g.src) /\ Behind(g, n, shown)
      BY <3>1 DEF InOrder
    <3>3. Order(g0, n, c)
      BY <1>7, <2>1, <3>2 DEF Order
    <3>4. Target(g0, g0.src) = Target(g, g.src)
      BY <1>7, <2>1 DEF Target, Ideal
    <3>5. Mapped(g0, n, g0.src)
      BY <1>7, <2>1, <3>2, <3>4 DEF Mapped
    <3>6. Behind(g0, n, shown)
      BY <1>7, <2>1, <3>2 DEF Behind
    <3> QED
      BY <3>3, <3>5, <3>6
  <2>2. CASE cut
    <3>1. \A e \in g0.pending : ~New(e, n)
      BY <1>11, <2>2
    <3> QED
      BY <1>2, <1>14, <3>1 DEF Order, Mapped, Behind, New
  <2> QED
    BY <2>1, <2>2
<1>17. ASSUME Punctual, Undue(g, s) \/ \A e \in g.pending : e.target > now
       PROVE  Timely(g0, s)
  <2>1. OnTime(g, now)
    BY <1>1, <1>17
  <2>2. \A e \in g0.pending : e.target >= now
    BY <1>8, <2>1 DEF OnTime
  <2>3. g0.epoch.valid => g0.epoch.disp > g0.epoch.src
    BY <1>10, <2>1 DEF OnTime
  <2>4. Undue(g, s) => Undue(g0, s)
    BY <1>10 DEF Undue, Ideal
  <2> QED
    BY <1>8, <1>17, <2>2, <2>3, <2>4 DEF Timely
<1>18. Poised(g0, c, f, s, n)
  BY <1>3, <1>7, <1>9, <1>10, <1>12, <1>13, <1>14, <1>15, <1>16 DEF Poised
<1> QED
  BY <1>3, <1>7, <1>8, <1>9, <1>17, <1>18 DEF Plannable

\* A frame that pairs with the one before.
Pairable(g, f, s, cut, n) ==
  /\ Whole(g, f, s) /\ g.valid /\ g.cur # f
  /\ Punctual => Undue(g, s) \/ \A e \in g.pending : e.target > now
  /\ cut \in BOOLEAN /\ (cut => g.unread /\ g.batch <= gpu)
  /\ n = IF cut THEN f - 1 ELSE since

\* A pair that is planned leaves a history that is done.
LEMMA PairDone ==
  ASSUME Types, gpu \in Int, NEW f \in Nat, f # 0, NEW s \in Nat, s # 0, s < Ticks * now,
         NEW g, NEW cut, NEW n, Pairable(g, f, s, cut, n), NEW most,
         NEW g0, g0 = Observed(Noted(Based(g, f), f), cut),
         NEW p, p = Planned(g0, f, s, most), NEW k, k = Dated(p, s)
  PROVE  Done(k, f, s, n) /\ k.hold # None
<1>1. /\ Poised(g0, g.cur, f, s, n)
      /\ g0.valid = TRUE /\ g0.base = f /\ g.cur \in Nat /\ n \in Nat
      /\ g0.pending \subseteq g.pending
      /\ Punctual /\ (Undue(g, s) \/ \A e \in g.pending : e.target > now)
           => Timely(g0, s)
  <2>1. Plannable(g, g0, f, s, n)
    BY ObservedPoised, Zenon DEF Pairable
  <2> QED
    BY <2>1 DEF Plannable
<1>0. /\ Whole(g, f, s)
      /\ Punctual => Undue(g, s) \/ \A e \in g.pending : e.target > now
      /\ g.valid
  BY DEF Pairable
<1>2. /\ Typed(g) /\ Display(g, f, shown) /\ g.hold = shown /\ g.hold # None
      /\ shown \in Int /\ now \in Nat /\ shown <= 2 * g.cur
  BY <1>0 DEF Whole, Settled, Steady, Types, Display
<1>3. /\ g0.hold = shown /\ g0.prev = g.cur /\ g0.cur = f
  BY <1>1 DEF Poised
<1>4. f \in Int /\ s \in Int /\ n \in Int /\ g.cur \in Int
  BY <1>1
<1>5. /\ Fit(p, f, s, n) /\ Kept(g0, p) /\ Adds(g0, p)
      /\ Timely(g0, s) => Ahead(p) /\ Single(p)
  BY <1>1, <1>4, PlannedFit
<1>6. k = [p EXCEPT !.src = s]
  BY DEF Dated
<1>7. /\ Typed(p) /\ p \in Histories
  BY <1>5 DEF Fit, Typed
<1>8. /\ Typed(k) /\ k.pending = p.pending /\ k.epoch = p.epoch /\ k.recs = p.recs
      /\ k.grid = p.grid /\ k.origin = p.origin /\ k.hold = p.hold /\ k.cur = p.cur
      /\ k.base = p.base /\ k.valid = p.valid /\ k.unread = p.unread /\ k.src = s
  <2>1. k \in Histories
    <3>1. \A x \in Int : [p EXCEPT !.src = x] \in Histories
      BY <1>7, Updates
    <3> QED
      BY <1>4, <1>6, <3>1, Zenon
  <2>2. /\ k.pending = p.pending /\ k.epoch = p.epoch /\ k.recs = p.recs
        /\ k.grid = p.grid /\ k.origin = p.origin /\ k.hold = p.hold /\ k.cur = p.cur
        /\ k.base = p.base /\ k.valid = p.valid /\ k.unread = p.unread /\ k.src = s
    BY <1>6, <1>7 DEF Histories
  <2> QED
    BY <1>7, <2>1, <2>2 DEF Typed
<1>9. k.hold = shown /\ k.cur = f /\ k.valid = TRUE /\ k.base = f
  BY <1>1, <1>3, <1>5, <1>8 DEF Kept
<1>10. Fit(k, f, s, n)
  <2>1. \A x : Target(k, x) = Target(p, x)
    BY <1>8 DEF Target, Ideal
  <2>2. /\ Queue(p, n, f) => Queue(k, n, f)
        /\ Upto(p, f, s) => Upto(k, f, s)
        /\ Order(p, n, f) => Order(k, n, f)
        /\ Mapped(p, n, s) => Mapped(k, n, s)
        /\ Behind(p, n, shown) => Behind(k, n, shown)
        /\ Reported(p, n, f, flight) => Reported(k, n, f, flight)
        /\ Arrives(p, f, shown) => Arrives(k, f, shown)
    BY <1>8, <2>1 DEF Queue, Upto, Order, Mapped, Behind, Reported, Arrives
  <2> QED
    BY <1>5, <1>8, <1>9, <2>2 DEF Fit
<1>11. Linked(k, f, s)
  <2>1. k.cur # None /\ k.base # None /\ k.valid = (k.cur # None) /\ k.base \in {None, k.cur}
    BY <1>9 DEF None
  <2>2. k.cur > 0 /\ k.cur <= f /\ k.src > 0 /\ k.src <= s /\ k.src = s /\ k.cur = f
    BY <1>8, <1>9
  <2>3. k.epoch.valid => k.grid # 0
    BY <1>10 DEF Fit
  <2> QED
    BY <2>1, <2>2, <2>3 DEF Linked
<1>12. Display(k, f, shown)
  <2>1. /\ shown <= 2 * f /\ k.hold = shown /\ k.hold # None /\ shown <= 2 * k.cur
    BY <1>2, <1>9 DEF Display
  <2> QED
    BY <2>1 DEF Display
<1>13. ASSUME Punctual PROVE Single(k) /\ (k.epoch.valid => k.epoch.disp > k.epoch.src)
  <2>1. Ahead(p) /\ Single(p)
    BY <1>0, <1>1, <1>5, <1>13
  <2> QED
    BY <1>8, <2>1 DEF Ahead, Single
<1>14. ASSUME ~back PROVE Onward(k)
  <2>1. Onward(g)
    BY <1>0, <1>14, WholeOnward
  <2>2. ASSUME NEW e \in k.pending PROVE e.content >= shown \/ e.content <= 2 * since
    <3>1. CASE e \in g0.pending
      BY <1>1, <2>1, <3>1 DEF Onward
    <3>2. CASE e.content >= 2 * g.cur
      <4>1. e.content \in Int
        BY <1>8, EntryTypes
      <4> QED
        BY <1>2, <1>4, <3>2, <4>1
    <3> QED
      BY <1>3, <1>5, <1>8, <3>1, <3>2 DEF Adds
  <2> QED
    BY <1>2, <1>9, <2>2 DEF Onward
<1> QED
  BY <1>2, <1>8, <1>9, <1>10, <1>11, <1>12, <1>13, <1>14 DEF Done

\* What recording frame `f' may find: a new scene, or a cut in the last batch of the old.
Found(g, f, scene, cut, n) ==
  /\ scene \in BOOLEAN /\ cut \in BOOLEAN
  /\ n = IF scene THEN f ELSE IF cut THEN f - 1 ELSE since
  /\ cut => since < f /\ ((g.unread /\ g.batch <= gpu) \/ (~g.valid /\ g.pending = {}))

\* The first frame of a history: the queue has nothing of its scene.
LEMMA OpenedDone ==
  ASSUME Types, NEW f \in Nat, f # 0, NEW s \in Nat, s # 0, s < Ticks * now,
         NEW g, Whole(g, f, s), NEW n \in Nat,
         NEW w, Typed(w), w.pending \subseteq g.pending, Queue(w, n, f), w.hold = g.hold,
         Calm(n) => (\A e \in w.pending : ~New(e, n)) /\ (g.hold >= shown \/ g.hold <= 2 * n),
         w.base \in {None, f}, w.epoch.valid = FALSE, w.recs = {}, w.unread = FALSE,
         NEW k, k = Opened(w, f, s)
  PROVE  Done(k, f, s, n)
<1>0. f \in Int /\ s \in Int /\ f \in Nat \ {0} /\ s \in Nat \ {0}
  OBVIOUS
<1>1. /\ Typed(k) /\ k.pending = w.pending /\ k.hold = w.hold /\ k.epoch = w.epoch
      /\ k.recs = w.recs /\ k.base = w.base /\ k.unread = w.unread
      /\ k.cur = f /\ k.src = s /\ k.valid = TRUE
  <2>1. AsOpened(w, k, f, s)
    BY <1>0, OpenedIs, Zenon
  <2> QED
    BY <2>1 DEF AsOpened
<1>2. Queue(k, n, f)
  BY <1>1 DEF Queue
<1>3. k.pending \subseteq g.pending /\ k.base \in {None, f} /\ k.epoch.valid = FALSE
      /\ k.recs = {} /\ k.unread = FALSE /\ k.hold = g.hold
  BY <1>1
<1>4. Calm(n) => (\A e \in k.pending : ~New(e, n)) /\ (k.hold >= shown \/ k.hold <= 2 * n)
  BY <1>1
<1> QED
  BY <1>0, <1>1, <1>2, <1>3, <1>4, Alone

\* A frame that is recorded again, without its texture before: nothing is planned.
LEMMA AgainDone ==
  ASSUME Types, gpu \in Int, NEW f \in Nat, f # 0, NEW s \in Nat, s # 0, s < Ticks * now,
         NEW g, Whole(g, f, s), g.valid = TRUE, g.cur = f, g.base # f,
         NEW cut \in BOOLEAN, ~cut,
         NEW k, k = Dated(Observed(Noted(Based(g, f), f), cut), s)
  PROVE  Done(k, f, s, since)
<1> DEFINE g0 == Observed(Noted(Based(g, f), f), cut)
<1>1. /\ Typed(g) /\ Linked(g, f, s) /\ Queue(g, since, f) /\ (~back => InOrder(g))
      /\ since \in Nat /\ f \in Int /\ s \in Int
  BY DEF Whole, Settled, Types
<1>2. g.base = None /\ g.unread = FALSE /\ g.epoch.valid = FALSE /\ g.recs = {}
  BY <1>1, EntryTypes DEF Linked
<1>3. AsSeen(g, g0, f, cut)
  BY <1>1, SeenIs, Zenon
<1>4. k = [g0 EXCEPT !.src = s]
  BY DEF Dated
<1> HIDE DEF g0
<1>5. /\ Typed(g0) /\ g0 \in Histories /\ g0.hold = g.hold /\ g0.cur = f /\ g0.valid = g.valid
      /\ g0.base = f /\ (g0.unread = TRUE => g.unread = TRUE)
      /\ g0.pending = g.pending /\ g0.epoch = g.epoch /\ g0.recs = g.recs
  BY <1>3 DEF AsSeen, Typed
<1>6. g0.unread = FALSE
  BY <1>2, <1>5, EntryTypes
<1>7. /\ Typed(k) /\ k.hold = g.hold /\ k.cur = f /\ k.valid = TRUE /\ k.base = f /\ k.src = s
      /\ k.unread = FALSE /\ k.pending = g.pending /\ k.epoch.valid = FALSE /\ k.recs = {}
  <2>1. k \in Histories
    BY <1>1, <1>4, <1>5, Updates
  <2>2. /\ k.hold = g0.hold /\ k.cur = g0.cur /\ k.valid = g0.valid /\ k.base = g0.base
        /\ k.src = s /\ k.unread = g0.unread /\ k.pending = g0.pending
        /\ k.epoch = g0.epoch /\ k.recs = g0.recs
    BY <1>4, <1>5 DEF Histories
  <2> QED
    BY <1>2, <1>5, <1>6, <2>1, <2>2 DEF Typed
<1>8. Queue(k, since, f)
  BY <1>1, <1>7 DEF Queue
<1>9. ASSUME Calm(since)
      PROVE  (\A e \in k.pending : ~New(e, since)) /\ (k.hold >= shown \/ k.hold <= 2 * since)
  <2>1. InOrder(g)
    BY <1>1, <1>9 DEF Calm
  <2> QED
    BY <1>2, <1>7, <2>1 DEF InOrder, Mapped, Behind
<1>10. f \in Nat \ {0} /\ s \in Nat \ {0} /\ k.pending \subseteq g.pending
       /\ k.base \in {None, f}
  BY <1>7
<1> QED
  BY <1>1, <1>7, <1>8, <1>9, <1>10, Alone

\* A history that is not valid.
Idle(g) ==
  /\ g.epoch.valid = FALSE /\ g.recs = {} /\ g.base = None
  /\ ~back => \A e \in g.pending : ~New(e, since)

\* An invalid history is idle.
LEMMA IdleIs ==
  ASSUME NEW f, NEW s, NEW g, Whole(g, f, s), ~g.valid
  PROVE  Idle(g)
BY NoneNew DEF Idle

\* Whatever recording a frame finds.
LEMMA RecordedDone ==
  ASSUME Types, gpu \in Int, NEW f \in Nat, f # 0, NEW s \in Nat, s # 0, s < Ticks * now,
         f = frame'.id, s = frame'.src,
         NEW g, Whole(g, f, s), g.base # f,
         Punctual /\ g.valid /\ g.cur # f =>
           Undue(g, s) \/ \A e \in g.pending : e.target > now,
         NEW scene, NEW cut, NEW n, Found(g, f, scene, cut, n), NEW most,
         NEW k, k = Recorded(g, scene, cut, most)
  PROVE  Done(k, f, s, n) /\ (Pairs(g, scene) => k.hold # None)
<1>1. /\ Typed(g) /\ Linked(g, f, s) /\ Queue(g, since, f) /\ Display(g, f, shown)
      /\ ~back => InOrder(g)
  BY DEF Whole, Settled
<1>2. /\ scene \in BOOLEAN /\ cut \in BOOLEAN
      /\ n = IF scene THEN f ELSE IF cut THEN f - 1 ELSE since
      /\ cut => since < f /\ ((g.unread /\ g.batch <= gpu) \/ (~g.valid /\ g.pending = {}))
  BY DEF Found
<1>3. /\ since \in Nat /\ n \in Nat /\ f \in Int /\ s \in Int /\ g.hold \in Int /\ shown \in Int
      /\ g.valid \in BOOLEAN
  BY <1>1, <1>2, EntryTypes DEF Types
<1>4. /\ scene => k = Opened(Invalidated(g), f, s)
      /\ ~scene /\ ~g.valid => k = Opened(Based(g, f), f, s)
      /\ ~scene /\ g.valid /\ Pairs(g, scene) =>
           k = Dated(Planned(Observed(Noted(Based(g, f), f), cut), f, s, most), s)
      /\ ~scene /\ g.valid /\ ~Pairs(g, scene) =>
           k = Dated(Observed(Noted(Based(g, f), f), cut), s)
  <2>1. AsRecorded(g, k, f, s, scene, cut, most)
    BY <1>1, <1>2, RecordedIs, Zenon
  <2> QED
    BY <2>1 DEF AsRecorded
<1>5. CASE scene
  <2> DEFINE w == Invalidated(g)
  <2>1. /\ Typed(w) /\ w.pending = Real(g.pending) /\ w.hold = g.hold
        /\ w.epoch.valid = FALSE /\ w.recs = {} /\ w.base = None /\ w.unread = FALSE
    BY <1>1, InvalidatedIs
  <2>2. k = Opened(w, f, s) /\ n = f
    BY <1>2, <1>4, <1>5
  <2> HIDE DEF w
  <2>3. w.pending \subseteq g.pending /\ \A e \in w.pending : e.real
    BY <2>1 DEF Real
  <2>4. \A e \in w.pending : ~New(e, n)
    <3>1. \A e \in g.pending : e.id <= f /\ e.id \in Int
      BY <1>1, EntryTypes DEF Queue
    <3> QED
      BY <1>3, <2>2, <2>3, <3>1 DEF New
  <2>5. Queue(w, n, f)
    BY <1>1, <2>3, <2>4 DEF Queue
  <2>6. g.hold <= 2 * n
    BY <1>1, <2>2 DEF Display
  <2>7. Done(k, f, s, n)
    BY <1>3, <2>1, <2>2, <2>3, <2>4, <2>5, <2>6, OpenedDone
  <2> QED
    BY <1>5, <2>7 DEF Pairs
<1>6. CASE ~scene /\ ~g.valid
  <2> DEFINE w == Based(g, f)
  <2>1. /\ g.epoch.valid = FALSE /\ g.recs = {} /\ g.base = None
        /\ ~back => \A e \in g.pending : ~New(e, since)
    <3>1. Idle(g)
      BY <1>6, IdleIs, Zenon
    <3> QED
      BY <3>1 DEF Idle
  <2>2. g.unread = FALSE
    BY <1>1, <2>1, EntryTypes DEF Linked
  <2>3. /\ Typed(w) /\ w.pending = g.pending /\ w.hold = g.hold /\ w.epoch = g.epoch
        /\ w.recs = g.recs /\ w.unread = g.unread /\ w.base = f
    <3>1. AsBased(g, w, f)
      BY <1>1, <1>3, BasedIs, Zenon
    <3> QED
      BY <3>1 DEF AsBased
  <2>4. k = Opened(w, f, s)
    BY <1>4, <1>6
  <2> HIDE DEF w
  <2>5. (~cut => n = since) /\ (cut => n = f - 1 /\ g.pending = {})
    BY <1>2, <1>6, <2>2
  <2>6. Queue(w, n, f)
    BY <1>1, <2>3, <2>5 DEF Queue
  <2>7. ASSUME Calm(n)
        PROVE  (\A e \in w.pending : ~New(e, n)) /\ (g.hold >= shown \/ g.hold <= 2 * n)
    <3>1. CASE cut
      <4>1. g.hold >= shown \/ g.hold <= 2 * (f - 1)
        BY <1>1, HeldLast
      <4> QED
        BY <2>3, <2>5, <3>1, <4>1
    <3>2. CASE ~cut
      <4>1. ~back /\ n = since
        BY <2>5, <2>7, <3>2 DEF Calm
      <4> QED
        BY <1>1, <2>1, <2>3, <4>1 DEF InOrder, Behind
    <3> QED
      BY <3>1, <3>2
  <2>8. /\ w.pending \subseteq g.pending /\ w.base \in {None, f} /\ w.epoch.valid = FALSE
        /\ w.recs = {} /\ w.unread = FALSE
    BY <2>1, <2>2, <2>3
  <2>9. Done(k, f, s, n)
    BY <1>3, <2>3, <2>4, <2>6, <2>7, <2>8, OpenedDone
  <2> QED
    BY <1>6, <2>9 DEF Pairs
<1>7. CASE ~scene /\ g.valid /\ g.cur # f
  <2>1. Pairs(g, scene)
    <3>1. g.cur > 0 /\ g.src > 0 /\ g.src <= s /\ g.src # s /\ g.src \in Int /\ g.cur \in Int
      BY <1>1, <1>7, EntryTypes DEF Linked
    <3> QED
      BY <1>3, <1>7, <3>1 DEF Pairs, None
  <2>2. (cut => g.unread /\ g.batch <= gpu) /\ n = IF cut THEN f - 1 ELSE since
    BY <1>2, <1>7
  <2> DEFINE g0 == Observed(Noted(Based(g, f), f), cut)
             p == Planned(g0, f, s, most)
  <2>3. k = Dated(p, s)
    BY <1>4, <1>7, <2>1
  <2>4. Punctual => Undue(g, s) \/ \A e \in g.pending : e.target > now
    BY <1>7
  <2>5. g.valid /\ g.cur # f
    BY <1>7
  <2>6. Done(k, f, s, n) /\ k.hold # None
    <3>1. Pairable(g, f, s, cut, n)
      BY <1>2, <2>2, <2>4, <2>5 DEF Pairable
    <3> HIDE DEF g0, p
    <3>2. g0 = Observed(Noted(Based(g, f), f), cut) /\ p = Planned(g0, f, s, most)
      BY DEF g0, p
    <3> QED
      BY <2>3, <3>1, <3>2, PairDone, Zenon
  <2> QED
    BY <2>6
<1>8. CASE ~scene /\ g.valid /\ g.cur = f
  <2>1. g.base = None /\ g.unread = FALSE /\ g.src = s
    BY <1>1, <1>8, EntryTypes DEF Linked
  <2>2. ~cut /\ n = since
    BY <1>2, <1>8, <2>1
  <2>3. ~Pairs(g, scene)
    BY <1>3, <2>1 DEF Pairs
  <2>4. k = Dated(Observed(Noted(Based(g, f), f), cut), s)
    BY <1>4, <1>8, <2>3
  <2>5. g.valid = TRUE /\ g.cur = f
    BY <1>3, <1>8
  <2>6. Done(k, f, s, since)
    BY <1>2, <2>2, <2>4, <2>5, AgainDone, Zenon
  <2> QED
    BY <2>2, <2>3, <2>6
<1> QED
  BY <1>2, <1>3, <1>5, <1>6, <1>7, <1>8

-----------------------------------------------------------------------------
(* Interpolations that are late or unfinished go.                          *)

\* One of them.
Catch(k) == IF k.pending = {} \/ ~Stale(k) THEN k ELSE [k EXCEPT !.pending = @ \ {Front(@)}]

\* The queue after each of them.
Catches(F, g, N) ==
  F = [n \in 0..N |-> IF n = 0 THEN g
                      ELSE IF F[n - 1].pending = {} \/ ~Stale(F[n - 1]) THEN F[n - 1]
                      ELSE [F[n - 1] EXCEPT !.pending = @ \ {Front(@)}]]

\* There is such a run.
LEMMA CatchRuns ==
  ASSUME NEW g, NEW N \in Nat
  PROVE  \E F : Catches(F, g, N)
<1> DEFINE Runs(F, m) == F = [n \in 0..m |-> IF n = 0 THEN g ELSE Catch(F[n - 1])]
           bad == {m \in Nat : ~\E F : Runs(F, m)}
<1>1. ASSUME bad # {} PROVE FALSE
  <2>1. bad \in SUBSET Nat
    OBVIOUS
  <2> HIDE DEF bad
  <2>2. PICK c \in bad : \A d \in bad : c <= d
    BY <1>1, <2>1, Smallest
  <2>3. c \in Nat /\ ~\E F : Runs(F, c)
    BY <2>2 DEF bad
  <2>4. CASE c = 0
    <3>1. [n \in 0..0 |-> g] = [n \in 0..0 |-> IF n = 0 THEN g
                                              ELSE Catch([m \in 0..0 |-> g][n - 1])]
      OBVIOUS
    <3>2. Runs([n \in 0..0 |-> g], 0)
      BY <3>1
    <3> QED
      BY <2>3, <2>4, <3>2
  <2>5. CASE c # 0
    <3>1. c - 1 \in Nat /\ c - 1 \notin bad
      BY <2>2, <2>3, <2>5
    <3>2. PICK F : Runs(F, c - 1)
      BY <3>1 DEF bad
    <3> DEFINE G == [n \in 0..c |-> IF n = c THEN Catch(F[c - 1]) ELSE F[n]]
    <3>3. \A n \in 0..(c - 1) : F[n] = IF n = 0 THEN g ELSE Catch(F[n - 1])
      BY <3>2
    <3>4. \A n \in 0..c : G[n] = IF n = 0 THEN g ELSE Catch(G[n - 1])
      <4> TAKE n \in 0..c
      <4>1. CASE n = c
        <5>1. G[n] = Catch(F[c - 1])
          BY <4>1
        <5>2. G[c - 1] = F[c - 1]
          BY <2>3, <2>5
        <5> QED
          BY <2>5, <4>1, <5>1, <5>2
      <4>2. CASE n # c
        <5>1. n \in 0..(c - 1) /\ G[n] = F[n]
          BY <2>3, <4>2
        <5>2. n # 0 => n - 1 \in 0..c /\ n - 1 # c
          BY <2>3
        <5>3. n # 0 => G[n - 1] = F[n - 1]
          BY <5>2
        <5> HIDE DEF G
        <5> QED
          BY <3>3, <5>1, <5>3
      <4> QED
        BY <4>1, <4>2
    <3>5. G = [n \in 0..c |-> IF n = 0 THEN g ELSE Catch(G[n - 1])]
      <4>1. G = [n \in 0..c |-> G[n]]
        OBVIOUS
      <4> HIDE DEF G
      <4> QED
        BY <3>4, <4>1
    <3> QED
      BY <2>3, <3>5
  <2> QED
    BY <2>4, <2>5
<1>2. \E F : Runs(F, N)
  BY <1>1
<1>3. PICK F : Runs(F, N)
  BY <1>2
<1>4. Catches(F, g, N)
  BY <1>3 DEF Catches, Catch
<1> QED
  BY <1>4

\* Only the queue has changed, and all its real entries are left.
LEMMA CaughtIs ==
  ASSUME NEW g, Typed(g)
  PROVE  \E q \in SUBSET g.pending : /\ \A e \in g.pending : e.real => e \in q
                                     /\ Caught(g) = [g EXCEPT !.pending = q]
<1> DEFINE N == Cardinality(g.pending)
           F == CHOOSE x : Catches(x, g, N)
<1>1. N \in Nat
  BY EntryTypes, FS_CardinalityType
<1>2. Caught(g) = F[N]
  BY DEF Caught, Catches
<1> HIDE DEF N
<1>3. Catches(F, g, N)
  BY <1>1, CatchRuns
<1> HIDE DEF F
<1>4. \A n \in 0..N : F[n] = IF n = 0 THEN g ELSE Catch(F[n - 1])
  BY <1>3 DEF Catches, Catch
<1> DEFINE Good(n) == \E q \in SUBSET g.pending : /\ \A e \in g.pending : e.real => e \in q
                                                  /\ F[n] = [g EXCEPT !.pending = q]
           bad == {n \in Nat : n <= N /\ ~Good(n)}
<1>5. ASSUME bad # {} PROVE FALSE
  <2>1. bad \in SUBSET Nat
    OBVIOUS
  <2>2. PICK c \in bad : \A d \in bad : c <= d
    BY <1>5, <2>1, Smallest
  <2>3. c \in Nat /\ c <= N /\ ~Good(c)
    BY <2>2
  <2>4. CASE c = 0
    <3>1. F[0] = g
      BY <1>1, <1>4
    <3>2. g = [g EXCEPT !.pending = g.pending]
      BY DEF Typed, Histories
    <3>3. Good(0)
      BY <3>1, <3>2
    <3> QED
      BY <2>3, <2>4, <3>3
  <2>5. CASE c # 0
    <3>1. c - 1 \in Nat /\ c - 1 <= N /\ ~(c <= c - 1) /\ c \in 0..N
      BY <1>1, <2>3, <2>5
    <3>2. Good(c - 1)
      BY <2>2, <3>1
    <3>3. F[c] = Catch(F[c - 1])
      BY <1>4, <2>5, <3>1
    <3> DEFINE p == F[c - 1]
    <3>4. PICK q \in SUBSET g.pending : /\ \A e \in g.pending : e.real => e \in q
                                        /\ p = [g EXCEPT !.pending = q]
      BY <3>2
    <3>5. F[c] = Catch(p)
      BY <3>3
    <3> HIDE DEF p
    <3>6. Typed(p) /\ p.pending = q
      BY <3>4, Without
    <3>7. CASE p.pending = {} \/ ~Stale(p)
      <4>1. F[c] = p
        BY <3>5, <3>7 DEF Catch
      <4>2. Good(c)
        BY <3>4, <4>1
      <4> QED
        BY <2>3, <4>2
    <3>8. CASE ~(p.pending = {} \/ ~Stale(p))
      <4> DEFINE r == q \ {Front(q)}
      <4>1. F[c] = [p EXCEPT !.pending = r]
        BY <3>5, <3>6, <3>8 DEF Catch
      <4>2. r \in SUBSET g.pending /\ \A e \in g.pending : e.real => e \in r
        <5>1. ~Front(q).real
          BY <3>6, <3>8 DEF Stale
        <5> QED
          BY <3>4, <5>1
      <4> HIDE DEF r
      <4>3. F[c] = [g EXCEPT !.pending = r]
        BY <3>4, <4>1 DEF Typed, Histories
      <4>4. Good(c)
        BY <4>2, <4>3
      <4> QED
        BY <2>3, <4>4
    <3> QED
      BY <3>7, <3>8
  <2> QED
    BY <2>4, <2>5
<1>6. Good(N)
  BY <1>1, <1>5
<1> QED
  BY <1>2, <1>6

-----------------------------------------------------------------------------
(* What is shown.                                                          *)

\* A history whose queue is about to be shown, `n' the last frame of the scenes before.
Held(g, f, s, n) ==
  /\ Typed(g) /\ Linked(g, f, s) /\ Queue(g, n, f) /\ Sent(g, f, s)
  /\ g.valid /\ Upto(g, g.cur, g.src) /\ n <= g.cur /\ Display(g, f, shown)
  /\ Calm(n) => /\ Order(g, n, g.cur) /\ Mapped(g, n, g.src) /\ Behind(g, n, shown)
                /\ Reported(g, n, g.cur, flight) /\ (n = 0 => Arrives(g, g.cur, shown))
  /\ ~back => Onward(g)
  /\ Punctual => Single(g) /\ (g.epoch.valid => g.epoch.disp > g.epoch.src)

\* A frame that has been recorded.
LEMMA DoneHeld ==
  ASSUME NEW f \in Nat, NEW s, NEW n, n <= f, NEW g, Done(g, f, s, n)
  PROVE  Held(g, f, s, n) /\ g.cur = f
<1>1. /\ Fit(g, f, s, n) /\ Linked(g, f, s) /\ Display(g, f, shown) /\ g.valid /\ g.src = s
      /\ Punctual => Single(g) /\ (g.epoch.valid => g.epoch.disp > g.epoch.src)
      /\ ~back => Onward(g)
  BY DEF Done
<1>2. /\ Typed(g) /\ g.cur = f /\ Queue(g, n, f) /\ Upto(g, f, s)
      /\ \A i \in DOMAIN flight :
           /\ flight[i].id <= f /\ (flight[i].id = f => s < Ticks * flight[i].at)
           /\ \A r \in g.recs : r.id = flight[i].id => r.src < Ticks * flight[i].at
      /\ Calm(n) => /\ Order(g, n, f) /\ Mapped(g, n, s)
                    /\ Behind(g, n, shown) /\ Reported(g, n, f, flight)
                    /\ n = 0 => Arrives(g, f, shown)
  BY <1>1 DEF Fit
<1>3. Sent(g, f, s)
  BY <1>1, <1>2 DEF Sent
<1> QED
  BY <1>1, <1>2, <1>3 DEF Held

\* A history in which nothing new is recorded.
LEMMA WholeHeld ==
  ASSUME Types, NEW f \in Nat, NEW s \in Nat, NEW g, Whole(g, f, s), g.valid
  PROVE  Held(g, f, s, since)
<1>1. /\ Typed(g) /\ Linked(g, f, s) /\ Queue(g, since, f) /\ Sent(g, f, s)
      /\ Upto(g, g.cur, g.src) /\ since <= g.cur /\ Display(g, f, shown)
      /\ ~back => InOrder(g)
      /\ Punctual => OnTime(g, now)
  BY DEF Whole, Settled
<1>2. ASSUME Calm(since)
      PROVE  /\ Order(g, since, g.cur) /\ Mapped(g, since, g.src) /\ Behind(g, since, shown)
             /\ Reported(g, since, g.cur, flight) /\ (since = 0 => Arrives(g, g.cur, shown))
  BY <1>1, <1>2 DEF Calm, InOrder
<1>3. ~back => Onward(g)
  BY WholeOnward
<1>4. ASSUME Punctual PROVE Single(g) /\ (g.epoch.valid => g.epoch.disp > g.epoch.src)
  <2>1. OnTime(g, now)
    BY <1>1, <1>4
  <2>2. ASSUME NEW e \in g.pending, NEW d \in g.pending, e.target <= now, d.target <= now
        PROVE  e = d
    <3>1. e.target >= now /\ d.target >= now /\ e.target \in Int /\ d.target \in Int
      BY <1>1, <2>1, EntryTypes DEF OnTime
    <3>2. e.target = d.target
      BY <2>2, <3>1 DEF Types
    <3> QED
      BY <1>1, <3>2 DEF Queue
  <2>3. g.epoch.valid => g.epoch.disp > g.epoch.src
    BY <2>1 DEF OnTime
  <2> QED
    BY <2>2, <2>3 DEF Single
<1> QED
  BY <1>1, <1>2, <1>3, <1>4 DEF Held

\* Generated entries may leave its queue.
Leaner(g, k) == Same(g, k) /\ k.epoch = g.epoch /\ k.recs = g.recs /\ k.grid = g.grid

\* What is left of the history still is to be shown.
LEMMA HeldWithout ==
  ASSUME NEW f, NEW s, NEW n, NEW g, Held(g, f, s, n),
         NEW q \in SUBSET g.pending, \A e \in g.pending : e.real => e \in q,
         NEW k, k = [g EXCEPT !.pending = q]
  PROVE  Held(k, f, s, n) /\ Leaner(g, k) /\ k.pending = q
<1>1. /\ Typed(g) /\ Linked(g, f, s) /\ Queue(g, n, f) /\ Sent(g, f, s)
      /\ g.valid /\ Upto(g, g.cur, g.src) /\ n <= g.cur /\ Display(g, f, shown)
      /\ Calm(n) => /\ Order(g, n, g.cur) /\ Mapped(g, n, g.src) /\ Behind(g, n, shown)
                    /\ Reported(g, n, g.cur, flight) /\ (n = 0 => Arrives(g, g.cur, shown))
      /\ ~back => Onward(g)
      /\ Punctual => Single(g) /\ (g.epoch.valid => g.epoch.disp > g.epoch.src)
  BY DEF Held
<1>2. /\ Typed(k) /\ Same(g, k) /\ k.pending = q /\ k.epoch = g.epoch /\ k.recs = g.recs
      /\ k.grid = g.grid
  BY <1>1, Without
<1>3. k.cur = g.cur /\ k.src = g.src /\ k.valid = g.valid /\ k.hold = g.hold /\ k.base = g.base
  BY <1>2 DEF Same
<1>4. k.pending \subseteq g.pending
  BY <1>2
<1>5. /\ \A i, c : Order(g, i, c) => Order(k, i, c)
      /\ \A c, sh : Arrives(g, c, sh) => Arrives(k, c, sh)
  BY <1>2, <1>3, OrderReals
<1>6. /\ Linked(k, f, s) /\ Queue(k, n, f) /\ Upto(k, k.cur, k.src) /\ Sent(k, f, s)
      /\ Display(k, f, shown)
      /\ Mapped(g, n, g.src) => Mapped(k, n, k.src)
      /\ Behind(g, n, shown) => Behind(k, n, shown)
      /\ Reported(g, n, g.cur, flight) => Reported(k, n, k.cur, flight)
  BY <1>1, <1>2, <1>3, <1>4, Fewer
<1>7. Onward(g) => Onward(k)
  BY <1>3, <1>4 DEF Onward
<1>8. Single(g) => Single(k)
  BY <1>4 DEF Single
<1> QED
  BY <1>1, <1>2, <1>3, <1>5, <1>6, <1>7, <1>8 DEF Held, Leaner

\* What is on its way, with what it reports at `fl'.
SentOf(g, f, s, fl) ==
  \A i \in DOMAIN fl :
    /\ fl[i].id <= f /\ (g.valid => fl[i].id <= g.cur)
    /\ fl[i].id = f => s < Ticks * fl[i].at
    /\ g.valid /\ fl[i].id = g.cur => g.src < Ticks * fl[i].at
    /\ \A r \in g.recs : r.id = fl[i].id => r.src < Ticks * fl[i].at

\* All that holds of a history when content `sh' has been shown, until opportunity `t'.
Sound(g, f, s, n, sh, fl, t) ==
  /\ Typed(g) /\ Linked(g, f, s) /\ Queue(g, n, f) /\ SentOf(g, f, s, fl)
  /\ g.valid => Upto(g, g.cur, g.src) /\ n <= g.cur
  /\ Display(g, f, sh) /\ Steady(g, sh)
  /\ Calm(n) => /\ Order(g, n, g.cur) /\ Mapped(g, n, g.src) /\ Behind(g, n, sh)
                /\ Reported(g, n, g.cur, fl) /\ (n = 0 => Arrives(g, g.cur, sh))
  /\ Punctual => OnTime(g, t)

\* Content `c' may follow what is shown; an interpolation is of the scene, or stays.
Fine(c, n) ==
  /\ ~back => c >= shown \/ c <= 2 * since
  /\ Made(c) => c > 2 * n \/ c = shown

\* A real entry that is shown asks for a report.
Flown(e) == IF e.real THEN Append(flight, [id |-> e.id, at |-> now]) ELSE flight

\* What is on its way is that and what was.
LEMMA FlownIs ==
  ASSUME Types, NEW e, e.id \in Int
  PROVE  /\ Flown(e) \in Seq(Reports)
         /\ \A i \in DOMAIN Flown(e) :
              \/ i \in DOMAIN flight /\ Flown(e)[i] = flight[i]
              \/ e.real /\ Flown(e)[i].id = e.id /\ Flown(e)[i].at = now
<1> DEFINE r == [id |-> e.id, at |-> now]
<1>1. r \in Reports /\ r.id = e.id /\ r.at = now /\ flight \in Seq(Reports)
  BY DEF Types, Reports
<1> HIDE DEF r
<1>2. /\ Append(flight, r) \in Seq(Reports)
      /\ \A i \in DOMAIN Append(flight, r) :
           \/ i \in DOMAIN flight /\ Append(flight, r)[i] = flight[i]
           \/ Append(flight, r)[i] = r
  BY <1>1
<1>3. Flown(e) = IF e.real THEN Append(flight, r) ELSE flight
  BY DEF Flown, r
<1>4. CASE e.real
  BY <1>1, <1>2, <1>3, <1>4
<1>5. CASE ~e.real
  BY <1>1, <1>3, <1>5
<1> QED
  BY <1>4, <1>5

\* What comes after the first entry is not older, and if both are real the first is not
\* of the last frame.
LEMMA FrontFirst ==
  ASSUME NEW g, Typed(g), NEW f, NEW n \in Int, Queue(g, n, f), Upto(g, g.cur, g.src),
         Order(g, n, g.cur), NEW e \in g.pending, \A d \in g.pending : e.target <= d.target,
         NEW x \in g.pending, x # e, New(x, n)
  PROVE  /\ x.content >= e.content
         /\ e.real /\ x.real => e.id < g.cur
<1>1. /\ e.id \in Int /\ x.id \in Int /\ e.content \in Int /\ x.content \in Int
      /\ e.target \in Int /\ x.target \in Int /\ g.cur \in Int
  BY EntryTypes
<1>2. e.target < x.target
  BY <1>1 DEF Queue
<1>3. x.id <= g.cur /\ x.id > n
  BY DEF Upto, New
<1>4. CASE New(e, n)
  <2>1. e.id <= x.id /\ e.content <= x.content
    BY <1>2, <1>4 DEF Order
  <2>2. ASSUME e.real, x.real PROVE e.id # x.id
    BY <1>4, <2>2 DEF Order
  <2> QED
    BY <1>1, <1>3, <2>1, <2>2
<1>5. CASE ~New(e, n)
  <2>1. e.id <= n /\ e.content <= 2 * e.id
    BY <1>1, <1>5 DEF New, Queue
  <2>2. x.content >= 2 * n
    BY DEF Queue
  <2> QED
    BY <1>1, <1>3, <2>1, <2>2
<1> QED
  BY <1>4, <1>5

\* The history when entry `e' has been shown.
Taken(g, e) == [g EXCEPT !.pending = g.pending \ {e}, !.hold = e.content]

AsTaken(g, e, f, s, n) ==
  /\ Sound(Taken(g, e), f, s, n, e.content, Flown(e), now + 1) /\ Fine(e.content, n)
  /\ e.content \in Int /\ e.id # None /\ Flown(e) \in Seq(Reports)
  /\ Taken(g, e).valid = g.valid /\ Taken(g, e).cur = g.cur /\ Taken(g, e).base = g.base

\* The first entry is committed: what is left, what is shown and what is on its way.
LEMMA ShowsSound ==
  ASSUME Types, NEW f \in Nat, NEW s \in Nat, s < Ticks * now, NEW n \in Nat,
         NEW g, Held(g, f, s, n), g.pending # {}, NEW e, e = Front(g.pending)
  PROVE  AsTaken(g, e, f, s, n)
<1> DEFINE k == Taken(g, e)
           fl == Flown(e)
<1>1. /\ Typed(g) /\ Linked(g, f, s) /\ Queue(g, n, f) /\ Sent(g, f, s)
      /\ g.valid /\ Upto(g, g.cur, g.src) /\ n <= g.cur /\ Display(g, f, shown)
      /\ Calm(n) => /\ Order(g, n, g.cur) /\ Mapped(g, n, g.src) /\ Behind(g, n, shown)
                    /\ Reported(g, n, g.cur, flight) /\ (n = 0 => Arrives(g, g.cur, shown))
      /\ ~back => Onward(g)
      /\ Punctual => Single(g) /\ (g.epoch.valid => g.epoch.disp > g.epoch.src)
  BY DEF Held
<1>2. /\ e \in g.pending /\ \A d \in g.pending : e.target <= d.target
  BY <1>1, FrontIs
<1>3. /\ e.real \in BOOLEAN /\ e.id \in Int /\ e.content \in Int /\ e.target \in Int
      /\ g.cur \in Int /\ g.src \in Int /\ now \in Nat /\ Ticks * now \in Int /\ n \in Int
      /\ g.valid = TRUE /\ f \in Int /\ s \in Int
  BY <1>1, <1>2, EntryTypes, BidirAssumption DEF Types
<1>4. /\ e.content > 0 /\ e.content <= 2 * e.id /\ e.id <= f /\ e.id <= g.cur
      /\ g.src <= s /\ g.cur <= f
  BY <1>1, <1>2 DEF Queue, Upto, Linked
<1>5. /\ Typed(k) /\ k.pending = g.pending \ {e} /\ k.hold = e.content /\ k.epoch = g.epoch
      /\ k.recs = g.recs /\ k.grid = g.grid /\ k.origin = g.origin /\ k.cur = g.cur
      /\ k.src = g.src /\ k.valid = g.valid /\ k.base = g.base /\ k.unread = g.unread
  <2> DEFINE q == g.pending \ {e}
             c == e.content
  <2>1. g \in Histories /\ q \in SUBSET Entries /\ IsFiniteSet(q) /\ c \in Int
    BY <1>1, <1>3, FS_Subset DEF Typed, Histories
  <2>2. k = [g EXCEPT !.pending = q, !.hold = c]
    BY DEF Taken
  <2> HIDE DEF k, q, c
  <2>3. k \in Histories
    BY <2>1, <2>2, Updates
  <2>4. /\ k.pending = q /\ k.hold = c /\ k.epoch = g.epoch
        /\ k.recs = g.recs /\ k.grid = g.grid /\ k.origin = g.origin /\ k.cur = g.cur
        /\ k.src = g.src /\ k.valid = g.valid /\ k.base = g.base /\ k.unread = g.unread
    BY <2>1, <2>2 DEF Histories
  <2> QED
    BY <2>1, <2>3, <2>4 DEF Typed, q, c
<1> HIDE DEF k
<1>6. k.pending \subseteq g.pending
  BY <1>5
<1>7. /\ fl \in Seq(Reports)
      /\ \A i \in DOMAIN fl : \/ i \in DOMAIN flight /\ fl[i] = flight[i]
                              \/ e.real /\ fl[i].id = e.id /\ fl[i].at = now
  BY <1>3, FlownIs
<1> HIDE DEF fl
<1>8. Linked(k, f, s)
  BY <1>1, <1>5 DEF Linked
<1>9. Queue(k, n, f) /\ Upto(k, k.cur, k.src)
  BY <1>1, <1>5, <1>6 DEF Queue, Upto
<1>10. SentOf(k, f, s, fl)
  <2> SUFFICES ASSUME NEW i \in DOMAIN fl
               PROVE  /\ fl[i].id <= f /\ (k.valid => fl[i].id <= k.cur)
                      /\ fl[i].id = f => s < Ticks * fl[i].at
                      /\ k.valid /\ fl[i].id = k.cur => k.src < Ticks * fl[i].at
                      /\ \A r \in k.recs : r.id = fl[i].id => r.src < Ticks * fl[i].at
    BY DEF SentOf
  <2>1. CASE i \in DOMAIN flight /\ fl[i] = flight[i]
    BY <1>1, <1>5, <2>1 DEF Sent
  <2>2. CASE fl[i].id = e.id /\ fl[i].at = now
    <3>1. \A r \in k.recs : r.src <= g.src /\ r.src \in Int
      BY <1>1, <1>5, EntryTypes DEF Upto
    <3> QED
      BY <1>3, <1>4, <1>5, <2>2, <3>1
  <2> QED
    BY <1>7, <2>1, <2>2
<1>11. Display(k, f, e.content) /\ Steady(k, e.content)
  <2>1. e.content <= 2 * f /\ e.content <= 2 * g.cur /\ e.content # None
    BY <1>3, <1>4 DEF None
  <2> QED
    BY <1>5, <2>1 DEF Display, Steady
<1>12. ASSUME Calm(n)
       PROVE  /\ Order(k, n, k.cur) /\ Mapped(k, n, k.src) /\ Behind(k, n, e.content)
              /\ Reported(k, n, k.cur, fl) /\ (n = 0 => Arrives(k, k.cur, e.content))
  <2>1. /\ Order(g, n, g.cur) /\ Mapped(g, n, g.src) /\ Behind(g, n, shown)
        /\ Reported(g, n, g.cur, flight) /\ (n = 0 => Arrives(g, g.cur, shown))
    BY <1>1, <1>12
  <2>2. \A x \in k.pending : New(x, n) => /\ x.content >= e.content
                                          /\ e.real /\ x.real => e.id < g.cur
    <3> TAKE x \in k.pending
    <3>1. x \in g.pending /\ x # e
      BY <1>5
    <3> QED
      BY <1>1, <1>2, <1>3, <2>1, <3>1, FrontFirst
  <2>3. Order(k, n, g.cur)
    <3>1. ASSUME NEW x \in k.pending, New(x, n), x.real
          PROVE  \E d \in k.pending : d.real /\ d.id = g.cur /\ d.content = 2 * g.cur
      <4>1. PICK d \in g.pending : d.real /\ d.id = g.cur /\ d.content = 2 * g.cur
        BY <1>6, <2>1, <3>1 DEF Order
      <4>2. d # e
        BY <1>3, <2>2, <3>1, <4>1
      <4> QED
        BY <1>5, <4>1, <4>2
    <3> QED
      BY <1>5, <1>6, <2>1, <3>1, OrderFewer
  <2>4. Mapped(k, n, g.src)
    <3>1. Target(k, g.src) = Target(g, g.src)
      BY <1>5 DEF Target, Ideal
    <3> QED
      BY <1>5, <1>6, <2>1, <3>1 DEF Mapped
  <2>5. Behind(k, n, e.content)
    BY <1>3, <1>5, <2>2 DEF Behind
  <2>6. Reported(k, n, g.cur, fl)
    <3> SUFFICES ASSUME NEW x \in k.pending, New(x, n), x.real, NEW i \in DOMAIN fl
                 PROVE  fl[i].id < g.cur
      BY DEF Reported
    <3>1. CASE i \in DOMAIN flight /\ fl[i] = flight[i]
      BY <1>6, <2>1, <3>1 DEF Reported
    <3>2. CASE e.real /\ fl[i].id = e.id
      BY <2>2, <3>2
    <3> QED
      BY <1>7, <3>1, <3>2
  <2>7. ASSUME n = 0 PROVE Arrives(k, g.cur, e.content)
    <3> SUFFICES ASSUME k.epoch.valid
                 PROVE  \/ \E d \in k.pending : d.real /\ d.id = g.cur /\ d.content = 2 * g.cur
                        \/ e.content = 2 * g.cur /\ k.hold = 2 * g.cur
      BY DEF Arrives
    <3>1. \/ \E d \in g.pending : d.real /\ d.id = g.cur /\ d.content = 2 * g.cur
          \/ shown = 2 * g.cur
      BY <1>5, <2>1, <2>7 DEF Arrives
    <3>2. ASSUME NEW d \in g.pending, d.real, d.id = g.cur, d.content = 2 * g.cur
          PROVE  \/ \E x \in k.pending : x.real /\ x.id = g.cur /\ x.content = 2 * g.cur
                 \/ e.content = 2 * g.cur /\ k.hold = 2 * g.cur
      <4>1. CASE d = e
        BY <1>5, <3>2, <4>1
      <4>2. CASE d # e
        BY <1>5, <3>2, <4>2
      <4> QED
        BY <4>1, <4>2
    <3>3. CASE shown = 2 * g.cur
      <4>1. New(e, n)
        BY <1>3, <1>4, <2>7 DEF New
      <4>2. e.content >= shown
        BY <1>2, <2>1, <4>1 DEF Behind
      <4> QED
        BY <1>3, <1>4, <1>5, <3>3, <4>2
    <3> QED
      BY <3>1, <3>2, <3>3
  <2> QED
    BY <1>5, <2>3, <2>4, <2>5, <2>6, <2>7
<1>13. ASSUME Punctual PROVE OnTime(k, now + 1)
  <2>1. ASSUME NEW x \in k.pending PROVE x.target >= now + 1
    <3>1. x \in g.pending /\ x # e /\ x.target \in Int /\ e.target <= x.target
      BY <1>1, <1>2, <1>5, EntryTypes
    <3>2. ~(x.target <= now)
      BY <1>1, <1>2, <1>3, <1>13, <3>1 DEF Single
    <3> QED
      BY <1>3, <3>1, <3>2
  <2> QED
    BY <1>1, <1>5, <1>13, <2>1 DEF OnTime
<1>14. Fine(e.content, n)
  <2>1. ~back => e.content >= shown \/ e.content <= 2 * since
    BY <1>1, <1>2 DEF Onward
  <2>2. ASSUME Made(e.content) PROVE e.content > 2 * n
    <3>1. e.content = 2 * e.id - 1 /\ e.id > n
      BY <1>1, <1>2, <1>3, <2>2 DEF Queue, New
    <3> QED
      BY <1>3, <3>1
  <2> QED
    BY <2>1, <2>2 DEF Fine
<1>15. Sound(k, f, s, n, e.content, fl, now + 1)
  BY <1>1, <1>5, <1>8, <1>9, <1>10, <1>11, <1>12, <1>13 DEF Sound
<1>16. e.id # None
  BY <1>3, <1>4 DEF None
<1> QED
  BY <1>3, <1>5, <1>7, <1>14, <1>15, <1>16 DEF AsTaken, k, fl

\* What is held is shown again, with nothing due in the queue.
LEMMA HoldSound ==
  ASSUME Types, NEW f \in Nat, NEW s \in Nat, NEW n \in Nat, NEW g, Held(g, f, s, n),
         g.hold # None, Punctual => \A e \in g.pending : e.target > now
  PROVE  Sound(g, f, s, n, g.hold, flight, now + 1) /\ Fine(g.hold, n)
<1>1. /\ Typed(g) /\ Linked(g, f, s) /\ Queue(g, n, f) /\ Sent(g, f, s)
      /\ g.valid /\ Upto(g, g.cur, g.src) /\ n <= g.cur /\ Display(g, f, shown)
      /\ Calm(n) => /\ Order(g, n, g.cur) /\ Mapped(g, n, g.src) /\ Behind(g, n, shown)
                    /\ Reported(g, n, g.cur, flight) /\ (n = 0 => Arrives(g, g.cur, shown))
      /\ ~back => Onward(g)
      /\ Punctual => (g.epoch.valid => g.epoch.disp > g.epoch.src)
  BY DEF Held
<1>2. SentOf(g, f, s, flight)
  BY <1>1 DEF Sent, SentOf
<1>3. Display(g, f, g.hold) /\ Steady(g, g.hold)
  BY <1>1 DEF Display, Steady
<1>4. g.hold \in Int /\ now \in Nat
  BY <1>1, EntryTypes DEF Types
<1>5. ASSUME Calm(n)
      PROVE  /\ Order(g, n, g.cur) /\ Mapped(g, n, g.src) /\ Behind(g, n, g.hold)
             /\ Reported(g, n, g.cur, flight) /\ (n = 0 => Arrives(g, g.cur, g.hold))
  <2>1. Behind(g, n, g.hold)
    BY <1>1, <1>4, <1>5 DEF Behind
  <2>2. n = 0 => Arrives(g, g.cur, g.hold)
    BY <1>1, <1>5 DEF Arrives
  <2> QED
    BY <1>1, <1>5, <2>1, <2>2
<1>6. ASSUME Punctual PROVE OnTime(g, now + 1)
  <2>1. ASSUME NEW x \in g.pending PROVE x.target >= now + 1
    <3>1. x.target > now /\ x.target \in Int
      BY <1>1, <1>6, EntryTypes
    <3> QED
      BY <1>4, <3>1
  <2> QED
    BY <1>1, <1>6, <2>1 DEF OnTime
<1>7. Fine(g.hold, n)
  BY <1>1 DEF Fine, Onward, Display
<1> QED
  BY <1>1, <1>2, <1>3, <1>5, <1>6, <1>7 DEF Sound

\* The composite itself is shown, and the queue is reset.
Emptied(g, composite) == [g EXCEPT !.pending = {}, !.hold = composite]

AsReset(g, f, s, n) ==
  /\ Sound(Emptied(g, 2 * f), f, s, n, 2 * f, flight, now + 1) /\ Fine(2 * f, n)
  /\ Emptied(g, 2 * f).valid = g.valid /\ Emptied(g, 2 * f).cur = g.cur
  /\ Emptied(g, 2 * f).base = g.base

\* A history with nothing to show before the composite.
LEMMA ResetSound ==
  ASSUME Types, NEW f \in Nat, f # 0, NEW s \in Nat, NEW n \in Nat, NEW g, Held(g, f, s, n),
         g.cur = f, ~g.epoch.valid
  PROVE  AsReset(g, f, s, n)
<1> DEFINE c == 2 * f
           k == Emptied(g, c)
<1>1. /\ Typed(g) /\ Linked(g, f, s) /\ Queue(g, n, f) /\ Sent(g, f, s)
      /\ g.valid /\ Upto(g, g.cur, g.src) /\ n <= g.cur /\ Display(g, f, shown)
      /\ Calm(n) => Reported(g, n, g.cur, flight)
  BY DEF Held
<1>2. c \in Int /\ c # None /\ ~Made(c) /\ shown \in Int /\ shown <= c
  <2>1. f \in Int
    OBVIOUS
  <2>2. ~Made(2 * f)
    BY <2>1, Even
  <2> QED
    BY <1>1, <2>1, <2>2 DEF None, Types, Display
<1>3. /\ Typed(k) /\ k.pending = {} /\ k.hold = c /\ k.epoch = g.epoch
      /\ k.recs = g.recs /\ k.grid = g.grid /\ k.cur = g.cur
      /\ k.src = g.src /\ k.valid = g.valid /\ k.base = g.base /\ k.unread = g.unread
  <2>1. g \in Histories /\ {} \in SUBSET Entries /\ IsFiniteSet({})
    BY <1>1, FS_EmptySet DEF Typed
  <2>2. k = [g EXCEPT !.pending = {}, !.hold = c]
    BY DEF Emptied
  <2> HIDE DEF k, c
  <2>3. k \in Histories
    <3>1. \A q \in SUBSET Entries, x \in Int : [g EXCEPT !.pending = q, !.hold = x] \in Histories
      BY <2>1, Updates
    <3> QED
      BY <1>2, <2>1, <2>2, <3>1, Zenon
  <2>4. /\ k.pending = {} /\ k.hold = c /\ k.epoch = g.epoch
        /\ k.recs = g.recs /\ k.grid = g.grid /\ k.cur = g.cur
        /\ k.src = g.src /\ k.valid = g.valid /\ k.base = g.base /\ k.unread = g.unread
    BY <2>1, <2>2 DEF Histories
  <2> QED
    BY <2>1, <2>3, <2>4 DEF Typed
<1> HIDE DEF k
<1>4. Linked(k, f, s) /\ Queue(k, n, f) /\ Upto(k, k.cur, k.src)
  BY <1>1, <1>3 DEF Linked, Queue, Upto
<1>5. SentOf(k, f, s, flight)
  BY <1>1, <1>3 DEF Sent, SentOf
<1>6. Display(k, f, c) /\ Steady(k, c)
  BY <1>2, <1>3 DEF Display, Steady
<1> HIDE DEF c
<1>7. /\ Order(k, n, k.cur) /\ Mapped(k, n, k.src) /\ Behind(k, n, c)
      /\ Reported(k, n, k.cur, flight) /\ Arrives(k, k.cur, c)
  BY <1>2, <1>3 DEF Order, Mapped, Behind, Reported, Arrives
<1>8. OnTime(k, now + 1)
  BY <1>3 DEF OnTime
<1>9. Fine(c, n)
  BY <1>2 DEF Fine
<1>10. Sound(k, f, s, n, c, flight, now + 1)
  BY <1>1, <1>3, <1>4, <1>5, <1>6, <1>7, <1>8 DEF Sound
<1> QED
  BY <1>3, <1>9, <1>10 DEF AsReset, k, c

-----------------------------------------------------------------------------
(* What a step commits.                                                    *)

\* All that holds after a step that shows something, or leaves what is shown, with `n'
\* the last frame of the scenes before.
Outcome(f, s, n) ==
  /\ Sound(h', f, s, n, shown', flight', now + 1) /\ Fine(shown', n)
  /\ shown' \in Int /\ flight' \in Seq(Reports)

\* The frame recorded last is the same.
SameFrame(g) == h'.valid = g.valid /\ h'.cur = g.cur /\ h'.base = g.base

\* The first entry is committed.
LEMMA ShowsOutcome ==
  ASSUME Types, NEW f \in Nat, NEW s \in Nat, s < Ticks * now, NEW n \in Nat,
         NEW g, Held(g, f, s, n), g.pending # {}, Shows(g, Front(g.pending))
  PROVE  Outcome(f, s, n) /\ SameFrame(g)
<1> DEFINE e == Front(g.pending)
<1>1. AsTaken(g, e, f, s, n)
  BY ShowsSound
<1> HIDE DEF e
<1>2. /\ Sound(Taken(g, e), f, s, n, e.content, Flown(e), now + 1) /\ Fine(e.content, n)
      /\ e.content \in Int /\ e.id # None /\ Flown(e) \in Seq(Reports)
      /\ Taken(g, e).valid = g.valid /\ Taken(g, e).cur = g.cur /\ Taken(g, e).base = g.base
  BY <1>1 DEF AsTaken
<1>3. h' = Taken(g, e) /\ shown' = e.content
  BY DEF Shows, Commit, Taken, e
<1>4. flight' = Flown(e)
  <2>1. flight' = IF (IF e.real THEN e.id ELSE None) = None THEN flight
                  ELSE Append(flight, [id |-> IF e.real THEN e.id ELSE None, at |-> now])
    BY DEF Shows, Commit, e
  <2>2. CASE e.real
    BY <1>2, <2>1, <2>2 DEF Flown
  <2>3. CASE ~e.real
    BY <2>1, <2>3 DEF Flown
  <2> QED
    BY <2>2, <2>3
<1>5. Sound(h', f, s, n, shown', flight', now + 1)
  BY <1>2, <1>3, <1>4
<1> QED
  BY <1>2, <1>3, <1>4, <1>5 DEF Outcome, SameFrame

\* What is held is committed again.
LEMMA HoldOutcome ==
  ASSUME Types, NEW f \in Nat, NEW s \in Nat, NEW n \in Nat, NEW g, Held(g, f, s, n),
         g.hold # None, Punctual => \A e \in g.pending : e.target > now,
         Commit(g, g.hold, None)
  PROVE  Outcome(f, s, n) /\ SameFrame(g)
<1>1. Sound(g, f, s, n, g.hold, flight, now + 1) /\ Fine(g.hold, n)
  BY HoldSound
<1>2. h' = g /\ shown' = g.hold /\ flight' = flight
  BY DEF Commit
<1>3. g.hold \in Int /\ flight \in Seq(Reports)
  BY EntryTypes DEF Held, Types
<1>4. Sound(h', f, s, n, shown', flight', now + 1)
  BY <1>1, <1>2
<1> QED
  BY <1>1, <1>2, <1>3, <1>4 DEF Outcome, SameFrame

\* The queue is shown.
LEMMA TakeFrontOutcome ==
  ASSUME Types, NEW f \in Nat, NEW s \in Nat, s < Ticks * now, NEW n \in Nat,
         NEW g, Held(g, f, s, n), g.hold # None, NEW c, TakeFront(g, c)
  PROVE  Outcome(f, s, n) /\ SameFrame(g)
<1> DEFINE k == Caught(g)
<1>1. Typed(g)
  BY DEF Held
<1>2. PICK q \in SUBSET g.pending : /\ \A e \in g.pending : e.real => e \in q
                                    /\ k = [g EXCEPT !.pending = q]
  BY <1>1, CaughtIs
<1>3. IF k.pending # {} /\ Due(k) THEN Shows(k, Front(k.pending))
      ELSE Commit(k, IF k.hold # None THEN k.hold ELSE c, None)
  BY DEF TakeFront
<1> HIDE DEF k
<1>4. Held(k, f, s, n) /\ Leaner(g, k)
  BY <1>2, HeldWithout
<1>5. k.hold = g.hold /\ k.valid = g.valid /\ k.cur = g.cur /\ k.base = g.base
  BY <1>4 DEF Leaner, Same
<1>6. CASE k.pending # {} /\ Due(k)
  <2>1. Outcome(f, s, n) /\ SameFrame(k)
    BY <1>3, <1>4, <1>6, ShowsOutcome
  <2> QED
    BY <1>5, <2>1 DEF SameFrame
<1>7. CASE ~(k.pending # {} /\ Due(k))
  <2>1. Commit(k, k.hold, None)
    BY <1>3, <1>5, <1>7
  <2>2. ASSUME NEW e \in k.pending PROVE e.target > now
    <3>1. Typed(k)
      BY <1>4 DEF Held
    <3>2. /\ Front(k.pending) \in k.pending /\ Front(k.pending).target <= e.target
          /\ Front(k.pending).target \in Int /\ e.target \in Int
      BY <3>1, <2>2, FrontIs, EntryTypes
    <3>3. ~(Front(k.pending).target <= now)
      BY <1>7, <2>2 DEF Due
    <3> QED
      BY <3>2, <3>3 DEF Types
  <2>3. Outcome(f, s, n) /\ SameFrame(k)
    BY <1>4, <1>5, <2>1, <2>2, HoldOutcome
  <2> QED
    BY <1>5, <2>3 DEF SameFrame
<1> QED
  BY <1>6, <1>7

\* A composite of the last frame is shown, or stands back behind the queue.
LEMMA FlipOutcome ==
  ASSUME Types, NEW f \in Nat, f # 0, NEW s \in Nat, s < Ticks * now, NEW n \in Nat,
         NEW g, Held(g, f, s, n), g.cur = f, NEW queued, queued => g.hold # None, NEW same,
         Flip(g, 2 * f, queued, same)
  PROVE  Outcome(f, s, n) /\ SameFrame(g)
<1>1. Display(g, f, shown)
  BY DEF Held
<1>2. CASE g.hold # None
  <2>1. TakeFront(g, 2 * f)
    BY <1>2 DEF Flip
  <2> QED
    BY <1>2, <2>1, TakeFrontOutcome
<1>3. CASE g.hold = None
  <2>1. g.pending = {} /\ ~g.epoch.valid /\ ~queued
    BY <1>1, <1>3 DEF Display
  <2>2. Commit([g EXCEPT !.pending = {}, !.hold = 2 * f], 2 * f, None)
    BY <1>3, <2>1 DEF Flip
  <2>3. AsReset(g, f, s, n)
    BY <2>1, ResetSound
  <2>4. h' = Emptied(g, 2 * f) /\ shown' = 2 * f /\ flight' = flight
    BY <2>2 DEF Commit, Emptied
  <2>5. 2 * f \in Int /\ flight \in Seq(Reports)
    BY DEF Types
  <2>6. Sound(h', f, s, n, shown', flight', now + 1)
    BY <2>3, <2>4 DEF AsReset
  <2> QED
    BY <2>3, <2>4, <2>5, <2>6 DEF AsReset, Outcome, SameFrame
<1> QED
  BY <1>2, <1>3

-----------------------------------------------------------------------------
(* A composite.                                                            *)

\* The ring was flushed: what is shown stays.
LEMMA FlushedSound ==
  ASSUME Types, NEW f \in Nat, NEW s \in Nat, NEW n \in Nat, n \in {since, f, f - 1},
         NEW g, Whole(g, f, s), g.pending = {}, ~g.valid
  PROVE  Sound(g, f, s, n, shown, flight, now + 1) /\ Fine(shown, n)
<1>1. /\ Typed(g) /\ Linked(g, f, s) /\ Sent(g, f, s) /\ Display(g, f, shown)
      /\ ~back => InOrder(g)
  BY DEF Whole, Settled
<1>2. Idle(g)
  BY IdleIs, Zenon
<1>3. g.epoch.valid = FALSE /\ g.pending = {}
  BY <1>2 DEF Idle
<1>4. g.hold \in Int /\ shown \in Int
  BY <1>1, EntryTypes DEF Types
<1>5. SentOf(g, f, s, flight)
  BY <1>1 DEF Sent, SentOf
<1>6. Queue(g, n, f) /\ Steady(g, shown) /\ OnTime(g, now + 1)
  BY <1>3 DEF Queue, Steady, OnTime
<1>7. ASSUME Calm(n) PROVE g.hold >= shown \/ g.hold <= 2 * n
  <2>1. CASE n = since
    <3>1. InOrder(g)
      BY <1>1, <1>7, <2>1 DEF Calm
    <3> QED
      BY <2>1, <3>1 DEF InOrder, Behind
  <2>2. CASE n = f
    BY <1>1, <2>2 DEF Display
  <2>3. CASE n = f - 1
    BY <1>1, <2>3, HeldLast
  <2> QED
    BY <2>1, <2>2, <2>3
<1>8. ASSUME Calm(n)
      PROVE  /\ Order(g, n, g.cur) /\ Mapped(g, n, g.src) /\ Behind(g, n, shown)
             /\ Reported(g, n, g.cur, flight) /\ Arrives(g, g.cur, shown)
  BY <1>3, <1>7, <1>8 DEF Order, Mapped, Behind, Reported, Arrives
<1>9. Fine(shown, n)
  BY <1>4 DEF Fine
<1> QED
  BY <1>1, <1>5, <1>6, <1>8, <1>9 DEF Sound

\* What a paint of frame `f' may find: a new scene, or a cut in the last batch.
Notices(g, f, scene, cut) ==
  /\ scene \in BOOLEAN /\ cut \in BOOLEAN
  /\ scene \/ cut => g.base # f
  /\ cut => g.unread /\ g.batch <= gpu

\* The frame's opportunity has not passed, or nothing else is due.
InTime(g, f, s) ==
  Punctual /\ g.valid /\ g.cur # f =>
    Undue(g, s) \/ \A e \in g.pending : e.target > now

\* The last frame of the scenes before, then.
Begins(f, scene, cut) == IF scene THEN f ELSE IF cut THEN f - 1 ELSE since

PassBegun(f, scene, cut, n) ==
  /\ n \in Nat /\ n <= f /\ since <= n /\ n \in {since, f, f - 1}
  /\ cut => since < f

\* It is no later than the frame, and never moves back.
LEMMA NoticesIs ==
  ASSUME Types, NEW f \in Nat, f # 0, since <= f, NEW s \in Nat, NEW g, Whole(g, f, s),
         NEW scene, NEW cut, Notices(g, f, scene, cut), NEW n, n = Begins(f, scene, cut)
  PROVE  PassBegun(f, scene, cut, n)
<1>1. Typed(g) /\ Linked(g, f, s) /\ (g.valid => since <= g.cur)
  BY DEF Whole, Settled
<1>2. since \in Nat /\ g.cur \in Int /\ g.base \in Int
  BY <1>1, EntryTypes DEF Types
<1>3. ASSUME cut PROVE since < f
  <2>1. g.base # None /\ g.base # f
    BY <1>1, <1>3 DEF Notices, Linked
  <2>2. g.base = g.cur /\ g.cur # f /\ g.valid
    BY <1>1, <2>1 DEF Linked
  <2> QED
    BY <1>1, <1>2, <2>2 DEF Linked
<1> QED
  BY <1>2, <1>3 DEF Begins, PassBegun, Notices

\* The history that a composite starts from.
AsAcquired(g, k, f, s) ==
  Whole(k, f, s) /\ Less(g, k, s) /\ (HasFree(k) \/ (k.pending = {} /\ k.valid = FALSE))

\* An image is found by letting entries go, or by flushing the ring.
LEMMA AcquiredIs ==
  ASSUME Types, NEW f \in Nat, NEW s \in Nat, s < Ticks * now, NEW g, Whole(g, f, s),
         NEW k, k = Acquired(g)
  PROVE  AsAcquired(g, k, f, s)
BY AcquiredWhole DEF AsAcquired

\* What a composite leaves: the frame is recorded, or the history is invalid.
Composed(f, s, n) == Outcome(f, s, n) /\ (h'.valid => h'.cur = f)

\* A composite, whatever it finds and however full the ring.
LEMMA CompositeOutcome ==
  ASSUME Types, gpu \in Int, NEW f \in Nat, f # 0, NEW s \in Nat, s # 0, s < Ticks * now,
         since <= f, f = frame'.id, s = frame'.src,
         NEW g0, Whole(g0, f, s), InTime(g0, f, s),
         NEW scene, NEW cut, Notices(g0, f, scene, cut), NEW n, n = Begins(f, scene, cut),
         NEW most, Composite(g0, scene, cut, most)
  PROVE  Composed(f, s, n)
<1> DEFINE a == Acquired(g0)
           g == [a EXCEPT !.failures = 0]
           new == a.base # frame'.id
<1>2. PassBegun(f, scene, cut, n)
  BY NoticesIs, Zenon
<1>3. /\ n \in Nat /\ n <= f /\ since <= n /\ n \in {since, f, f - 1} /\ since \in Nat
      /\ cut => since < f
  BY <1>2 DEF PassBegun, Types
<1>4. IF HasFree(a)
      THEN \E r \in {IF new THEN Recorded(g, scene, cut, most) ELSE g} :
             Flip(r, 2 * f, new /\ Pairs(g, scene), ~new)
      ELSE h' = a /\ UNCHANGED <<shown, host, flight>>
  BY DEF Composite
<1>8. a = Acquired(g0)
  OBVIOUS
<1> HIDE DEF a
<1>1. Whole(a, f, s) /\ Less(g0, a, s) /\ (HasFree(a) \/ (a.pending = {} /\ a.valid = FALSE))
  <2>1. AsAcquired(g0, a, f, s)
    BY <1>8, AcquiredIs, Zenon
  <2> QED
    BY <2>1 DEF AsAcquired
<1>5. /\ Typed(a) /\ Linked(a, f, s)
  BY <1>1 DEF Whole, Settled
<1>6. CASE ~HasFree(a)
  <2>1. a.pending = {} /\ ~a.valid /\ h' = a /\ shown' = shown /\ flight' = flight
    BY <1>1, <1>4, <1>6
  <2>2. Sound(a, f, s, n, shown, flight, now + 1) /\ Fine(shown, n)
    BY <1>1, <1>3, <2>1, FlushedSound
  <2>3. shown \in Int /\ flight \in Seq(Reports)
    BY DEF Types
  <2>4. Sound(h', f, s, n, shown', flight', now + 1)
    BY <2>1, <2>2
  <2> QED
    BY <2>1, <2>2, <2>3, <2>4 DEF Composed, Outcome
<1>7. CASE HasFree(a)
  <2>1. Typed(g) /\ Alike(a, g)
    <3>1. a \in Histories
      BY <1>5 DEF Typed
    <3>2. g \in Histories
      <4>1. \A x \in Int : [a EXCEPT !.failures = x] \in Histories
        BY <3>1, Updates
      <4>2. 0 \in Int
        OBVIOUS
      <4> QED
        BY <4>1, <4>2, Zenon
    <3>3. /\ g.pending = a.pending /\ g.epoch = a.epoch /\ g.recs = a.recs /\ g.grid = a.grid
          /\ Same(a, g)
      BY <3>1 DEF Histories, Same
    <3> QED
      BY <1>5, <3>2, <3>3 DEF Typed, Alike
  <2>2. \E r \in {IF new THEN Recorded(g, scene, cut, most) ELSE g} :
             Flip(r, 2 * f, new /\ Pairs(g, scene), ~new)
    BY <1>4, <1>7
  <2> HIDE DEF g
  <2>3. Whole(g, f, s)
    BY <1>1, <2>1, AlikeWhole, Zenon
  <2>4. /\ g.pending = a.pending /\ g.valid = a.valid /\ g.cur = a.cur /\ g.base = a.base
        /\ g.unread = a.unread /\ g.batch = a.batch
    BY <2>1 DEF Alike, Same
  <2>5. \/ /\ g.valid = g0.valid /\ g.cur = g0.cur /\ g.base = g0.base
           /\ g.unread = g0.unread /\ g.batch = g0.batch /\ g.pending \subseteq g0.pending
           /\ Punctual /\ Undue(g0, s) => Undue(a, s)
        \/ g.pending = {} /\ g.valid = FALSE
    BY <1>1, <2>4 DEF Less, Gives, Same
  <2>6. Linked(g, f, s) /\ g.base \in Int /\ g.valid \in BOOLEAN /\ (g.valid => since <= g.cur)
    BY <2>3, EntryTypes DEF Whole, Settled
  <2>7. CASE new
    <3>1. PICK r : /\ r = Recorded(g, scene, cut, most)
                   /\ Flip(r, 2 * f, new /\ Pairs(g, scene), ~new)
      BY <2>2, <2>7
    <3>2. g.base # f
      BY <2>4, <2>7
    <3>3. Found(g, f, scene, cut, n)
      BY <1>3, <2>5 DEF Found, Notices, Begins
    <3>a. Undue(a, s) => Undue(g, s)
      BY <2>1 DEF Alike, Undue, Ideal
    <3>4. Punctual /\ g.valid /\ g.cur # f =>
            Undue(g, s) \/ \A e \in g.pending : e.target > now
      BY <2>5, <3>a DEF InTime
    <3>5. Done(r, f, s, n) /\ (Pairs(g, scene) => r.hold # None)
      BY <2>3, <3>1, <3>2, <3>3, <3>4, RecordedDone
    <3>6. Held(r, f, s, n) /\ r.cur = f
      BY <1>3, <3>5, DoneHeld
    <3>7. Outcome(f, s, n) /\ SameFrame(r)
      BY <1>3, <3>1, <3>5, <3>6, FlipOutcome
    <3> QED
      BY <3>6, <3>7 DEF Composed, SameFrame
  <2>8. CASE ~new
    <3>1. Flip(g, 2 * f, new /\ Pairs(g, scene), ~new)
      BY <2>2, <2>8
    <3>2. g.base = f /\ g.cur = f /\ g.valid
      BY <2>4, <2>6, <2>8 DEF Linked, None
    <3>3. n = since
      BY <2>5, <3>2 DEF Notices, Begins
    <3>4. Held(g, f, s, n)
      BY <2>3, <3>2, <3>3, WholeHeld
    <3>5. Outcome(f, s, n) /\ SameFrame(g)
      BY <1>3, <2>8, <3>1, <3>2, <3>4, FlipOutcome
    <3> QED
      BY <3>2, <3>5 DEF Composed, SameFrame
  <2> QED
    BY <2>7, <2>8
<1> QED
  BY <1>6, <1>7

-----------------------------------------------------------------------------
(* A paint.                                                                *)

\* Generated entries may leave the queue between steps as well.
AsLeft(g, k, q, f, s) == Whole(k, f, s) /\ Leaner(g, k) /\ k.pending = q

\* The history stays whole without them.
LEMMA WholeWithout ==
  ASSUME NEW f, NEW s, NEW g, Whole(g, f, s),
         NEW q \in SUBSET g.pending, \A e \in g.pending : e.real => e \in q,
         NEW k, k = [g EXCEPT !.pending = q]
  PROVE  AsLeft(g, k, q, f, s)
<1>0. Typed(g)
  BY DEF Whole, Settled
<1>1. /\ Typed(g) /\ Linked(g, f, s) /\ Queue(g, since, f) /\ Sent(g, f, s)
      /\ g.valid => Upto(g, g.cur, g.src) /\ since <= g.cur
      /\ Display(g, f, shown) /\ Steady(g, shown)
      /\ ~back => InOrder(g)
      /\ Punctual => OnTime(g, now)
  BY DEF Whole, Settled
<1>2. /\ Typed(k) /\ Same(g, k) /\ k.pending = q /\ k.epoch = g.epoch /\ k.recs = g.recs
      /\ k.grid = g.grid
  BY <1>0, Without
<1>3. k.cur = g.cur /\ k.src = g.src /\ k.valid = g.valid /\ k.hold = g.hold /\ k.base = g.base
  BY <1>2 DEF Same
<1>4. k.pending \subseteq g.pending
  BY <1>2
<1>5. /\ \A i, c : Order(g, i, c) => Order(k, i, c)
      /\ \A c, sh : Arrives(g, c, sh) => Arrives(k, c, sh)
  BY <1>2, <1>3, OrderReals
<1>6. /\ Linked(k, f, s) /\ Queue(k, since, f) /\ Sent(k, f, s)
      /\ Upto(g, g.cur, g.src) => Upto(k, k.cur, k.src)
      /\ Display(k, f, shown) /\ Steady(k, shown)
      /\ Mapped(g, since, g.src) => Mapped(k, since, k.src)
      /\ Behind(g, since, shown) => Behind(k, since, shown)
      /\ Reported(g, since, g.cur, flight) => Reported(k, since, k.cur, flight)
      /\ OnTime(g, now) => OnTime(k, now)
  BY <1>1, <1>2, <1>3, <1>4, Fewer
<1>7. InOrder(g) => InOrder(k)
  BY <1>3, <1>5, <1>6 DEF InOrder
<1> QED
  BY <1>1, <1>2, <1>3, <1>6, <1>7 DEF Whole, Settled, Leaner, AsLeft

\* While the display misses nothing, only the first entry can be due.
LEMMA RestWaits ==
  ASSUME Types, NEW f, NEW s, NEW g, Whole(g, f, s), Punctual, g.pending # {},
         NEW e \in g.pending, e # Front(g.pending)
  PROVE  e.target > now
<1>1. Typed(g) /\ OnTime(g, now) /\ \A x, d \in g.pending : x.target = d.target => x = d
  BY DEF Whole, Settled, Queue
<1>2. Front(g.pending) \in g.pending /\ Front(g.pending).target <= e.target
  BY <1>1, FrontIs
<1>3. /\ e.target \in Int /\ Front(g.pending).target \in Int
      /\ Front(g.pending).target >= now /\ e.target # Front(g.pending).target
  BY <1>1, <1>2, EntryTypes DEF OnTime
<1> QED
  BY <1>2, <1>3 DEF Types

\* If the queue is not due, none is.
LEMMA NotDueWaits ==
  ASSUME Types, NEW g, Typed(g), g.pending = {} \/ ~Due(g), NEW e \in g.pending
  PROVE  e.target > now
<1>1. /\ Front(g.pending) \in g.pending /\ Front(g.pending).target <= e.target
      /\ Front(g.pending).target \in Int /\ e.target \in Int
  BY FrontIs, EntryTypes
<1>2. ~(Front(g.pending).target <= now)
  BY DEF Due
<1> QED
  BY <1>1, <1>2 DEF Types

\* A frame that is not recorded yet has an old texture.
Known(g, f) == g.valid /\ g.cur # f => frame'.again /\ g.base # None

\* The first entry of a history between two steps is committed.
LEMMA ConsumedOutcome ==
  ASSUME Types, NEW f \in Nat, NEW s \in Nat, s < Ticks * now,
         NEW g, Whole(g, f, s), g.base # None, g.pending # {}, Shows(g, Front(g.pending))
  PROVE  Outcome(f, s, since) /\ SameFrame(g)
<1>1. Linked(g, f, s)
  BY DEF Whole, Settled
<1>2. g.valid
  BY <1>1 DEF Linked
<1>3. Held(g, f, s, since)
  BY <1>2, WholeHeld
<1> QED
  BY <1>3, ShowsOutcome DEF Types

\* A paint, whatever it finds.
LEMMA PaintOutcome ==
  ASSUME Types, gpu \in Int, NEW f \in Nat, f # 0, NEW s \in Nat, s # 0, s < Ticks * now,
         since <= f, f = frame'.id, s = frame'.src,
         NEW g, Whole(g, f, s), (Punctual => Undue(g, s)) \/ Known(g, f),
         NEW scene, NEW cut, Notices(g, f, scene, cut), NEW n, n = Begins(f, scene, cut),
         scene \/ cut => ~(Consumes(g) /\ Ready(Front(g.pending))),
         NEW most, Paint(g, scene, cut, most)
  PROVE  Outcome(f, s, n) /\ Known(h', f)
<1>1. Typed(g) /\ Linked(g, f, s)
  BY DEF Whole, Settled
<1>2. Composed(f, s, n) => Outcome(f, s, n) /\ Known(h', f)
  BY DEF Composed, Known
<1>3. CASE ~Consumes(g)
  <2>1. Composite(g, scene, cut, most)
    BY <1>3 DEF Paint
  <2>2. ASSUME Punctual, g.valid, g.cur # f, ~(Undue(g, s)), NEW e \in g.pending
        PROVE  e.target > now
    <3>1. frame'.again /\ g.base # None
      BY <2>2 DEF Known
    <3>2. g.pending = {} \/ ~Due(g)
      BY <1>3, <3>1 DEF Consumes
    <3> QED
      BY <1>1, <3>2, NotDueWaits
  <2>3. InTime(g, f, s)
    BY <2>2 DEF InTime
  <2>4. Composed(f, s, n)
    BY <2>1, <2>3, CompositeOutcome, Zenon
  <2> QED
    BY <1>2, <2>4
<1>4. CASE Consumes(g)
  <2>1. g.pending # {} /\ g.base # None /\ (g.base = f \/ frame'.again)
    BY <1>4 DEF Consumes
  <2>2. CASE Ready(Front(g.pending))
    <3>1. Shows(g, Front(g.pending))
      BY <1>4, <2>2 DEF Paint
    <3>2. n = since
      BY <1>4, <2>2 DEF Begins
    <3>3. Outcome(f, s, since) /\ SameFrame(g)
      BY <2>1, <3>1, ConsumedOutcome
    <3>4. Known(h', f)
      BY <1>1, <2>1, <3>3 DEF Known, SameFrame, Linked
    <3> QED
      BY <3>2, <3>3, <3>4
  <2>3. CASE ~Ready(Front(g.pending))
    <3> DEFINE e == Front(g.pending)
               q == g.pending \ {e}
               k == [g EXCEPT !.pending = q]
    <3>1. Composite(k, scene, cut, most)
      BY <1>4, <2>3 DEF Paint
    <3>2. \A d \in g.pending : d # e => (Punctual => d.target > now)
      BY <2>1, RestWaits
    <3>3. q \in SUBSET g.pending /\ \A d \in g.pending : d.real => d \in q
      BY <2>3 DEF Ready
    <3> HIDE DEF e
    <3>4. k = [g EXCEPT !.pending = q]
      OBVIOUS
    <3>5. \A d \in q : d \in g.pending /\ d # e
      OBVIOUS
    <3> HIDE DEF q, k
    <3>6. AsLeft(g, k, q, f, s)
      BY <3>3, <3>4, WholeWithout, Zenon
    <3>7. Whole(k, f, s) /\ Leaner(g, k) /\ k.pending = q
      BY <3>6 DEF AsLeft
    <3>8. InTime(k, f, s)
      BY <3>2, <3>5, <3>7 DEF InTime
    <3>9. Notices(k, f, scene, cut)
      BY <3>7 DEF Notices, Leaner, Same
    <3>10. Composed(f, s, n)
      BY <3>1, <3>7, <3>8, <3>9, CompositeOutcome, Zenon
    <3> QED
      BY <1>2, <3>10
  <2> QED
    BY <2>2, <2>3
<1> QED
  BY <1>3, <1>4

\* What the history variables are after it.
AsPainted(f, s) ==
  /\ Outcome(f, s, since') /\ Known(h', f)
  /\ since' \in Nat /\ since' <= f /\ since <= since'
  /\ back' = (back /\ since' = since)
  /\ scenes \in Nat => scenes' \in Nat

\* A paint leaves them as they should be.
LEMMA PaintedOutcome ==
  ASSUME Types, gpu \in Int, NEW f \in Nat, f # 0, NEW s \in Nat, s # 0, s < Ticks * now,
         since <= f, f = frame'.id, s = frame'.src,
         NEW g, Whole(g, f, s), (Punctual => Undue(g, s)) \/ Known(g, f), Painted(g)
  PROVE  AsPainted(f, s)
<1>1. PICK scene \in BOOLEAN, cut \in BOOLEAN, most \in 0..(Mult - 1) :
        /\ scene \/ cut => g.base # f /\ ~(Consumes(g) /\ Ready(Front(g.pending)))
        /\ cut => g.unread /\ g.batch <= gpu
        /\ Changes(IF scene \/ cut THEN 1 ELSE 0)
        /\ since' = IF scene THEN f ELSE IF cut THEN f - 1 ELSE since
        /\ back' = (back /\ since' = since)
        /\ Paint(g, scene, cut, most)
  BY DEF Painted
<1>2. Notices(g, f, scene, cut)
  BY <1>1 DEF Notices
<1>3. since' = Begins(f, scene, cut)
  BY <1>1 DEF Begins
<1>4. PassBegun(f, scene, cut, since')
  BY <1>2, <1>3, NoticesIs, Zenon
<1>5. since' \in Nat /\ since' <= f /\ since <= since'
  BY <1>4 DEF PassBegun
<1>6. scene \/ cut => ~(Consumes(g) /\ Ready(Front(g.pending)))
  BY <1>1
<1>7. Outcome(f, s, since') /\ Known(h', f)
  BY <1>1, <1>2, <1>3, <1>6, PaintOutcome, Zenon
<1>8. scenes \in Nat => scenes' \in Nat
  BY <1>1 DEF Changes
<1> QED
  BY <1>1, <1>5, <1>7, <1>8 DEF AsPainted

-----------------------------------------------------------------------------
(* A display opportunity.                                                  *)

\* What the invariant says to the lemmas.
LEMMA InvTypes ==
  ASSUME Inv
  PROVE  /\ Types /\ gpu \in Int /\ frame \in [id : Nat, src : Nat, again : BOOLEAN]
         /\ frame.id \in Nat /\ frame.src \in Nat /\ frame.src < Ticks * now
         /\ (frame.id = 0 <=> frame.src = 0) /\ since <= frame.id
         /\ slips \in Nat /\ scenes \in Nat
         /\ Typed(h) /\ Whole(h, frame.id, frame.src)
BY DEF Inv, Clock, Types, Whole, Settled, Prompt, Punctual

\* What a step leaves of a history is the invariant after it.
LEMMA SoundNext ==
  ASSUME NEW f, NEW s, f = frame'.id, s = frame'.src, NEW n, since' = n,
         Sound(h', f, s, n, shown', flight', now + 1), now' = now + 1, slips' = slips,
         overdue => overdue',
         ~back' => ~back \/ since' # since
  PROVE  Settled(h, frame.id, frame.src)' /\ Prompt'
<1>1. /\ Typed(h') /\ Linked(h', f, s) /\ Queue(h', n, f) /\ SentOf(h', f, s, flight')
      /\ h'.valid => Upto(h', h'.cur, h'.src) /\ n <= h'.cur
      /\ Display(h', f, shown') /\ Steady(h', shown')
      /\ ~back' => /\ Order(h', n, h'.cur) /\ Mapped(h', n, h'.src) /\ Behind(h', n, shown')
                   /\ Reported(h', n, h'.cur, flight')
                   /\ (n = 0 => Arrives(h', h'.cur, shown'))
      /\ Punctual => OnTime(h', now + 1)
  <2>1. ~back' => Calm(n)
    BY DEF Calm
  <2> QED
    BY <2>1 DEF Sound
<1>2. Typed(h)' /\ Linked(h, frame.id, frame.src)' /\ Queue(h, since, frame.id)'
  BY <1>1 DEF Typed, Linked, Queue, New
<1>3. Sent(h, frame.id, frame.src)'
  BY <1>1 DEF SentOf, Sent
<1>4. h'.valid => Upto(h, h.cur, h.src)' /\ since' <= h'.cur
  BY <1>1 DEF Upto
<1>5. Display(h, frame.id, shown)' /\ Steady(h, shown)'
  BY <1>1 DEF Display, Steady
<1>6. ASSUME ~back' PROVE InOrder(h)'
  <2>1. Order(h, since, h.cur)'
    BY <1>1, <1>6 DEF Order, New
  <2>2. Mapped(h, since, h.src)'
    BY <1>1, <1>6 DEF Mapped, New, Target, Ideal
  <2>3. Behind(h, since, shown)' /\ Reported(h, since, h.cur, flight)'
    BY <1>1, <1>6 DEF Behind, Reported, New
  <2>4. since' = 0 => Arrives(h, h.cur, shown)'
    BY <1>1, <1>6 DEF Arrives
  <2> QED
    BY <2>1, <2>2, <2>3, <2>4 DEF InOrder
<1>7. Prompt'
  BY <1>1 DEF OnTime, Prompt, Punctual
<1> QED
  BY <1>2, <1>3, <1>4, <1>5, <1>6, <1>7 DEF Settled

\* A paint keeps the invariant.
LEMMA PaintedKeeps ==
  ASSUME Types, gpu \in Int, slips \in Nat, scenes \in Nat,
         NEW f \in Nat, NEW s \in Nat, s < Ticks * now, f = 0 <=> s = 0,
         f = frame'.id, s = frame'.src, frame' \in [id : Nat, src : Nat, again : BOOLEAN],
         AsPainted(f, s), now' = now + 1, gpu' = gpu, slips' = slips,
         overdue' \in BOOLEAN, overdue => overdue'
  PROVE  Inv' /\ Fine(shown', since')
<1>1. /\ Sound(h', f, s, since', shown', flight', now + 1) /\ Fine(shown', since')
      /\ shown' \in Int /\ flight' \in Seq(Reports)
      /\ Known(h', f) /\ since' \in Nat /\ since' <= f /\ since <= since'
      /\ back' = (back /\ since' = since) /\ scenes' \in Nat
  BY DEF AsPainted, Outcome
<1>2. Settled(h, frame.id, frame.src)' /\ Prompt'
  BY <1>1, SoundNext, Zenon
<1>3. Ticks \in Nat /\ now \in Nat /\ s < Ticks * (now + 1)
  <2>1. Ticks \in Nat /\ now \in Nat
    BY BidirAssumption DEF Types
  <2>2. Ticks * (now + 1) = Ticks * now + Ticks /\ Ticks * now \in Int
    BY <2>1
  <2> QED
    BY <2>1, <2>2
<1>4. Clock'
  BY <1>1, <1>3 DEF Clock
<1>5. Unrecorded'
  BY <1>1 DEF Known, Unrecorded
<1> QED
  BY <1>1, <1>2, <1>4, <1>5 DEF Inv

\* A new frame of the game is drawn, and not recorded yet.
LEMMA NextFrame ==
  ASSUME Types, NEW f \in Nat, NEW s \in Nat, NEW g, Whole(g, f, s), NEW t \in Nat, t > s
  PROVE  Whole(g, f + 1, t)
<1>1. /\ Typed(g) /\ Linked(g, f, s) /\ Queue(g, since, f) /\ Sent(g, f, s)
      /\ g.valid => Upto(g, g.cur, g.src) /\ since <= g.cur
      /\ Display(g, f, shown) /\ Steady(g, shown)
      /\ ~back => InOrder(g)
      /\ Punctual => OnTime(g, now)
  BY DEF Whole, Settled
<1>2. g.cur \in Int /\ g.src \in Int /\ g.hold \in Int /\ \A e \in g.pending : e.id \in Int
  BY <1>1, EntryTypes
<1>7. shown \in Int /\ \A i \in DOMAIN flight : flight[i].id \in Int
  <2>1. shown \in Int /\ flight \in Seq(Reports)
    BY DEF Types
  <2>2. \A i \in DOMAIN flight : flight[i] \in Reports
    BY <2>1
  <2> QED
    BY <2>1, <2>2 DEF Reports
<1>3. Linked(g, f + 1, t)
  BY <1>1, <1>2 DEF Linked
<1>4. Queue(g, since, f + 1)
  BY <1>1, <1>2 DEF Queue
<1>5. Sent(g, f + 1, t)
  BY <1>1, <1>7 DEF Sent
<1>6. Display(g, f + 1, shown)
  BY <1>1, <1>2, <1>7 DEF Display
<1> QED
  BY <1>1, <1>3, <1>4, <1>5, <1>6 DEF Whole, Settled

\* A new frame of the game keeps the invariant.
LEMMA NewFrameKeeps ==
  ASSUME Inv, NewFrame
  PROVE  Inv' /\ Fine(shown', since')
<1> DEFINE f == frame'.id
           s == frame'.src
<1>1. /\ Types /\ gpu \in Int /\ frame \in [id : Nat, src : Nat, again : BOOLEAN]
      /\ frame.id \in Nat /\ frame.src \in Nat /\ since <= frame.id
      /\ slips \in Nat /\ scenes \in Nat /\ Whole(h, frame.id, frame.src)
  BY InvTypes
<1>2. PICK t \in (Ticks * (now - 1 - Lag))..(Ticks * now - 1), again \in BOOLEAN :
        /\ t > frame.src /\ frame' = [id |-> frame.id + 1, src |-> t, again |-> again]
        /\ overdue' = (overdue \/ (h.epoch.valid /\ Ideal(h, t) <= Ticks * (now - 1)))
  BY DEF NewFrame
<1>3. Painted(h) /\ now' = now + 1 /\ gpu' = gpu /\ slips' = slips
  BY DEF NewFrame, Passes
<1>4. /\ Ticks * (now - 1 - Lag) \in Int /\ Ticks * (now - 1) \in Int /\ Ticks * now \in Int
      /\ overdue \in BOOLEAN
  BY <1>1, BidirAssumption DEF Types, Inv, Clock
<1>5. t \in Nat /\ t < Ticks * now /\ t # 0
  BY <1>1, <1>2, <1>4
<1>6. f = frame.id + 1 /\ s = t /\ frame' \in [id : Nat, src : Nat, again : BOOLEAN]
  BY <1>1, <1>2, <1>5
<1>7. Whole(h, f, s)
  BY <1>1, <1>2, <1>5, <1>6, NextFrame
<1>8. f \in Nat /\ f # 0 /\ s \in Nat /\ s # 0 /\ s < Ticks * now /\ since <= f
      /\ overdue' \in BOOLEAN /\ (overdue => overdue')
  BY <1>1, <1>2, <1>4, <1>5, <1>6 DEF Types
<1>11. Punctual => Undue(h, s)
  <2>1. ASSUME ~overdue', h.epoch.valid PROVE Ideal(h, t) > Ticks * (now - 1)
    <3>1. Ideal(h, t) \in Int
      <4>1. Typed(h)
        BY <1>1 DEF Whole, Settled
      <4> QED
        BY <1>5, <4>1, EntryTypes DEF Ideal
    <3>2. ~(Ideal(h, t) <= Ticks * (now - 1))
      BY <1>2, <2>1, Zenon
    <3> QED
      BY <1>4, <3>1, <3>2
  <2> QED
    BY <1>6, <2>1 DEF Punctual, Undue
<1>9. f = frame'.id /\ s = frame'.src
  OBVIOUS
<1> HIDE DEF f, s
<1>10. AsPainted(f, s)
  BY <1>1, <1>3, <1>7, <1>8, <1>9, <1>11, PaintedOutcome
<1> QED
  BY <1>1, <1>3, <1>6, <1>8, <1>9, <1>10, PaintedKeeps

\* Nothing is painted: what is shown stays.
LEMMA UnpaintedSound ==
  ASSUME Types, NEW f, NEW s, NEW g, Whole(g, f, s),
         Punctual => \A e \in g.pending : e.target > now
  PROVE  Sound(g, f, s, since, shown, flight, now + 1) /\ Fine(shown, since)
<1>1. /\ Typed(g) /\ Linked(g, f, s) /\ Queue(g, since, f) /\ Sent(g, f, s)
      /\ g.valid => Upto(g, g.cur, g.src) /\ since <= g.cur
      /\ Display(g, f, shown) /\ Steady(g, shown)
      /\ ~back => InOrder(g)
      /\ Punctual => OnTime(g, now)
  BY DEF Whole, Settled
<1>2. SentOf(g, f, s, flight)
  BY <1>1 DEF Sent, SentOf
<1>3. ASSUME Calm(since)
      PROVE  /\ Order(g, since, g.cur) /\ Mapped(g, since, g.src) /\ Behind(g, since, shown)
             /\ Reported(g, since, g.cur, flight) /\ (since = 0 => Arrives(g, g.cur, shown))
  BY <1>1, <1>3 DEF Calm, InOrder
<1>4. ASSUME Punctual PROVE OnTime(g, now + 1)
  <2>1. ASSUME NEW e \in g.pending PROVE e.target >= now + 1
    <3>1. e.target > now /\ e.target \in Int
      BY <1>1, <1>4, EntryTypes
    <3> QED
      BY <3>1 DEF Types
  <2> QED
    BY <1>1, <1>4, <2>1 DEF OnTime
<1>5. Fine(shown, since)
  BY DEF Fine, Types
<1> QED
  BY <1>1, <1>2, <1>3, <1>4, <1>5 DEF Sound

\* A pass without a new frame keeps the invariant.
LEMMA RepaintKeeps ==
  ASSUME Inv, Repaint
  PROVE  Inv' /\ Fine(shown', since')
<1> DEFINE f == frame'.id
           s == frame'.src
           due == h.pending # {} /\ Due(h)
           ready == due /\ Ready(Front(h.pending))
<1>1. /\ Types /\ gpu \in Int /\ frame \in [id : Nat, src : Nat, again : BOOLEAN]
      /\ frame.id \in Nat /\ frame.src \in Nat /\ frame.src < Ticks * now
      /\ (frame.id = 0 <=> frame.src = 0) /\ since <= frame.id
      /\ slips \in Nat /\ scenes \in Nat /\ Typed(h) /\ Whole(h, frame.id, frame.src)
  BY InvTypes
<1>2. frame' = frame /\ frame.id # 0 /\ now' = now + 1 /\ gpu' = gpu /\ slips' = slips
      /\ overdue' = overdue /\ overdue \in BOOLEAN
  BY DEF Repaint, Passes, Inv, Clock
<1>3. /\ f \in Nat /\ f # 0 /\ s \in Nat /\ s # 0 /\ s < Ticks * now /\ since <= f
      /\ f = frame'.id /\ s = frame'.src /\ Whole(h, f, s) /\ (f = 0 <=> s = 0)
      /\ frame' \in [id : Nat, src : Nat, again : BOOLEAN]
  BY <1>1, <1>2
<1>4. PICK overlay \in BOOLEAN, budget \in BOOLEAN :
        LET g == IF due /\ ~(ready /\ (~overlay \/ budget)) THEN Reals(h) ELSE h
        IN  IF overlay \/ ready THEN Painted(g)
            ELSE h' = g /\ UNCHANGED <<shown, host, flight, scenes, since, back>>
  BY DEF Repaint
<1>5. Known(h, f)
  <2>1. Unrecorded
    BY DEF Inv
  <2> QED
    BY <1>2, <2>1 DEF Unrecorded, Known
<1> DEFINE q == Real(h.pending)
           k == [h EXCEPT !.pending = q]
           g == IF due /\ ~(ready /\ (~overlay \/ budget)) THEN Reals(h) ELSE h
<1>6. Reals(h) = k /\ q \in SUBSET h.pending /\ \A e \in h.pending : e.real => e \in q
  BY DEF Reals, Real
<1> HIDE DEF f, s, q
<1>7. AsLeft(h, k, q, f, s)
  <2>1. k = [h EXCEPT !.pending = q]
    OBVIOUS
  <2> HIDE DEF k
  <2> QED
    BY <1>3, <1>6, <2>1, WholeWithout, Zenon
<1> HIDE DEF k
<1>8. Whole(k, f, s) /\ Known(k, f) /\ k.pending = q
  BY <1>5, <1>7 DEF AsLeft, Leaner, Same, Known
<1>9. Whole(g, f, s) /\ Known(g, f)
  BY <1>3, <1>5, <1>6, <1>8
<1>10. CASE overlay \/ ready
  <2>1. Painted(g)
    BY <1>4, <1>10
  <2> HIDE DEF g
  <2>2. AsPainted(f, s)
    BY <1>1, <1>3, <1>9, <2>1, PaintedOutcome
  <2> QED
    BY <1>1, <1>2, <1>3, <2>2, PaintedKeeps
<1>11. CASE ~(overlay \/ ready)
  <2>1. h' = g /\ UNCHANGED <<shown, host, flight, scenes, since, back>>
    BY <1>4, <1>11
  <2>2. ASSUME Punctual, NEW e \in g.pending PROVE e.target > now
    <3>1. CASE due
      <4>1. ~Ready(Front(h.pending)) /\ h.pending # {}
        BY <1>11, <3>1
      <4>2. e \in h.pending /\ e.real
        BY <1>6, <1>8, <1>11, <2>2, <3>1 DEF q, Real
      <4>3. e # Front(h.pending)
        BY <4>1, <4>2 DEF Ready
      <4> QED
        BY <1>1, <2>2, <4>1, <4>2, <4>3, RestWaits
    <3>2. CASE ~due
      <4>1. g = h
        BY <3>2
      <4> QED
        BY <1>1, <2>2, <3>2, <4>1, NotDueWaits
    <3> QED
      BY <3>1, <3>2
  <2> HIDE DEF g
  <2>3. Sound(g, f, s, since, shown, flight, now + 1) /\ Fine(shown, since)
    BY <1>1, <1>9, <2>2, UnpaintedSound
  <2>4. Sound(h', f, s, since', shown', flight', now + 1) /\ Fine(shown', since')
    BY <2>1, <2>3
  <2>5. AsPainted(f, s)
    BY <1>1, <1>3, <1>9, <2>1, <2>4 DEF AsPainted, Outcome, Types
  <2> QED
    BY <1>1, <1>2, <1>3, <2>5, PaintedKeeps
<1> QED
  BY <1>10, <1>11

-----------------------------------------------------------------------------
(* Between opportunities.                                                  *)

\* A step that leaves the history alone, and may take reports.
LEMMA StayedWhole ==
  ASSUME Settled(h, frame.id, frame.src), Prompt, h' = h, frame' = frame, since' = since,
         shown' = shown, back' = back,
         \A i \in DOMAIN flight' : \E j \in DOMAIN flight : flight'[i] = flight[j],
         slips' = 0 => slips = 0 /\ now' = now, overdue' = overdue
  PROVE  Settled(h, frame.id, frame.src)' /\ Prompt'
<1>1. /\ Typed(h) /\ Linked(h, frame.id, frame.src) /\ Queue(h, since, frame.id)
      /\ Sent(h, frame.id, frame.src)
      /\ h.valid => Upto(h, h.cur, h.src) /\ since <= h.cur
      /\ Display(h, frame.id, shown) /\ Steady(h, shown)
      /\ ~back => InOrder(h)
  BY DEF Settled
<1>2. Typed(h)' /\ Linked(h, frame.id, frame.src)' /\ Queue(h, since, frame.id)'
  BY <1>1 DEF Typed, Linked, Queue, New
<1>3. Sent(h, frame.id, frame.src)'
  BY <1>1 DEF Sent
<1>4. h'.valid => Upto(h, h.cur, h.src)' /\ since' <= h'.cur
  BY <1>1 DEF Upto
<1>5. Display(h, frame.id, shown)' /\ Steady(h, shown)'
  BY <1>1 DEF Display, Steady
<1>6. ASSUME ~back' PROVE InOrder(h)'
  <2>1. /\ Order(h, since, h.cur) /\ Mapped(h, since, h.src) /\ Behind(h, since, shown)
        /\ Reported(h, since, h.cur, flight) /\ (since = 0 => Arrives(h, h.cur, shown))
    BY <1>1, <1>6 DEF InOrder
  <2>2. Order(h, since, h.cur)' /\ Mapped(h, since, h.src)'
    BY <2>1 DEF Order, Mapped, New, Target, Ideal
  <2>3. Behind(h, since, shown)' /\ Reported(h, since, h.cur, flight)'
    BY <2>1 DEF Behind, Reported, New
  <2>4. since' = 0 => Arrives(h, h.cur, shown)'
    BY <2>1 DEF Arrives
  <2> QED
    BY <2>2, <2>3, <2>4 DEF InOrder
<1>7. Prompt'
  BY DEF Prompt, OnTime
<1> QED
  BY <1>2, <1>3, <1>4, <1>5, <1>6, <1>7 DEF Settled

\* A missed opportunity keeps the invariant.
LEMMA MissedKeeps ==
  ASSUME Inv, Missed
  PROVE  Inv' /\ Fine(shown', since')
<1>1. /\ now' = now + 1 /\ slips' = slips + 1
      /\ UNCHANGED <<frame, h, gpu, shown, host, flight, scenes, since, back, overdue>>
  BY DEF Missed, Passes, Misses
<1>2. /\ Types /\ slips \in Nat /\ Settled(h, frame.id, frame.src) /\ Prompt /\ Clock
      /\ Unrecorded
  BY InvTypes DEF Inv
<1>3. slips' # 0 /\ now' \in Nat /\ slips' \in Nat
  BY <1>1, <1>2 DEF Types
<1>4. Settled(h, frame.id, frame.src)' /\ Prompt'
  BY <1>1, <1>2, <1>3, StayedWhole
<1>5. frame.src < Ticks * now'
  <2>1. Ticks \in Nat /\ now \in Nat /\ frame.src \in Nat /\ frame.src < Ticks * now
    BY <1>2, InvTypes, BidirAssumption DEF Types
  <2>2. Ticks * (now + 1) = Ticks * now + Ticks /\ Ticks * now \in Int
    BY <2>1
  <2> QED
    BY <1>1, <2>1, <2>2
<1>6. Clock' /\ Unrecorded'
  BY <1>1, <1>2, <1>3, <1>5 DEF Clock, Unrecorded
<1> QED
  BY <1>1, <1>2, <1>4, <1>6 DEF Inv, Fine, Types

\* A change of focus leaves nothing of its scene in the queue.
LEMMA FocusChangeKeeps ==
  ASSUME Inv, FocusChange
  PROVE  Inv' /\ Fine(shown', since')
<1> DEFINE f == frame.id
           s == frame.src
<1>1. /\ Types /\ scenes \in Nat /\ f \in Nat /\ Typed(h) /\ Settled(h, f, s) /\ Prompt
      /\ Clock /\ Unrecorded
  BY InvTypes DEF Inv
<1>2. /\ h' = Invalidated(h) /\ since' = f /\ scenes' \in Nat
      /\ back' = (back /\ since' = since)
      /\ UNCHANGED <<now, frame, gpu, shown, host, flight, overdue, slips>>
  BY <1>1 DEF FocusChange, Changes
<1>3. /\ Typed(h') /\ h'.pending = Real(h.pending) /\ h'.hold = h.hold
      /\ h'.epoch.valid = FALSE /\ h'.recs = {} /\ h'.cur = None
      /\ h'.base = None /\ h'.valid = FALSE /\ h'.unread = FALSE
  <2>1. ASSUME NEW k, k = Invalidated(h)
        PROVE  /\ Typed(k) /\ k.pending = Real(h.pending) /\ k.hold = h.hold
               /\ k.epoch.valid = FALSE /\ k.recs = {} /\ k.cur = None
               /\ k.base = None /\ k.valid = FALSE /\ k.unread = FALSE
    BY <1>1, <2>1, InvalidatedIs
  <2> QED
    BY <1>2, <2>1
<1>4. /\ Linked(h, f, s) /\ Queue(h, since, f) /\ Sent(h, f, s) /\ Display(h, f, shown)
  BY <1>1 DEF Settled
<1>5. \A e \in h'.pending : e \in h.pending /\ e.real /\ e.id <= f /\ ~New(e, f)
  <2>1. ASSUME NEW e \in h'.pending PROVE e \in h.pending /\ e.real /\ e.id <= f /\ ~New(e, f)
    <3>1. e \in h.pending /\ e.real
      BY <1>3 DEF Real
    <3>2. e.id <= f /\ e.id \in Int
      BY <1>1, <1>4, <3>1, EntryTypes DEF Queue
    <3> QED
      BY <1>1, <3>1, <3>2 DEF New
  <2> QED
    BY <2>1
<1>6. Typed(h)' /\ Linked(h, frame.id, frame.src)' /\ Steady(h, shown)'
  BY <1>3 DEF Typed, Linked, Steady
<1>7. Queue(h, since, frame.id)'
  BY <1>2, <1>4, <1>5 DEF Queue, New
<1>8. Sent(h, frame.id, frame.src)'
  BY <1>2, <1>3, <1>4 DEF Sent
<1>9. Display(h, frame.id, shown)'
  BY <1>2, <1>3, <1>4, <1>5 DEF Display
<1>10. InOrder(h)'
  <2>1. \A e \in h'.pending : ~New(e, since')
    BY <1>2, <1>5
  <2>2. Order(h, since, h.cur)' /\ Mapped(h, since, h.src)'
    BY <2>1 DEF Order, Mapped, New
  <2>3. Behind(h, since, shown)' /\ Reported(h, since, h.cur, flight)'
    BY <1>2, <1>3, <1>4, <2>1 DEF Behind, Reported, New, Display
  <2>4. Arrives(h, h.cur, shown)'
    BY <1>3 DEF Arrives
  <2> QED
    BY <2>2, <2>3, <2>4 DEF InOrder
<1>11. Prompt'
  BY <1>1, <1>2, <1>3, <1>5 DEF OnTime, Prompt
<1>12. Settled(h, frame.id, frame.src)'
  BY <1>3, <1>6, <1>7, <1>8, <1>9, <1>10 DEF Settled
<1>13. Clock' /\ Unrecorded'
  BY <1>1, <1>2, <1>3 DEF Clock, Unrecorded
<1> QED
  BY <1>1, <1>2, <1>11, <1>12, <1>13 DEF Inv, Fine, Types

\* The GPU finishes, or the backend lets an image go.
LEMMA ElsewhereKeeps ==
  ASSUME Inv, Finish \/ Release
  PROVE  Inv' /\ Fine(shown', since')
<1>1. /\ Types /\ Settled(h, frame.id, frame.src) /\ Prompt /\ Clock /\ Unrecorded /\ Typed(h)
  BY InvTypes DEF Inv
<1>2. /\ gpu' \in Int
      /\ UNCHANGED <<now, frame, h, shown, flight, scenes, since, back, overdue, slips>>
  <2>1. h.batch \in Int /\ gpu \in Int
    BY <1>1, EntryTypes DEF Clock
  <2> QED
    BY <2>1 DEF Finish, Release
<1>3. Settled(h, frame.id, frame.src)' /\ Prompt'
  BY <1>1, <1>2, StayedWhole
<1>4. Clock' /\ Unrecorded'
  BY <1>1, <1>2 DEF Clock, Unrecorded
<1> QED
  BY <1>1, <1>2, <1>3, <1>4 DEF Inv, Fine, Types

\* The first report is taken.
LEMMA TailIs ==
  ASSUME Types, flight # <<>>
  PROVE  /\ 1 \in DOMAIN flight /\ Head(flight) = flight[1]
         /\ Head(flight).id \in Int /\ Head(flight).at \in Int
         /\ Tail(flight) \in Seq(Reports)
         /\ \A i \in DOMAIN Tail(flight) :
              i + 1 \in DOMAIN flight /\ Tail(flight)[i] = flight[i + 1]
<1>1. flight \in Seq(Reports) /\ flight # <<>>
  BY DEF Types
<1>2. Head(flight) \in Reports
  BY <1>1
<1> QED
  BY <1>1, <1>2 DEF Reports

\* A lost report keeps the invariant.
LEMMA DiscardedKeeps ==
  ASSUME Inv, Discarded
  PROVE  Inv' /\ Fine(shown', since')
<1>1. /\ Types /\ Settled(h, frame.id, frame.src) /\ Prompt /\ Clock /\ Unrecorded
  BY InvTypes DEF Inv
<1>2. /\ flight # <<>> /\ flight' = Tail(flight) /\ slips' = slips + 1
      /\ UNCHANGED <<now, frame, h, gpu, shown, host, scenes, since, back, overdue>>
  BY DEF Discarded, Misses
<1>3. /\ flight' \in Seq(Reports)
      /\ \A i \in DOMAIN flight' : i + 1 \in DOMAIN flight /\ flight'[i] = flight[i + 1]
  BY <1>1, <1>2, TailIs
<1>4. slips' \in Nat /\ slips' # 0
  BY <1>1, <1>2 DEF Clock
<1>5. Settled(h, frame.id, frame.src)' /\ Prompt'
  BY <1>1, <1>2, <1>3, <1>4, StayedWhole
<1>6. Clock' /\ Unrecorded'
  BY <1>1, <1>2, <1>3, <1>4 DEF Clock, Unrecorded
<1> QED
  BY <1>1, <1>2, <1>5, <1>6 DEF Inv, Fine, Types

\* What a report does to a history: the records up to its frame go, and the mapping
\* shows that frame when it was shown.
Reset(g, k, f, flip) ==
  /\ Typed(k) /\ Same(g, k) /\ k.pending = g.pending /\ k.grid = g.grid
  /\ k.recs \subseteq g.recs /\ \A r \in g.recs : r.id > f => r \in k.recs
  /\ k.epoch.valid = g.epoch.valid /\ k.epoch.src = g.epoch.src
  /\ \/ k.epoch.disp = g.epoch.disp
     \/ \E r \in g.recs : r.id = f /\ k.epoch.disp = flip - (r.src - g.epoch.src)

\* That is what it does.
LEMMA CorrectedIs ==
  ASSUME NEW g, Typed(g), NEW f \in Int, NEW flip \in Int, NEW k, k = Corrected(g, f, flip)
  PROVE  Reset(g, k, f, flip)
<1> DEFINE r == CHOOSE x \in g.recs : x.id = f
           moves == /\ r.n = g.epoch.n /\ g.epoch.valid
                    /\ r.src >= g.epoch.src /\ r.src - g.epoch.src <= flip
           later == {x \in g.recs : x.id > f}
           d == flip - (r.src - g.epoch.src)
<1>1. k = IF \A x \in g.recs : x.id # f THEN g
          ELSE IF moves THEN [g EXCEPT !.recs = later, !.epoch.disp = d]
          ELSE [g EXCEPT !.recs = later]
  BY DEF Corrected
<1>2. g \in Histories /\ IsFiniteSet(g.pending) /\ g.recs \in SUBSET Records /\ g.epoch \in Epochs
  BY DEF Typed, Histories
<1>3. /\ later \in SUBSET Records /\ later \subseteq g.recs
      /\ \A x \in g.recs : x.id > f => x \in later
  BY <1>2
<1>4. (\E x \in g.recs : x.id = f) => r \in g.recs /\ r.id = f
  OBVIOUS
<1> HIDE DEF r, later, d
<1>5. CASE \A x \in g.recs : x.id # f
  <2>1. k = g
    BY <1>1, <1>5
  <2> QED
    BY <2>1 DEF Reset, Same
<1>6. CASE (\E x \in g.recs : x.id = f) /\ ~moves
  <2>1. k = [g EXCEPT !.recs = later]
    BY <1>1, <1>6
  <2>2. k \in Histories
    <3>1. \A q \in SUBSET Records : [g EXCEPT !.recs = q] \in Histories
      BY <1>2, Updates
    <3> QED
      BY <1>3, <2>1, <3>1, Zenon
  <2>3. /\ k.pending = g.pending /\ k.grid = g.grid /\ k.recs = later /\ k.epoch = g.epoch
        /\ Same(g, k)
    BY <1>2, <2>1 DEF Histories, Same
  <2> QED
    BY <1>2, <1>3, <2>2, <2>3 DEF Reset, Typed
<1>7. CASE (\E x \in g.recs : x.id = f) /\ moves
  <2> DEFINE w == [g EXCEPT !.recs = later]
             m == [g.epoch EXCEPT !.disp = d]
  <2>1. r \in g.recs /\ r.id = f /\ r.src \in Int /\ g.epoch.src \in Int
    BY <1>2, <1>4, <1>7 DEF Records, Epochs
  <2>2. d \in Int /\ d = flip - (r.src - g.epoch.src)
    BY <2>1 DEF d
  <2>3. m \in Epochs /\ m.valid = g.epoch.valid /\ m.src = g.epoch.src /\ m.disp = d
    BY <1>2, <2>2 DEF Epochs
  <2>4. w \in Histories
    <3>1. \A q \in SUBSET Records : [g EXCEPT !.recs = q] \in Histories
      BY <1>2, Updates
    <3> QED
      BY <1>3, <3>1, Zenon
  <2>5. w.epoch = g.epoch /\ w.pending = g.pending /\ w.grid = g.grid /\ w.recs = later
        /\ Same(g, w)
    BY <1>2 DEF Histories, Same
  <2>6. k = [w EXCEPT !.epoch = m]
    <3>1. k = [g EXCEPT !.recs = later, !.epoch.disp = d]
      BY <1>1, <1>7
    <3> QED
      BY <1>2, <2>5, <3>1 DEF Histories
  <2> HIDE DEF w, m
  <2>7. k \in Histories
    <3>1. \A e \in Epochs : [w EXCEPT !.epoch = e] \in Histories
      BY <2>4, Updates
    <3> QED
      BY <2>3, <2>6, <3>1, Zenon
  <2>8. /\ k.pending = w.pending /\ k.grid = w.grid /\ k.recs = w.recs /\ k.epoch = m
        /\ Same(w, k)
    BY <2>4, <2>6 DEF Histories, Same
  <2>9. Same(g, k)
    BY <2>5, <2>8 DEF Same
  <2>10. Typed(k)
    BY <1>2, <2>5, <2>7, <2>8 DEF Typed
  <2> QED
    BY <1>3, <2>1, <2>2, <2>3, <2>5, <2>8, <2>9, <2>10 DEF Reset
<1> QED
  BY <1>5, <1>6, <1>7

\* A report keeps the invariant: it moves the mapping, and `back' tells if that put it
\* back behind the queue.
LEMMA FeedbackKeeps ==
  ASSUME Inv, Feedback
  PROVE  Inv' /\ Fine(shown', since')
<1> DEFINE f == frame.id
           s == frame.src
           id == Head(flight).id
           at == Head(flight).at
<1>1. /\ Types /\ slips \in Nat /\ Typed(h) /\ Settled(h, f, s) /\ Prompt /\ Clock
      /\ Unrecorded
  BY InvTypes DEF Inv
<1>2. PICK slip \in {0, 1} : slips' = slips + slip /\ h' = Corrected(h, id, Ticks * (at + slip))
  BY DEF Feedback, Misses
<1>3. /\ flight # <<>> /\ flight' = Tail(flight)
      /\ back' = (back \/ \E e \in h'.pending : e.id > since /\ e.target > Target(h', h'.src))
      /\ UNCHANGED <<now, frame, gpu, shown, host, scenes, since, overdue>>
  BY DEF Feedback
<1>4. /\ 1 \in DOMAIN flight /\ id = flight[1].id /\ at = flight[1].at
      /\ id \in Int /\ at \in Int /\ flight' \in Seq(Reports)
      /\ \A i \in DOMAIN flight' : i + 1 \in DOMAIN flight /\ flight'[i] = flight[i + 1]
  BY <1>1, <1>3, TailIs
<1> DEFINE flip == Ticks * (at + slip)
<1>5. flip \in Int /\ (slip = 0 => flip = Ticks * at) /\ slips' \in Nat
      /\ (slips' = 0 => slip = 0 /\ slips = 0)
  BY <1>1, <1>2, <1>4, BidirAssumption
<1> HIDE DEF id, at, flip
<1>6. Reset(h, h', id, flip)
  <2>1. ASSUME NEW k, k = Corrected(h, id, flip) PROVE Reset(h, k, id, flip)
    BY <1>1, <1>4, <1>5, <2>1, CorrectedIs
  <2>2. h' = Corrected(h, id, flip)
    BY <1>2 DEF flip
  <2> QED
    BY <2>1, <2>2
<1>7. /\ Typed(h') /\ Same(h, h') /\ h'.pending = h.pending /\ h'.grid = h.grid
      /\ h'.recs \subseteq h.recs /\ \A r \in h.recs : r.id > id => r \in h'.recs
      /\ h'.epoch.valid = h.epoch.valid /\ h'.epoch.src = h.epoch.src
      /\ \/ h'.epoch.disp = h.epoch.disp
         \/ \E r \in h.recs : r.id = id /\ h'.epoch.disp = flip - (r.src - h.epoch.src)
  BY <1>6 DEF Reset
<1>8. /\ h'.cur = h.cur /\ h'.src = h.src /\ h'.valid = h.valid /\ h'.hold = h.hold
      /\ h'.base = h.base /\ h'.unread = h.unread
  BY <1>7 DEF Same
<1>9. /\ Linked(h, f, s) /\ Queue(h, since, f) /\ Sent(h, f, s)
      /\ h.valid => Upto(h, h.cur, h.src) /\ since <= h.cur
      /\ Display(h, f, shown) /\ Steady(h, shown)
      /\ ~back => InOrder(h)
      /\ slips = 0 /\ ~overdue => OnTime(h, now)
  BY <1>1 DEF Settled, Prompt
<1>10. Typed(h)' /\ Linked(h, frame.id, frame.src)' /\ Queue(h, since, frame.id)'
  <2>1. Linked(h, frame.id, frame.src)'
    BY <1>3, <1>7, <1>8, <1>9 DEF Linked
  <2>2. Queue(h, since, frame.id)'
    BY <1>3, <1>7, <1>9 DEF Queue, New
  <2> QED
    BY <1>7, <2>1, <2>2 DEF Typed
<1>11. Sent(h, frame.id, frame.src)'
  BY <1>3, <1>4, <1>7, <1>8, <1>9 DEF Sent
<1>12. h'.valid => Upto(h, h.cur, h.src)' /\ since' <= h'.cur
  BY <1>3, <1>7, <1>8, <1>9 DEF Upto
<1>13. Display(h, frame.id, shown)' /\ Steady(h, shown)'
  BY <1>3, <1>7, <1>8, <1>9 DEF Display, Steady
<1>14. ASSUME ~back' PROVE InOrder(h)'
  <2>1. ~back /\ \A e \in h'.pending : ~(e.id > since /\ e.target > Target(h', h'.src))
    BY <1>3, <1>14
  <2>2. /\ Order(h, since, h.cur) /\ Mapped(h, since, h.src) /\ Behind(h, since, shown)
        /\ Reported(h, since, h.cur, flight) /\ (since = 0 => Arrives(h, h.cur, shown))
    BY <1>9, <2>1 DEF InOrder
  <2>3. Order(h, since, h.cur)'
    <3>1. ASSUME NEW e \in h.pending, New(e, since), e.real
          PROVE  \E r \in h'.recs : r.id = h.cur
      <4>1. id < h.cur
        BY <1>4, <2>2, <3>1 DEF Reported
      <4>2. PICK r \in h.recs : r.id = h.cur
        BY <2>2, <3>1 DEF Order
      <4> QED
        BY <1>7, <4>1, <4>2
    <3> QED
      BY <1>3, <1>7, <1>8, <2>2, <3>1 DEF Order, New
  <2>4. Mapped(h, since, h.src)'
    <3>1. ASSUME NEW e \in h'.pending, e.id > since
          PROVE  h'.epoch.valid /\ e.target <= Target(h', h'.src)
      <4>1. h'.epoch.valid
        BY <1>7, <2>2, <3>1 DEF Mapped, New
      <4>2. ~(e.target > Target(h', h'.src))
        BY <2>1, <3>1
      <4>3. e.target \in Int /\ Target(h', h'.src) \in Int
        <5>1. ASSUME NEW k, Typed(k)
              PROVE  (\A x \in k.pending : x.target \in Int) /\ Target(k, k.src) \in Int
          BY <5>1, EntryTypes, TargetIs
        <5> QED
          BY <1>7, <5>1
      <4> QED
        BY <4>1, <4>2, <4>3
    <3> QED
      BY <1>3, <3>1 DEF Mapped, New, Target, Ideal
  <2>5. Behind(h, since, shown)' /\ Reported(h, since, h.cur, flight)'
    BY <1>3, <1>4, <1>7, <1>8, <2>2 DEF Behind, Reported, New
  <2>6. since' = 0 => Arrives(h, h.cur, shown)'
    BY <1>3, <1>7, <1>8, <2>2 DEF Arrives
  <2> QED
    BY <2>3, <2>4, <2>5, <2>6 DEF InOrder
<1>15. ASSUME slips' = 0, ~overdue' PROVE OnTime(h, now)'
  <2>1. OnTime(h, now) /\ slip = 0
    BY <1>3, <1>5, <1>9, <1>15
  <2>2. ASSUME h'.epoch.valid PROVE h'.epoch.disp > h'.epoch.src
    <3>1. CASE h'.epoch.disp = h.epoch.disp
      BY <1>7, <2>1, <2>2, <3>1 DEF OnTime
    <3>2. CASE \E r \in h.recs : r.id = id /\ h'.epoch.disp = flip - (r.src - h.epoch.src)
      <4>1. PICK r \in h.recs : r.id = id /\ h'.epoch.disp = flip - (r.src - h.epoch.src)
        BY <3>2
      <4>2. r.src < Ticks * at
        BY <1>4, <1>9, <4>1 DEF Sent
      <4>3. r.src \in Int /\ h.epoch.src \in Int
        BY <1>1, <4>1, EntryTypes
      <4> QED
        BY <1>5, <1>7, <2>1, <4>1, <4>2, <4>3
    <3> QED
      BY <1>7, <3>1, <3>2
  <2> QED
    BY <1>3, <1>7, <2>1, <2>2 DEF OnTime
<1>16. Settled(h, frame.id, frame.src)' /\ Prompt'
  BY <1>7, <1>10, <1>11, <1>12, <1>13, <1>14, <1>15 DEF Settled, Prompt
<1>17. back' \in BOOLEAN
  BY <1>1, <1>3 DEF Types
<1>18. Clock' /\ Unrecorded'
  BY <1>1, <1>3, <1>4, <1>5, <1>8, <1>17 DEF Clock, Unrecorded
<1> QED
  BY <1>1, <1>3, <1>16, <1>18 DEF Inv, Fine, Types

-----------------------------------------------------------------------------
(* The theorems.                                                           *)

\* The invariant holds at first.
LEMMA InitInv ==
  ASSUME Init
  PROVE  Inv
<1>1. /\ now = 1 /\ gpu = 0 /\ shown = 0 /\ flight = <<>> /\ scenes = 0 /\ since = 0
      /\ frame = [id |-> 0, src |-> 0, again |-> FALSE] /\ back = FALSE /\ slips = 0
      /\ overdue = FALSE
      /\ h.pending = {} /\ h.epoch = NoEpoch /\ h.recs = {} /\ h.hold = 0 /\ h.cur = 0
      /\ h.src = 0 /\ h.valid = FALSE /\ h.base = 0 /\ h.unread = FALSE
  BY DEF Init, None
<1>2. NoEpoch \in Epochs /\ NoEpoch.valid = FALSE
  BY DEF NoEpoch, Epochs
<1>3. h \in Histories
  BY <1>2 DEF Init, None, Histories
<1>4. Typed(h)
  BY <1>1, <1>3, FS_EmptySet DEF Typed
<1>5. Clock
  <2>1. frame.src < Ticks * now
    BY <1>1, BidirAssumption
  <2>2. flight \in Seq(Reports)
    BY <1>1
  <2>3. frame \in [id : Nat, src : Nat, again : BOOLEAN] /\ (frame.id = 0 <=> frame.src = 0)
    BY <1>1
  <2>4. now \in Nat /\ gpu \in Int /\ shown \in Int /\ since \in Nat /\ since <= frame.id
    BY <1>1
  <2>5. slips \in Nat /\ scenes \in Nat /\ back \in BOOLEAN /\ overdue \in BOOLEAN
    BY <1>1
  <2> QED
    BY <2>1, <2>2, <2>3, <2>4, <2>5 DEF Clock
<1>6. ~Made(h.hold)
  BY <1>1 DEF Made
<1>7. Settled(h, frame.id, frame.src) /\ Prompt
  <2>1. Linked(h, frame.id, frame.src) /\ Queue(h, since, frame.id)
    BY <1>1, <1>2 DEF Linked, Queue, None
  <2>2. Sent(h, frame.id, frame.src)
    BY <1>1 DEF Sent
  <2>3. Display(h, frame.id, shown) /\ Steady(h, shown)
    BY <1>1, <1>2, <1>6 DEF Display, Steady, None
  <2>4. InOrder(h)
    BY <1>1, <1>2 DEF InOrder, Order, Mapped, Behind, Reported, Arrives
  <2>5. OnTime(h, now)
    BY <1>1, <1>2 DEF OnTime
  <2> QED
    BY <1>1, <1>4, <2>1, <2>2, <2>3, <2>4, <2>5 DEF Settled, Prompt
<1> QED
  BY <1>1, <1>5, <1>7 DEF Inv, Unrecorded

\* Every step keeps the invariant, and shows what it may.
LEMMA NextKeeps ==
  ASSUME Inv, Next
  PROVE  Inv' /\ Fine(shown', since')
<1>1. CASE NewFrame
  BY <1>1, NewFrameKeeps
<1>2. CASE Repaint
  BY <1>2, RepaintKeeps
<1>3. CASE Missed
  BY <1>3, MissedKeeps
<1>4. CASE FocusChange
  BY <1>4, FocusChangeKeeps
<1>5. CASE Finish \/ Release
  BY <1>5, ElsewhereKeeps
<1>6. CASE Feedback
  BY <1>6, FeedbackKeeps
<1>7. CASE Discarded
  BY <1>7, DiscardedKeeps
<1> QED
  BY <1>1, <1>2, <1>3, <1>4, <1>5, <1>6, <1>7 DEF Next

\* So does a step that changes nothing.
LEMMA StutterKeeps ==
  ASSUME Inv, UNCHANGED vars
  PROVE  Inv'
BY DEF Inv, vars, Clock, Unrecorded, Settled, Prompt, Typed, Linked, Queue, Sent, Upto, Display,
       Steady, InOrder, Order, Mapped, Behind, Reported, Arrives, OnTime, New, Target, Ideal

\* The invariant: whatever is planned, shed, missed or reported, the history, the display
\* and the reports on their way fit together as `Settled' says.
THEOREM InvHolds == Spec => []Inv
<1>1. Init => Inv
  BY InitInv
<1>2. Inv /\ [Next]_vars => Inv'
  BY NextKeeps, StutterKeeps
<1> QED
  BY <1>1, <1>2, PTL DEF Spec

\* What is shown of a scene never goes back, as long as no report has moved the mapping
\* back behind the queue, and no interpolation lies across a change of scene that was
\* noticed, however often frames are shed, missed, late or reported.
THEOREM ForwardHolds == Spec => Forward
<1> DEFINE Steps == /\ ~back => shown' >= shown \/ shown' <= 2 * since
                    /\ Made(shown') => shown' > 2 * since'
<1>1. Inv /\ [Next]_vars => [Steps]_shown
  <2>1. ASSUME Inv, Next, shown' # shown PROVE Steps
    BY <2>1, NextKeeps DEF Fine
  <2> QED
    BY <2>1 DEF vars
<1> QED
  BY <1>1, InvHolds, PTL DEF Spec, Forward

\* Every real frame that is queued is shown when it is due, as long as the display misses
\* nothing and no frame comes when its opportunity has passed; and in the first scene the last frame recorded is on the display or queued,
\* until a report moves the mapping back behind the queue.
LEMMA InvArrives ==
  ASSUME Inv
  PROVE  RealsArrive
<1>1. /\ Types /\ Typed(h)
      /\ slips = 0 /\ ~overdue => OnTime(h, now)
      /\ ~back => InOrder(h)
  BY InvTypes DEF Inv, Settled, Prompt
<1>2. slips = 0 /\ ~overdue => \A e \in Real(h.pending) : e.target >= now
  BY <1>1 DEF OnTime, Real
<1>3. ASSUME since = 0, ~back, h.epoch.valid, h.cur = frame.id
      PROVE  shown = 2 * frame.id \/ \E e \in Real(h.pending) : e.id = frame.id
  <2>1. Arrives(h, h.cur, shown)
    BY <1>1, <1>3 DEF InOrder
  <2> QED
    BY <1>3, <2>1 DEF Arrives, Real
<1> QED
  BY <1>2, <1>3 DEF RealsArrive

\* No real frame is left behind: each comes at its own opportunity unless the display
\* misses one or a frame came when its own had passed, and the newest is on the display or still to come.
THEOREM RealsArriveHolds == Spec => []RealsArrive
<1>1. Inv => RealsArrive
  BY InvArrives
<1> QED
  BY <1>1, InvHolds, PTL

=============================================================================
