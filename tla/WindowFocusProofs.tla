------------------------- MODULE WindowFocusProofs -------------------------
(***************************************************************************)
(* Proofs about the focus, for any windows, apps, transient links, orders  *)
(* of events and numbers of surfaces: the focus is always what a new       *)
(* choice would make it, and the pointer is on the surface of the window   *)
(* that has the input focus.                                               *)
(***************************************************************************)
EXTENDS WindowFocus, FiniteSetTheorems, TLAPS

-----------------------------------------------------------------------------
(* Smallest numbers, and the first of a finite set under a strict order.   *)

LEMMA Smallest ==
  ASSUME NEW S, S \subseteq Nat, S # {}
  PROVE  \E c \in S : \A d \in S : c <= d
<1>1. PICK c \in S : \A d \in S : ~(<<d, c>> \in OpToRel(<, Nat))
  BY NatLessThanWellFounded, WFMin
<1>2. \A d \in S : ~(d < c)
  BY <1>1 DEF OpToRel
<1> QED
  BY <1>2

\* R is a strict order on S under which any two elements are comparable.
StrictOrder(R, S) ==
  /\ \A u \in S : <<u, u>> \notin R
  /\ \A u, v \in S : u # v => <<u, v>> \in R \/ <<v, u>> \in R
  /\ \A u, v, w \in S : <<u, v>> \in R /\ <<v, w>> \in R => <<u, w>> \in R

\* The element with the fewest before it has none.
LEMMA FirstExists ==
  ASSUME NEW S, IsFiniteSet(S), S # {}, NEW R, StrictOrder(R, S)
  PROVE  \E b \in S : \A w \in S \ {b} : <<b, w>> \in R
<1> DEFINE before(v) == {u \in S : <<u, v>> \in R}
<1>1. \A v \in S : IsFiniteSet(before(v)) /\ Cardinality(before(v)) \in Nat
  BY FS_Subset, FS_CardinalityType
<1> DEFINE sizes == {Cardinality(before(v)) : v \in S}
<1>2. sizes \subseteq Nat /\ sizes # {}
  BY <1>1
<1>3. PICK c \in sizes : \A d \in sizes : c <= d
  BY <1>2, Smallest
<1>4. PICK b \in S : c = Cardinality(before(b))
  BY <1>3
<1>5. ASSUME NEW w \in S \ {b}, <<b, w>> \notin R PROVE FALSE
  <2>1. <<w, b>> \in R
    BY <1>5 DEF StrictOrder
  <2>2. before(w) \subseteq before(b) /\ w \in before(b) /\ w \notin before(w)
    BY <2>1 DEF StrictOrder
  <2>3. before(w) # before(b)
    BY <2>2
  <2>4. IsFiniteSet(before(b)) /\ Cardinality(before(b)) \in Nat /\ Cardinality(before(w)) \in Nat
    BY <1>1
  <2> HIDE DEF before
  <2>5. Cardinality(before(w)) < Cardinality(before(b))
    BY <2>2, <2>3, <2>4, FS_Subset
  <2>6. Cardinality(before(b)) <= Cardinality(before(w))
    BY <1>3, <1>4
  <2> QED
    BY <2>4, <2>5, <2>6
<1> QED
  BY <1>5

-----------------------------------------------------------------------------
(* Iteration: the run of a function on a set.                              *)

Run(s, V, w, K, f) == f \in [0..K -> V] /\ f[0] = w /\ \A n \in 1..K : f[n] = s[f[n - 1]]

LEMMA RunExists ==
  ASSUME NEW V, NEW s \in [V -> V], NEW w \in V
  PROVE  \A K \in Nat : \E f : Run(s, V, w, K, f)
<1> DEFINE bad == {K \in Nat : ~\E f : Run(s, V, w, K, f)}
<1> SUFFICES ASSUME bad # {} PROVE FALSE
  OBVIOUS
<1>1. PICK K \in bad : \A k \in bad : K <= k
  BY Smallest
<1>2. CASE K = 0
  <2> DEFINE f == [n \in 0..0 |-> w]
  <2>1. f \in [0..0 -> V] /\ f[0] = w
    OBVIOUS
  <2>2. Run(s, V, w, 0, f)
    BY <2>1 DEF Run
  <2> QED
    BY <1>1, <1>2, <2>2
<1>3. CASE K # 0
  <2>1. K \in Nat /\ K - 1 \in Nat /\ K - 1 \notin bad
    BY <1>1, <1>3
  <2>2. PICK f : Run(s, V, w, K - 1, f)
    BY <2>1
  <2> DEFINE g == [n \in 0..K |-> IF n < K THEN f[n] ELSE s[f[K - 1]]]
  <2>3. f \in [0..(K - 1) -> V] /\ f[0] = w /\ \A n \in 1..(K - 1) : f[n] = s[f[n - 1]]
    BY <2>2 DEF Run
  <2>4. g \in [0..K -> V] /\ g[0] = w
    BY <1>3, <2>1, <2>3
  <2>5. \A n \in 1..K : g[n] = s[g[n - 1]]
    <3> TAKE n \in 1..K
    <3>1. g[n - 1] = f[n - 1]
      BY <2>1
    <3>2. CASE n < K
      BY <2>1, <2>3, <3>1, <3>2
    <3>3. CASE n = K
      BY <2>1, <3>1, <3>3
    <3> QED
      BY <2>1, <3>2, <3>3
  <2>6. Run(s, V, w, K, g)
    BY <2>4, <2>5 DEF Run
  <2> QED
    BY <1>1, <2>6
<1> QED
  BY <1>2, <1>3

LEMMA RunUnique ==
  ASSUME NEW V, NEW s, NEW w, NEW K \in Nat, NEW f, NEW g, Run(s, V, w, K, f), Run(s, V, w, K, g)
  PROVE  f = g
<1> DEFINE bad == {n \in 0..K : f[n] # g[n]}
<1>1. ASSUME bad # {} PROVE FALSE
  <2>1. bad \subseteq Nat
    OBVIOUS
  <2>2. PICK m \in bad : \A n \in bad : m <= n
    BY <1>1, <2>1, Smallest
  <2>3. m # 0
    BY <2>2 DEF Run
  <2>4. m \in 1..K /\ m - 1 \in 0..K /\ m - 1 \notin bad
    BY <2>2, <2>3
  <2>5. f[m] = s[f[m - 1]] /\ g[m] = s[g[m - 1]] /\ f[m - 1] = g[m - 1]
    BY <2>4 DEF Run
  <2> QED
    BY <2>2, <2>5
<1> QED
  BY <1>1 DEF Run

\* Where a run of K steps ends.
End(s, V, w, K) == (CHOOSE f : Run(s, V, w, K, f))[K]

LEMMA EndOfRun ==
  ASSUME NEW V, NEW s \in [V -> V], NEW w \in V, NEW K \in Nat
  PROVE  /\ \E f : Run(s, V, w, K, f) /\ End(s, V, w, K) = f[K]
         /\ \A f : Run(s, V, w, K, f) => End(s, V, w, K) = f[K]
         /\ End(s, V, w, K) \in V
<1>1. \E f : Run(s, V, w, K, f)
  BY RunExists
<1> DEFINE e == CHOOSE f : Run(s, V, w, K, f)
<1>2. Run(s, V, w, K, e)
  BY <1>1
<1>3. End(s, V, w, K) = e[K]
  BY DEF End
<1> HIDE DEF e
<1>4. \A f : Run(s, V, w, K, f) => f = e
  BY <1>2, RunUnique
<1>5. e[K] \in V
  BY <1>2 DEF Run
<1> QED
  BY <1>2, <1>3, <1>4, <1>5, Zenon

Sampled(f, K) == f = [n \in 0..K |-> f[n]]

\* A function on 0..K that takes those steps is that run.
LEMMA RunOfSteps ==
  ASSUME NEW V, NEW s \in [V -> V], NEW w \in V, NEW K \in Nat, NEW f,
         Sampled(f, K), f[0] = w, \A n \in 1..K : f[n - 1] \in V => f[n] = s[f[n - 1]]
  PROVE  Run(s, V, w, K, f) /\ End(s, V, w, K) = f[K]
<1> DEFINE bad == {n \in 0..K : f[n] \notin V}
<1>1. ASSUME bad # {} PROVE FALSE
  <2>1. bad \subseteq Nat
    OBVIOUS
  <2>2. PICK m \in bad : \A n \in bad : m <= n
    BY <1>1, <2>1, Smallest
  <2>3. m # 0
    BY <2>2
  <2>4. m \in 1..K /\ m - 1 \in 0..K /\ ~(m <= m - 1)
    BY <2>2, <2>3
  <2>5. m - 1 \notin bad
    BY <2>2, <2>4
  <2>6. f[m - 1] \in V
    BY <2>4, <2>5
  <2>7. f[m] \in V
    BY <2>4, <2>6
  <2> QED
    BY <2>2, <2>7
<1>2. f \in [0..K -> V]
  BY <1>1 DEF Sampled
<1>3. \A n \in 1..K : f[n] = s[f[n - 1]]
  <2> TAKE n \in 1..K
  <2>1. n - 1 \in 0..K
    OBVIOUS
  <2> QED
    BY <1>2, <2>1
<1>4. Run(s, V, w, K, f)
  BY <1>2, <1>3 DEF Run
<1>5. \A g : Run(s, V, w, K, g) => End(s, V, w, K) = g[K]
  BY EndOfRun
<1> QED
  BY <1>4, <1>5

-----------------------------------------------------------------------------
(* Types, and that surfaces have ids of their own.                          *)

Ref == Windows \cup {None}
Size == Cardinality(Windows)

WinState ==
  [mapped : BOOLEAN, demoted : BOOLEAN, linked : BOOLEAN, hidden : BOOLEAN, mode : 0..2,
   stamp : Nat, damage : Nat, done : BOOLEAN, outdated : BOOLEAN, wl : Nat]

TypeOK ==
  /\ list \in Seq(Windows) /\ win \in [Windows -> WinState] /\ control \in Controls
  /\ local \in Ref
  /\ focus \in [window : Ref, override : Ref, input : Ref, keyboard : Ref]
  /\ dirty \in BOOLEAN
  /\ pass \in [pc : {"idle", "keyboard", "pointer"}, override : Ref, input : Ref, keyboard : Ref]
  /\ ids \in Nat /\ made \subseteq 1..ids /\ seat \in [pointer : Nat, keyboard : Nat]
  /\ late \subseteq Windows /\ silent \in BOOLEAN /\ events \in Nat

SurfaceIds ==
  /\ \A w \in Windows : win[w].wl <= ids
  /\ \A v, w \in Windows : win[v].wl = win[w].wl /\ win[v].wl # 0 => v = w

LEMMA SizeIs == Size \in Nat
BY FocusAssumption, FS_CardinalityType DEF Size

LEMMA KnownWindows ==
  ASSUME TypeOK
  PROVE  /\ Known \subseteq Windows /\ Possible \subseteq Known /\ IsFiniteSet(Known)
         /\ \A v \in Known : Place(v) \in Nat /\ Place(v) \in 1..Len(list) /\ list[Place(v)] = v
<1>1. list \in Seq(Windows) /\ DOMAIN list = 1..Len(list) /\ Len(list) \in Nat
  BY DEF TypeOK
<1>2. Known \subseteq Windows
  BY <1>1 DEF Known, Range
<1>3. IsFiniteSet(Known)
  BY <1>2, FocusAssumption, FS_Subset
<1>4. ASSUME NEW v \in Known PROVE Place(v) \in 1..Len(list) /\ list[Place(v)] = v
  <2>1. \E i \in 1..Len(list) : list[i] = v
    BY <1>1 DEF Known, Range
  <2> QED
    BY <2>1 DEF Place
<1> QED
  BY <1>1, <1>2, <1>3, <1>4 DEF Possible

-----------------------------------------------------------------------------
(* The order of windows is strict and total, so there is a best one.       *)

LEMMA Demerits == TypeOK => \A w \in Windows : Demerit(w) \in Nat
<1> SUFFICES ASSUME TypeOK, NEW w \in Windows PROVE Demerit(w) \in Nat
  OBVIOUS
<1>1. /\ Weight(w \in Redirect, 8) \in Nat /\ Weight(MayDrop(w), 4) \in Nat
      /\ Weight(win[w].demoted, 2) \in Nat /\ Weight(MayDrop(w) /\ win[w].linked, 1) \in Nat
  BY DEF Weight
<1> QED
  BY <1>1 DEF Demerit

LEMMA AheadOrder ==
  ASSUME TypeOK, NEW u \in Known, NEW v \in Known, NEW w \in Known
  PROVE  /\ ~Ahead(u, u)
         /\ Ahead(u, v) => ~Ahead(v, u)
         /\ u # v => Ahead(u, v) \/ Ahead(v, u)
         /\ Ahead(u, v) /\ Ahead(v, w) => Ahead(u, w)
<1>1. u \in Windows /\ v \in Windows /\ w \in Windows
  BY KnownWindows
<1>2. Demerit(u) \in Nat /\ Demerit(v) \in Nat /\ Demerit(w) \in Nat
  BY <1>1, Demerits
<1>3. /\ win[u].stamp \in Nat /\ win[v].stamp \in Nat /\ win[w].stamp \in Nat
      /\ win[u].damage \in Nat /\ win[v].damage \in Nat /\ win[w].damage \in Nat
  BY <1>1 DEF TypeOK, WinState
<1>4. /\ Place(u) \in Nat /\ Place(v) \in Nat /\ Place(w) \in Nat
      /\ u # v => Place(u) # Place(v)
  BY KnownWindows
<1> QED
  BY <1>2, <1>3, <1>4 DEF Ahead, Greater

BestTold ==
  \A S \in SUBSET Known : S # {} =>
    /\ Best(S) \in S
    /\ \A b \in S : b = Best(S) <=> \A w \in S \ {b} : Ahead(b, w)

LEMMA BestNow == TypeOK => BestTold
<1> SUFFICES ASSUME TypeOK, NEW S \in SUBSET Known, S # {}
             PROVE  /\ Best(S) \in S
                    /\ \A b \in S : b = Best(S) <=> \A w \in S \ {b} : Ahead(b, w)
  BY DEF BestTold
<1> DEFINE R == {p \in S \X S : Ahead(p[1], p[2])}
<1>1. \A u, v \in S : <<u, v>> \in R <=> Ahead(u, v)
  OBVIOUS
<1>2. StrictOrder(R, S)
  BY <1>1, AheadOrder DEF StrictOrder
<1>3. IsFiniteSet(S)
  BY KnownWindows, FS_Subset
<1> HIDE DEF R
<1>4. \E b \in S : \A w \in S \ {b} : Ahead(b, w)
  <2>1. PICK b \in S : \A w \in S \ {b} : <<b, w>> \in R
    BY <1>2, <1>3, FirstExists
  <2> QED
    BY <1>1, <2>1
<1>5. Best(S) \in S /\ \A w \in S \ {Best(S)} : Ahead(Best(S), w)
  BY <1>4 DEF Best
<1>6. ASSUME NEW b \in S, \A w \in S \ {b} : Ahead(b, w) PROVE b = Best(S)
  BY <1>5, <1>6, AheadOrder
<1> QED
  BY <1>5, <1>6

LEMMA BestNext == TypeOK' => BestTold'
BY BestNow, PTL

-----------------------------------------------------------------------------
(* The choice, with its iterations as runs of functions.                    *)

FollowNext(v) == {c \in Possible \ {v} : Parent(c) = v /\ ~MayDrop(c)}
FollowStep(v) == IF FollowNext(v) = {} THEN v ELSE Best(FollowNext(v))
Following == [v \in Windows |-> FollowStep(v)]

ResolveNext(w, kind, o) ==
  {c \in (Possible \cap kind) \ {w, o} : Parent(c) = IF o = None THEN w ELSE o}
ResolveStep(w, kind, o) ==
  IF ResolveNext(w, kind, o) = {} THEN o ELSE Best(ResolveNext(w, kind, o))
Resolving(w, kind) == [o \in Ref |-> ResolveStep(w, kind, o)]

FollowTold ==
  /\ Following \in [Windows -> Windows]
  /\ \A w \in Windows : Follow(w) = End(Following, Windows, w, Size)

ResolveTold ==
  \A w \in Windows, kind \in SUBSET Windows :
    /\ Resolving(w, kind) \in [Ref -> Ref]
    /\ \A o \in Ref : Resolved(w, o, kind) = End(Resolving(w, kind), Ref, o, Size)

LEMMA FollowNow == TypeOK => FollowTold
<1> SUFFICES ASSUME TypeOK PROVE FollowTold
  OBVIOUS
<1>0. Possible \subseteq Known /\ Known \subseteq Windows /\ BestTold /\ Size \in Nat
  BY KnownWindows, BestNow, SizeIs
<1>1. \A v \in Windows : FollowStep(v) \in Windows
  <2> TAKE v \in Windows
  <2>1. FollowNext(v) \subseteq Known
    BY <1>0 DEF FollowNext
  <2>2. FollowNext(v) # {} => Best(FollowNext(v)) \in FollowNext(v)
    BY <1>0, <2>1 DEF BestTold
  <2> QED
    BY <1>0, <2>1, <2>2 DEF FollowStep
<1>2. Following \in [Windows -> Windows]
  BY <1>1 DEF Following
<1>3. ASSUME NEW w \in Windows PROVE Follow(w) = End(Following, Windows, w, Size)
  <2> DEFINE P(f) == f = [n \in 0..Size |-> IF n = 0 THEN w ELSE FollowStep(f[n - 1])]
  <2>1. Follow(w) = (CHOOSE f : P(f))[Size]
    BY FocusAssumption DEF Follow, Iterate, FollowStep, FollowNext, Size
  <2>2. PICK g : Run(Following, Windows, w, Size, g)
    BY <1>0, <1>2, RunExists
  <2>3. /\ g \in [0..Size -> Windows] /\ g[0] = w
        /\ \A n \in 1..Size : g[n] = FollowStep(g[n - 1])
    <3>1. /\ g \in [0..Size -> Windows] /\ g[0] = w
          /\ \A n \in 1..Size : g[n] = Following[g[n - 1]]
      BY <2>2 DEF Run
    <3>2. \A n \in 1..Size : g[n - 1] \in Windows
      BY <1>0, <3>1
    <3> QED
      BY <3>1, <3>2 DEF Following
  <2>4. P(g)
    <3> DEFINE h == [n \in 0..Size |-> IF n = 0 THEN w ELSE FollowStep(g[n - 1])]
    <3>1. \A n \in 0..Size : h[n] = g[n]
      BY <1>0, <2>3
    <3>2. h = g
      BY <2>3, <3>1
    <3> QED
      BY <3>2
  <2> DEFINE f == CHOOSE f : P(f)
  <2>5. P(f)
    BY <2>4
  <2> HIDE DEF f
  <2>6. Sampled(f, Size) /\ f[0] = w
    BY <1>0, <2>5 DEF Sampled
  <2>7. \A n \in 1..Size : f[n - 1] \in Windows => f[n] = Following[f[n - 1]]
    <3>1. \A n \in 1..Size : f[n] = FollowStep(f[n - 1])
      BY <1>0, <2>5
    <3> QED
      BY <3>1 DEF Following
  <2>8. End(Following, Windows, w, Size) = f[Size]
    BY <1>0, <1>2, <1>3, <2>6, <2>7, RunOfSteps
  <2> QED
    BY <2>1, <2>8 DEF f
<1> QED
  BY <1>2, <1>3 DEF FollowTold

LEMMA ResolveNow == TypeOK => ResolveTold
<1> SUFFICES ASSUME TypeOK, NEW w \in Windows, NEW kind \in SUBSET Windows
             PROVE  /\ Resolving(w, kind) \in [Ref -> Ref]
                    /\ \A o \in Ref : Resolved(w, o, kind) = End(Resolving(w, kind), Ref, o, Size)
  BY DEF ResolveTold
<1>0. Possible \subseteq Known /\ Known \subseteq Windows /\ BestTold /\ Size \in Nat
  BY KnownWindows, BestNow, SizeIs
<1>1. \A o \in Ref : ResolveStep(w, kind, o) \in Ref
  <2> TAKE o \in Ref
  <2>1. ResolveNext(w, kind, o) \subseteq Known
    BY <1>0 DEF ResolveNext
  <2>2. ResolveNext(w, kind, o) # {} => Best(ResolveNext(w, kind, o)) \in ResolveNext(w, kind, o)
    BY <1>0, <2>1 DEF BestTold
  <2> QED
    BY <1>0, <2>1, <2>2 DEF ResolveStep, Ref
<1>2. Resolving(w, kind) \in [Ref -> Ref]
  BY <1>1 DEF Resolving
<1>3. ASSUME NEW o \in Ref PROVE Resolved(w, o, kind) = End(Resolving(w, kind), Ref, o, Size)
  <2> DEFINE s == Resolving(w, kind)
             P(f) == f = [n \in 0..Size |-> IF n = 0 THEN o ELSE ResolveStep(w, kind, f[n - 1])]
  <2>1. Resolved(w, o, kind) = (CHOOSE f : P(f))[Size]
    BY DEF Resolved, Iterate, ResolveStep, ResolveNext, Size
  <2>2. PICK g : Run(s, Ref, o, Size, g)
    BY <1>0, <1>2, RunExists
  <2>3. /\ g \in [0..Size -> Ref] /\ g[0] = o
        /\ \A n \in 1..Size : g[n] = ResolveStep(w, kind, g[n - 1])
    <3>1. /\ g \in [0..Size -> Ref] /\ g[0] = o
          /\ \A n \in 1..Size : g[n] = Resolving(w, kind)[g[n - 1]]
      BY <2>2 DEF Run
    <3>2. \A n \in 1..Size : g[n - 1] \in Ref
      BY <1>0, <3>1
    <3> QED
      BY <3>1, <3>2 DEF Resolving
  <2>4. P(g)
    <3> DEFINE h == [n \in 0..Size |-> IF n = 0 THEN o ELSE ResolveStep(w, kind, g[n - 1])]
    <3>1. \A n \in 0..Size : h[n] = g[n]
      BY <1>0, <2>3
    <3>2. h = g
      BY <2>3, <3>1
    <3> QED
      BY <3>2
  <2> DEFINE f == CHOOSE f : P(f)
  <2>5. P(f)
    BY <2>4
  <2> HIDE DEF f
  <2>6. Sampled(f, Size) /\ f[0] = o
    BY <1>0, <2>5 DEF Sampled
  <2>7. \A n \in 1..Size : f[n - 1] \in Ref => f[n] = Resolving(w, kind)[f[n - 1]]
    <3>1. \A n \in 1..Size : f[n] = ResolveStep(w, kind, f[n - 1])
      BY <1>0, <2>5
    <3> QED
      BY <3>1 DEF Resolving
  <2>8. End(s, Ref, o, Size) = f[Size]
    BY <1>0, <1>2, <1>3, <2>6, <2>7, RunOfSteps
  <2> QED
    BY <2>1, <2>8 DEF f
<1> QED
  BY <1>2, <1>3

LEMMA FollowAfter == TypeOK' => FollowTold'
BY FollowNow, PTL

LEMMA ResolveAfter == TypeOK' => ResolveTold'
BY ResolveNow, PTL

-----------------------------------------------------------------------------
(* Types are an invariant.                                                  *)

ChosenTyped ==
  /\ Asked \in Possible \cup {None}
  /\ \A g \in BOOLEAN : Chosen(g) \in Ref
  /\ \A w \in Ref : OverrideOf(w) \in Ref

LEMMA BestIsMember == BestTold => \A S \in SUBSET Known : Best(S) \in S \cup {None}
BY DEF BestTold, Best

LEMMA ChosenIsTyped == TypeOK => ChosenTyped
<1> SUFFICES ASSUME TypeOK PROVE ChosenTyped
  OBVIOUS
<1>0. /\ Possible \subseteq Known /\ Known \subseteq Windows /\ Size \in Nat
      /\ None \notin Windows /\ control \in Seq(Nat \ {0})
  BY KnownWindows, SizeIs, FocusAssumption DEF TypeOK
<1>1. \A S \in SUBSET Known : Best(S) \in S \cup {None}
  BY BestNow, BestIsMember
<1>2. Asked \in Possible \cup {None}
  <2> DEFINE has == {i \in 1..Len(control) : OfApp(control[i]) # {}}
             first == CHOOSE i \in has : \A j \in has : i <= j
  <2>1. Asked = IF has = {} THEN None ELSE Best(OfApp(control[first]))
    BY DEF Asked
  <2> HIDE DEF first, has
  <2>2. OfApp(control[first]) \subseteq Possible
    BY DEF OfApp
  <2> QED
    BY <1>0, <1>1, <2>1, <2>2
<1>3. \A w \in Windows : Follow(w) \in Windows
  BY <1>0, FollowNow, EndOfRun DEF FollowTold
<1>4. Follow(None) = None
  BY DEF Follow
<1>5. Best(Possible) \in Ref /\ Asked \in Ref
  BY <1>0, <1>1, <1>2 DEF Ref
<1>6. \A g \in BOOLEAN : Chosen(g) \in Ref
  BY <1>3, <1>4, <1>5 DEF Chosen, Ref
<1>7. ASSUME NEW w \in Windows, NEW o \in Ref, NEW kind \in SUBSET Windows
      PROVE  Resolved(w, o, kind) \in Ref
  <2>1. /\ Resolving(w, kind) \in [Ref -> Ref]
        /\ Resolved(w, o, kind) = End(Resolving(w, kind), Ref, o, Size)
    BY ResolveNow DEF ResolveTold
  <2> QED
    BY <1>0, <2>1, EndOfRun
<1>8. ASSUME NEW w \in Windows PROVE OverrideOf(w) \in Ref
  <2> DEFINE r == Best(Good(w) \cap Redirect)
             f == IF App[w] \in Range(control) THEN Best({o \in Good(w) : MayDrop(o)}) ELSE None
  <2>1. Good(w) \subseteq Known
    BY <1>0 DEF Good, OfApp
  <2>2. r \in Ref
    BY <1>0, <1>1, <2>1 DEF Ref
  <2>3. Best({o \in Good(w) : MayDrop(o)}) \in Ref
    BY <1>0, <1>1, <2>1 DEF Ref
  <2>4. f \in Ref
    BY <2>3 DEF Ref
  <2>5. Redirect \in SUBSET Windows /\ Redirect \cup Dropdown \in SUBSET Windows
    BY FocusAssumption
  <2>6. OverrideOf(w) = IF Resolved(w, r, Redirect) # None THEN Resolved(w, r, Redirect)
                        ELSE Resolved(w, f, Redirect \cup Dropdown)
    BY <1>0 DEF OverrideOf
  <2> HIDE DEF r, f
  <2> QED
    BY <1>7, <2>2, <2>4, <2>5, <2>6
<1>9. OverrideOf(None) \in Ref
  BY DEF OverrideOf, Ref
<1> QED
  BY <1>2, <1>6, <1>8, <1>9 DEF ChosenTyped, Ref

LEMMA NewestOfDamage ==
  ASSUME TypeOK
  PROVE  /\ Newest(Damage) \in Nat /\ Newest(Stamp) \in Nat
         /\ \A v \in Known : win[v].damage <= Newest(Damage)
<1>1. Known \subseteq Windows /\ IsFiniteSet(Known)
  BY KnownWindows
<1>2. \A v \in Known : win[v].damage \in Nat /\ win[v].stamp \in Nat
  BY <1>1 DEF TypeOK, WinState
<1>3. ASSUME NEW S \in SUBSET Nat, IsFiniteSet(S)
      PROVE  LET T == {0} \cup S IN Max(T) \in Nat /\ \A x \in T : x <= Max(T)
  <2> DEFINE T == {0} \cup S
             R == {p \in T \X T : p[1] > p[2]}
  <2>0. T = S \cup {0}
    OBVIOUS
  <2>1. IsFiniteSet(T) /\ T # {} /\ T \subseteq Nat
    <3>1. IsFiniteSet(S \cup {0})
      BY <1>3, FS_AddElement
    <3> QED
      BY <2>0, <3>1
  <2>2. \A x, y \in T : <<x, y>> \in R <=> x > y
    OBVIOUS
  <2> HIDE DEF T, R
  <2>3. StrictOrder(R, T)
    BY <2>1, <2>2 DEF StrictOrder
  <2>4. PICK t \in T : \A x \in T \ {t} : <<t, x>> \in R
    BY <2>1, <2>3, FirstExists
  <2>5. \A x \in T : t >= x
    <3> TAKE x \in T
    <3>1. x \in Nat /\ t \in Nat
      BY <2>1, <2>4
    <3>2. CASE x = t
      BY <3>1, <3>2
    <3>3. CASE x # t
      <4>1. <<t, x>> \in R
        BY <2>4, <3>3
      <4>2. t > x
        BY <2>2, <2>4, <4>1
      <4> QED
        BY <3>1, <4>2
    <3> QED
      BY <3>2, <3>3
  <2>6. Max(T) \in T /\ \A x \in T : Max(T) >= x
    BY <2>5 DEF Max
  <2> QED
    BY <2>1, <2>6 DEF T
<1>4. IsFiniteSet({Damage(v) : v \in Known}) /\ IsFiniteSet({Stamp(v) : v \in Known})
  <2>1. ASSUME NEW f \in [Known -> Nat] PROVE IsFiniteSet({f[v] : v \in Known})
    <3> DEFINE T == {f[v] : v \in Known}
    <3>1. f \in Surjection(Known, T)
      BY DEF Surjection
    <3> QED
      BY <1>1, <3>1, FS_Surjection
  <2>2. /\ [v \in Known |-> win[v].damage] \in [Known -> Nat]
        /\ [v \in Known |-> win[v].stamp] \in [Known -> Nat]
    BY <1>2
  <2>3. /\ {Damage(v) : v \in Known} = {[v \in Known |-> win[v].damage][x] : x \in Known}
        /\ {Stamp(v) : v \in Known} = {[v \in Known |-> win[v].stamp][x] : x \in Known}
    BY DEF Damage, Stamp
  <2> QED
    BY <2>1, <2>2, <2>3
<1>5. {Damage(v) : v \in Known} \in SUBSET Nat /\ {Stamp(v) : v \in Known} \in SUBSET Nat
  BY <1>2 DEF Damage, Stamp
<1>6. \A v \in Known : win[v].damage \in {0} \cup {Damage(x) : x \in Known}
  BY DEF Damage
<1> QED
  BY <1>3, <1>4, <1>5, <1>6 DEF Newest

\* What the actions write to a window's record.
LEMMA Records ==
  ASSUME NEW r \in WinState
  PROVE  /\ \A x \in BOOLEAN :
              /\ [r EXCEPT !.mapped = x] \in WinState /\ [r EXCEPT !.mapped = x].wl = r.wl
              /\ [r EXCEPT !.demoted = x] \in WinState /\ [r EXCEPT !.demoted = x].wl = r.wl
              /\ [r EXCEPT !.linked = x] \in WinState /\ [r EXCEPT !.linked = x].wl = r.wl
              /\ [r EXCEPT !.hidden = x] \in WinState /\ [r EXCEPT !.hidden = x].wl = r.wl
              /\ [r EXCEPT !.outdated = x] \in WinState /\ [r EXCEPT !.outdated = x].wl = r.wl
              /\ [r EXCEPT !.done = TRUE, !.outdated = x] \in WinState
              /\ [r EXCEPT !.done = TRUE, !.outdated = x].wl = r.wl
         /\ \A m \in 0..2 : [r EXCEPT !.mode = m] \in WinState /\ [r EXCEPT !.mode = m].wl = r.wl
         /\ \A n \in Nat :
              /\ [r EXCEPT !.damage = n] \in WinState /\ [r EXCEPT !.damage = n].wl = r.wl
              /\ [r EXCEPT !.mapped = TRUE, !.stamp = n, !.damage = 0] \in WinState
              /\ [r EXCEPT !.mapped = TRUE, !.stamp = n, !.damage = 0].wl = r.wl
              /\ [r EXCEPT !.wl = n] \in WinState /\ [r EXCEPT !.wl = n].wl = n
<1>1. ASSUME NEW x \in BOOLEAN
      PROVE  /\ [r EXCEPT !.mapped = x] \in WinState /\ [r EXCEPT !.mapped = x].wl = r.wl
             /\ [r EXCEPT !.demoted = x] \in WinState /\ [r EXCEPT !.demoted = x].wl = r.wl
             /\ [r EXCEPT !.linked = x] \in WinState /\ [r EXCEPT !.linked = x].wl = r.wl
             /\ [r EXCEPT !.hidden = x] \in WinState /\ [r EXCEPT !.hidden = x].wl = r.wl
  BY DEF WinState
<1>2. ASSUME NEW x \in BOOLEAN
      PROVE  /\ [r EXCEPT !.outdated = x] \in WinState /\ [r EXCEPT !.outdated = x].wl = r.wl
             /\ [r EXCEPT !.done = TRUE, !.outdated = x] \in WinState
             /\ [r EXCEPT !.done = TRUE, !.outdated = x].wl = r.wl
  BY DEF WinState
<1>3. \A m \in 0..2 : [r EXCEPT !.mode = m] \in WinState /\ [r EXCEPT !.mode = m].wl = r.wl
  BY DEF WinState
<1>4. ASSUME NEW n \in Nat
      PROVE  /\ [r EXCEPT !.damage = n] \in WinState /\ [r EXCEPT !.damage = n].wl = r.wl
             /\ [r EXCEPT !.wl = n] \in WinState /\ [r EXCEPT !.wl = n].wl = n
  BY DEF WinState
<1>5. ASSUME NEW n \in Nat
      PROVE  /\ [r EXCEPT !.mapped = TRUE, !.stamp = n, !.damage = 0] \in WinState
             /\ [r EXCEPT !.mapped = TRUE, !.stamp = n, !.damage = 0].wl = r.wl
  BY DEF WinState
<1> QED
  BY <1>1, <1>2, <1>3, <1>4, <1>5

LEMMA Blanks ==
  ASSUME NEW l \in BOOLEAN, NEW n \in Nat, NEW i \in Nat
  PROVE  /\ Blank \in WinState /\ Blank.wl = 0
         /\ [Blank EXCEPT !.linked = l] \in WinState /\ [Blank EXCEPT !.linked = l].wl = 0
         /\ [Blank EXCEPT !.linked = l, !.mapped = TRUE, !.stamp = n] \in WinState
         /\ [Blank EXCEPT !.linked = l, !.mapped = TRUE, !.stamp = n].wl = 0
         /\ [Blank EXCEPT !.mapped = TRUE, !.stamp = n, !.done = TRUE, !.wl = i, !.linked = l]
              \in WinState
         /\ [Blank EXCEPT !.mapped = TRUE, !.stamp = n, !.done = TRUE, !.wl = i, !.linked = l].wl = i
<1>1. Blank \in WinState /\ Blank.wl = 0
  BY DEF Blank, WinState
<1>2. [Blank EXCEPT !.linked = l] \in WinState /\ [Blank EXCEPT !.linked = l].wl = 0
  BY <1>1, Records
<1>3. /\ [Blank EXCEPT !.linked = l, !.mapped = TRUE, !.stamp = n] \in WinState
      /\ [Blank EXCEPT !.linked = l, !.mapped = TRUE, !.stamp = n].wl = 0
  BY <1>1 DEF WinState
<1>4. /\ [Blank EXCEPT !.mapped = TRUE, !.stamp = n, !.done = TRUE, !.wl = i, !.linked = l]
           \in WinState
      /\ [Blank EXCEPT !.mapped = TRUE, !.stamp = n, !.done = TRUE, !.wl = i, !.linked = l].wl = i
  BY <1>1 DEF WinState
<1> QED
  BY <1>1, <1>2, <1>3, <1>4

LEMMA WinEdit ==
  ASSUME TypeOK, NEW w \in Windows, NEW r \in WinState, win' = [win EXCEPT ![w] = r]
  PROVE  /\ win' \in [Windows -> WinState] /\ win'[w] = r
         /\ \A v \in Windows : v # w => win'[v] = win[v]
BY DEF TypeOK

LEMMA ListEdits ==
  ASSUME NEW S, NEW s \in Seq(S), NEW i \in 1..Len(s), NEW e \in S
  PROVE  /\ RemoveAt(s, i) \in Seq(S)
         /\ \A j \in 1..Len(s) : InsertAt(RemoveAt(s, i), j, e) \in Seq(S)
<1>1. SubSeq(s, 1, i - 1) \in Seq(S) /\ SubSeq(s, i + 1, Len(s)) \in Seq(S)
  OBVIOUS
<1>2. /\ Len(SubSeq(s, 1, i - 1)) = i - 1 /\ Len(SubSeq(s, i + 1, Len(s))) = Len(s) - i
  OBVIOUS
<1>3. RemoveAt(s, i) \in Seq(S) /\ Len(RemoveAt(s, i)) = Len(s) - 1
  <2> DEFINE l == SubSeq(s, 1, i - 1)
             r == SubSeq(s, i + 1, Len(s))
  <2>1. l \in Seq(S) /\ r \in Seq(S) /\ Len(l) = i - 1 /\ Len(r) = Len(s) - i /\ Len(s) \in Nat
    BY <1>1, <1>2
  <2>2. RemoveAt(s, i) = l \o r
    BY DEF RemoveAt
  <2> HIDE DEF l, r
  <2>3. l \o r \in Seq(S) /\ Len(l \o r) = Len(s) - 1
    BY <2>1
  <2> QED
    BY <2>2, <2>3
<1>4. ASSUME NEW t \in Seq(S), NEW j \in 1..(Len(t) + 1) PROVE InsertAt(t, j, e) \in Seq(S)
  <2>1. SubSeq(t, 1, j - 1) \in Seq(S) /\ SubSeq(t, j, Len(t)) \in Seq(S) /\ <<e>> \in Seq(S)
    OBVIOUS
  <2> QED
    BY <2>1 DEF InsertAt
<1> QED
  BY <1>3, <1>4

LEMMA InitTyped == Init => TypeOK /\ SurfaceIds
<1> SUFFICES ASSUME Init PROVE TypeOK /\ SurfaceIds
  OBVIOUS
<1>1. /\ list \in Seq(Windows) /\ IsInjective(list) /\ Len(list) \in Nat
      /\ \A i \in 1..Len(list) : list[i] \in Windows
  <2>1. list \in Starts
    BY DEF Init
  <2>2. list \in Seq(Windows) /\ IsInjective(list)
    BY <2>1, FocusAssumption
  <2> QED
    BY <2>2
<1> DEFINE open(w) == \E i \in 1..Len(list) : list[i] = w
           at(w) == CHOOSE i \in 1..Len(list) : list[i] = w
<1>2. \A w \in Windows : open(w) => at(w) \in 1..Len(list) /\ list[at(w)] = w
  OBVIOUS
<1>3. \A w \in Windows :
        win[w] = IF open(w)
                 THEN [Blank EXCEPT !.mapped = TRUE, !.stamp = Len(list) + 1 - at(w),
                         !.done = TRUE, !.wl = at(w), !.linked = Owner[w] # None]
                 ELSE Blank
  BY DEF Init
<1>4. win = [w \in Windows |-> win[w]]
  BY DEF Init
<1> HIDE DEF open, at
<1>5. \A w \in Windows : win[w] \in WinState /\ win[w].wl = IF open(w) THEN at(w) ELSE 0
  <2> TAKE w \in Windows
  <2>1. CASE open(w)
    <3>1. PICK l \in BOOLEAN : l = (Owner[w] # None)
      OBVIOUS
    <3>2. PICK n \in Nat : n = Len(list) + 1 - at(w)
      BY <1>1, <1>2, <2>1
    <3>3. PICK i \in Nat : i = at(w)
      BY <1>2, <2>1
    <3> DEFINE r == [Blank EXCEPT !.mapped = TRUE, !.stamp = n, !.done = TRUE, !.wl = i,
                       !.linked = l]
    <3>4. win[w] = r
      BY <1>3, <2>1, <3>1, <3>2, <3>3, Zenon
    <3>5. r \in WinState
      BY Blanks
    <3>6. r.wl = i
      BY DEF Blank
    <3> QED
      BY <2>1, <3>3, <3>4, <3>5, <3>6, Zenon
  <2>2. CASE ~open(w)
    BY <1>3, <2>2, Blanks
  <2> QED
    BY <2>1, <2>2
<1>6. win \in [Windows -> WinState]
  BY <1>4, <1>5
<1>7. TypeOK
  BY <1>1, <1>6 DEF TypeOK, Init, Ref
<1>8. SurfaceIds
  <2>1. \A w \in Windows : win[w].wl <= ids
    <3>1. ids = Len(list) /\ Len(list) \in Nat
      BY <1>1 DEF Init
    <3> QED
      BY <1>2, <1>5, <3>1
  <2>2. ASSUME NEW v \in Windows, NEW w \in Windows, win[v].wl = win[w].wl, win[v].wl # 0
        PROVE  v = w
    <3>1. open(v) /\ open(w) /\ at(v) = at(w)
      BY <1>5, <2>2
    <3> QED
      BY <1>2, <3>1
  <2> QED
    BY <2>1, <2>2 DEF SurfaceIds
<1> QED
  BY <1>7, <1>8

\* What an action may do to what is known of a window, its surface left alone.
SameSurfaces ==
  /\ win' \in [Windows -> WinState] /\ UNCHANGED <<made, ids>>
  /\ \A w \in Windows : win'[w].wl = win[w].wl \/ win'[w].wl = 0

LEMMA SameSurfacesKept == SurfaceIds /\ SameSurfaces /\ ids \in Nat => SurfaceIds'
BY DEF SurfaceIds, SameSurfaces

\* What the actions write of the windows' surfaces.
SameIds == win' \in [Windows -> WinState] /\ \A v \in Windows : win'[v].wl = win[v].wl

LEMMA WinWritten ==
  ASSUME TypeOK, NEW w \in Windows
  PROVE  /\ AddWin(w) \/ DestroyWin(w) =>
              /\ win' \in [Windows -> WinState] /\ win'[w].wl = 0
              /\ \A v \in Windows : v # w => win'[v] = win[v]
         /\ MapWin(w) => SameIds
         /\ UnmapWin(w) => SameIds
         /\ DamageWin(w) => SameIds
         /\ StyleNotify(w) => SameIds
         /\ TransientNotify(w) => SameIds
         /\ OpacityNotify(w) => SameIds
         /\ DoneCommit(w) => SameIds
         /\ SurfaceId(w) =>
              /\ win' \in [Windows -> WinState] /\ win'[w].wl = ids + 1
              /\ \A v \in Windows : v # w => win'[v] = win[v]
<1>1. win[w] \in WinState /\ Known \subseteq Windows
  BY KnownWindows DEF TypeOK
<1>2. Newest(Damage) + 1 \in Nat /\ Newest(Stamp) \in Nat /\ Newest(Stamp) + 1 \in Nat
  <2>1. \A n \in Nat : n + 1 \in Nat
    OBVIOUS
  <2> QED
    BY <2>1, NewestOfDamage, Zenon
<1>3. ASSUME NEW r \in WinState, r.wl = win[w].wl, win' = [win EXCEPT ![w] = r] PROVE SameIds
  BY <1>3, WinEdit DEF SameIds
<1>4. ASSUME AddWin(w)
      PROVE  /\ win' \in [Windows -> WinState] /\ win'[w].wl = 0
             /\ \A v \in Windows : v # w => win'[v] = win[v]
  <2>1. PICK l \in BOOLEAN : l = (Owner[w] # None)
    OBVIOUS
  <2>2. PICK n \in Nat :
          \/ win' = [win EXCEPT ![w] = [Blank EXCEPT !.linked = l]]
          \/ win' = [win EXCEPT ![w] = [Blank EXCEPT !.linked = l, !.mapped = TRUE, !.stamp = n]]
    BY <1>2, <1>4, <2>1, Zenon DEF AddWin
  <2>3. /\ [Blank EXCEPT !.linked = l] \in WinState /\ [Blank EXCEPT !.linked = l].wl = 0
        /\ [Blank EXCEPT !.linked = l, !.mapped = TRUE, !.stamp = n] \in WinState
        /\ [Blank EXCEPT !.linked = l, !.mapped = TRUE, !.stamp = n].wl = 0
    BY Blanks
  <2>4. CASE win' = [win EXCEPT ![w] = [Blank EXCEPT !.linked = l]]
    BY <2>3, <2>4, WinEdit, Zenon
  <2>5. CASE win' = [win EXCEPT ![w] = [Blank EXCEPT !.linked = l, !.mapped = TRUE, !.stamp = n]]
    BY <2>3, <2>5, WinEdit, Zenon
  <2> QED
    BY <2>2, <2>4, <2>5
<1>5. ASSUME DestroyWin(w)
      PROVE  /\ win' \in [Windows -> WinState] /\ win'[w].wl = 0
             /\ \A v \in Windows : v # w => win'[v] = win[v]
  <2>1. win' = [win EXCEPT ![w] = Blank]
    BY <1>5 DEF DestroyWin
  <2>2. Blank \in WinState /\ Blank.wl = 0
    BY Blanks
  <2> QED
    BY <2>1, <2>2, WinEdit
<1>6. ASSUME MapWin(w) PROVE SameIds
  <2>1. PICK n \in Nat :
          win' = [win EXCEPT ![w] = [win[w] EXCEPT !.mapped = TRUE, !.stamp = n, !.damage = 0]]
    BY <1>2, <1>6, Zenon DEF MapWin, Mapped
  <2> DEFINE r == [win[w] EXCEPT !.mapped = TRUE, !.stamp = n, !.damage = 0]
  <2>2. r \in WinState /\ r.wl = win[w].wl
    BY <1>1, Records
  <2> QED
    BY <1>3, <2>1, <2>2, Zenon
<1>7. ASSUME DamageWin(w) PROVE SameIds
  <2>1. PICK n \in Nat : win' = [win EXCEPT ![w] = [win[w] EXCEPT !.damage = n]]
    BY <1>2, <1>7, Zenon DEF DamageWin
  <2> DEFINE r == [win[w] EXCEPT !.damage = n]
  <2>2. r \in WinState /\ r.wl = win[w].wl
    BY <1>1, Records
  <2> QED
    BY <1>3, <2>1, <2>2, Zenon
<1>8. ASSUME UnmapWin(w) \/ StyleNotify(w) \/ TransientNotify(w) \/ OpacityNotify(w) PROVE SameIds
  <2>1. PICK x \in BOOLEAN : \/ win' = [win EXCEPT ![w] = [win[w] EXCEPT !.mapped = x]]
                             \/ win' = [win EXCEPT ![w] = [win[w] EXCEPT !.demoted = x]]
                             \/ win' = [win EXCEPT ![w] = [win[w] EXCEPT !.linked = x]]
                             \/ win' = [win EXCEPT ![w] = [win[w] EXCEPT !.hidden = x]]
    BY <1>8 DEF UnmapWin, StyleNotify, TransientNotify, OpacityNotify, TypeOK
  <2>2. /\ [win[w] EXCEPT !.mapped = x] \in WinState
        /\ [win[w] EXCEPT !.mapped = x].wl = win[w].wl
        /\ [win[w] EXCEPT !.demoted = x] \in WinState
        /\ [win[w] EXCEPT !.demoted = x].wl = win[w].wl
        /\ [win[w] EXCEPT !.linked = x] \in WinState
        /\ [win[w] EXCEPT !.linked = x].wl = win[w].wl
        /\ [win[w] EXCEPT !.hidden = x] \in WinState
        /\ [win[w] EXCEPT !.hidden = x].wl = win[w].wl
    BY <1>1, Records
  <2> QED
    BY <1>3, <2>1, <2>2, Zenon
<1>9. ASSUME DoneCommit(w) PROVE SameIds
  <2>1. win' = [win EXCEPT ![w] = [win[w] EXCEPT !.done = TRUE, !.outdated = FALSE]]
    BY <1>9 DEF DoneCommit, TypeOK
  <2> DEFINE r == [win[w] EXCEPT !.done = TRUE, !.outdated = FALSE]
  <2>2. r \in WinState /\ r.wl = win[w].wl
    BY <1>1, Records
  <2> QED
    BY <1>3, <2>1, <2>2, Zenon
<1>10. ASSUME SurfaceId(w)
       PROVE  /\ win' \in [Windows -> WinState] /\ win'[w].wl = ids + 1
              /\ \A v \in Windows : v # w => win'[v] = win[v]
  <2>1. win' = [win EXCEPT ![w] = [win[w] EXCEPT !.wl = ids + 1]] /\ ids + 1 \in Nat
    BY <1>10 DEF SurfaceId, TypeOK
  <2> DEFINE r == [win[w] EXCEPT !.wl = ids + 1]
  <2>2. r \in WinState /\ r.wl = ids + 1
    BY <1>1, <2>1, Records
  <2> QED
    BY <2>1, <2>2, WinEdit, Zenon
<1> QED
  BY <1>4, <1>5, <1>6, <1>7, <1>8, <1>9, <1>10

LEMMA OthersWritten ==
  ASSUME TypeOK
  PROVE  /\ ModeNotify => SameIds
         /\ Choose => SameIds
         /\ \A s \in made : SurfaceDestroyed(s) =>
              /\ win' \in [Windows -> WinState]
              /\ \A v \in Windows : win'[v].wl = IF win[v].wl = s THEN 0 ELSE win[v].wl
<1>1. \A w \in Windows : win[w] \in WinState
  BY DEF TypeOK
<1>2. ASSUME ModeNotify PROVE SameIds
  <2>1. Overlay \in Windows
    BY <1>2, FocusAssumption DEF ModeNotify
  <2>2. PICK m \in 0..2 : win' = [win EXCEPT ![Overlay] = [win[Overlay] EXCEPT !.mode = m]]
    BY <1>2, <2>1 DEF ModeNotify, TypeOK
  <2> DEFINE r == [win[Overlay] EXCEPT !.mode = m]
  <2>3. r \in WinState /\ r.wl = win[Overlay].wl
    BY <1>1, <2>1, Records
  <2> HIDE DEF r
  <2>4. win' = [win EXCEPT ![Overlay] = r]
    BY <2>2 DEF r
  <2> QED
    BY <2>1, <2>3, <2>4, WinEdit DEF SameIds
<1>3. ASSUME Choose PROVE SameIds
  BY <1>3, ZenonT(60) DEF Choose, SameIds, TypeOK, WinState
<1>4. ASSUME NEW s \in made, SurfaceDestroyed(s)
      PROVE  /\ win' \in [Windows -> WinState]
             /\ \A v \in Windows : win'[v].wl = IF win[v].wl = s THEN 0 ELSE win[v].wl
  BY <1>4, ZenonT(60) DEF SurfaceDestroyed, TypeOK, WinState
<1> QED
  BY <1>2, <1>3, <1>4

LEMMA TypesKept ==
  ASSUME TypeOK, SurfaceIds, [Next]_vars
  PROVE  TypeOK' /\ SurfaceIds'
<1> USE DEF Ref
<1>0. /\ Known \subseteq Windows /\ ChosenTyped /\ None \notin Windows /\ Overlay \in Ref
  BY KnownWindows, ChosenIsTyped, FocusAssumption
<1>1. \A w \in Known : Place(w) \in 1..Len(list)
  BY KnownWindows
<1>2. \A w \in Windows : win[w] \in WinState
  BY DEF TypeOK
<1>3. ASSUME XEvent PROVE events' \in Nat /\ pass.pc = "idle"
  BY <1>3 DEF XEvent, Counted, TypeOK
<1>4. ASSUME NEW w \in Windows, AddWin(w) PROVE TypeOK' /\ SurfaceIds'
  <2>1. /\ win' \in [Windows -> WinState] /\ win'[w].wl = 0
        /\ \A v \in Windows : v # w => win'[v] = win[v]
    BY <1>4, WinWritten
  <2>3. SameSurfaces
    BY <1>4, <2>1 DEF AddWin, SameSurfaces
  <2>4. list' \in Seq(Windows)
    BY <1>4 DEF AddWin, TypeOK
  <2> QED
    BY <1>3, <1>4, <2>1, <2>3, <2>4, SameSurfacesKept DEF AddWin, TypeOK
<1>5. ASSUME NEW w \in Windows, MapWin(w) PROVE TypeOK' /\ SurfaceIds'
  <2>1. SameIds
    BY <1>5, WinWritten
  <2>2. SameSurfaces
    BY <1>5, <2>1 DEF MapWin, SameSurfaces, SameIds
  <2> QED
    BY <1>3, <1>5, <2>1, <2>2, SameSurfacesKept DEF SameIds, MapWin, TypeOK
<1>6. ASSUME NEW w \in Windows, UnmapWin(w) PROVE TypeOK' /\ SurfaceIds'
  <2>1. SameIds
    BY <1>6, WinWritten
  <2>2. SameSurfaces
    BY <1>6, <2>1 DEF UnmapWin, SameSurfaces, SameIds
  <2> QED
    BY <1>3, <1>6, <2>1, <2>2, SameSurfacesKept DEF SameIds, UnmapWin, TypeOK
<1>7. ASSUME NEW w \in Windows, DestroyWin(w) PROVE TypeOK' /\ SurfaceIds'
  <2>1. /\ win' \in [Windows -> WinState] /\ win'[w].wl = 0
        /\ \A v \in Windows : v # w => win'[v] = win[v]
    BY <1>7, WinWritten
  <2>2. SameSurfaces
    BY <1>7, <2>1 DEF DestroyWin, SameSurfaces
  <2>3. list' \in Seq(Windows)
    BY <1>1, <1>7, ListEdits DEF DestroyWin, TypeOK
  <2>4. focus' \in [window : Ref, override : Ref, input : Ref, keyboard : Ref]
    BY <1>7 DEF DestroyWin, TypeOK
  <2> QED
    BY <1>3, <1>7, <2>1, <2>2, <2>3, <2>4, SameSurfacesKept DEF DestroyWin, TypeOK
<1>8. ASSUME NEW w \in Windows, RestackWin(w) PROVE TypeOK' /\ SurfaceIds'
  <2>1. list' \in Seq(Windows)
    <3>1. Place(w) \in 1..Len(list) /\ Len(list) \in Nat
      BY <1>1, <1>8 DEF RestackWin, TypeOK
    <3>2. \A j \in 1..Len(list) : InsertAt(RemoveAt(list, Place(w)), j, w) \in Seq(Windows)
      BY <3>1, ListEdits DEF TypeOK
    <3> QED
      BY <1>8, <3>1, <3>2 DEF RestackWin
  <2>2. SameSurfaces
    BY <1>8 DEF RestackWin, SameSurfaces, TypeOK
  <2> QED
    BY <1>3, <1>8, <2>1, <2>2, SameSurfacesKept DEF RestackWin, TypeOK
<1>9. ASSUME NEW w \in Windows, DamageWin(w) PROVE TypeOK' /\ SurfaceIds'
  <2>1. SameIds
    BY <1>9, WinWritten
  <2>2. SameSurfaces
    BY <1>9, <2>1 DEF DamageWin, SameSurfaces, SameIds
  <2>3. dirty' \in BOOLEAN
    BY <1>9 DEF DamageWin
  <2> QED
    BY <1>3, <1>9, <2>1, <2>2, <2>3, SameSurfacesKept DEF SameIds, DamageWin, TypeOK
<1>10. ASSUME NEW w \in Windows, StyleNotify(w) \/ TransientNotify(w) PROVE TypeOK' /\ SurfaceIds'
  <2>1. SameIds
    BY <1>10, WinWritten
  <2>2. SameSurfaces
    BY <1>10, <2>1 DEF StyleNotify, TransientNotify, Notified, SameSurfaces, SameIds
  <2> QED
    BY <1>3, <1>10, <2>1, <2>2, SameSurfacesKept DEF SameIds, StyleNotify, TransientNotify, Notified, TypeOK
<1>11. CASE ModeNotify
  <2>1. SameIds
    BY <1>11, OthersWritten
  <2>2. SameSurfaces
    BY <1>11, <2>1 DEF ModeNotify, Notified, SameSurfaces, SameIds
  <2> QED
    BY <1>3, <1>11, <2>1, <2>2, SameSurfacesKept DEF SameIds, ModeNotify, Notified, TypeOK
<1>12. ASSUME NEW w \in Windows, OpacityNotify(w) PROVE TypeOK' /\ SurfaceIds'
  <2>1. SameIds
    BY <1>12, WinWritten
  <2>2. SameSurfaces
    BY <1>12, <2>1 DEF OpacityNotify, SameSurfaces, SameIds
  <2> QED
    BY <1>3, <1>12, <2>1, <2>2, SameSurfacesKept DEF SameIds, OpacityNotify, TypeOK
<1>13. CASE ControlNotify
  <2>1. SameSurfaces
    BY <1>13 DEF ControlNotify, SameSurfaces, TypeOK
  <2> QED
    BY <1>3, <1>13, <2>1, SameSurfacesKept DEF ControlNotify, TypeOK
<1>14. ASSUME NEW w \in Windows, SurfaceId(w) PROVE TypeOK' /\ SurfaceIds'
  <2>1. /\ win' \in [Windows -> WinState] /\ win'[w].wl = ids + 1 /\ ids' = ids + 1
        /\ \A v \in Windows : v # w => win'[v] = win[v]
    BY <1>14, WinWritten DEF SurfaceId
  <2>2. SurfaceIds'
    <3>1. \A v \in Windows : win[v].wl \in Nat /\ win[v].wl <= ids
      BY <1>2 DEF SurfaceIds, WinState
    <3>2. ids \in Nat
      BY DEF TypeOK
    <3> QED
      BY <2>1, <3>1, <3>2 DEF SurfaceIds
  <2>3. ids' \in Nat /\ made' \subseteq 1..ids'
    BY <1>14, <2>1 DEF SurfaceId, TypeOK
  <2>4. seat' \in [pointer : Nat, keyboard : Nat]
    BY <1>14 DEF SurfaceId, Tells, TypeOK
  <2> QED
    BY <1>3, <1>14, <2>1, <2>2, <2>3, <2>4 DEF SurfaceId, TypeOK
<1>15. ASSUME NEW w \in Windows, NewSurface(w) PROVE TypeOK' /\ SurfaceIds'
  <2>1. win[w].wl \in Nat /\ win[w].wl # 0 /\ win[w].wl <= ids
    BY <1>2, <1>15 DEF NewSurface, SurfaceIds, WinState
  <2>2. made' \subseteq 1..ids'
    <3>1. made \subseteq 1..ids /\ ids \in Nat /\ ids' = ids /\ made' = made \cup {win[w].wl}
      BY <1>15 DEF NewSurface, TypeOK
    <3>2. win[w].wl \in 1..ids
      BY <2>1, <3>1
    <3> QED
      BY <3>1, <3>2
  <2> QED
    BY <1>15, <2>2 DEF NewSurface, TypeOK, SurfaceIds
<1>16. ASSUME NEW s \in made, SurfaceDestroyed(s) PROVE TypeOK' /\ SurfaceIds'
  <2>1. /\ win' \in [Windows -> WinState]
        /\ \A v \in Windows : win'[v].wl = IF win[v].wl = s THEN 0 ELSE win[v].wl
    BY <1>16, OthersWritten
  <2>2. SurfaceIds'
    BY <1>16, <2>1 DEF SurfaceDestroyed, SurfaceIds, TypeOK
  <2>3. seat' \in [pointer : Nat, keyboard : Nat]
    BY <1>16 DEF SurfaceDestroyed, TypeOK
  <2> QED
    BY <1>16, <2>1, <2>2, <2>3 DEF SurfaceDestroyed, Counted, TypeOK
<1>17. ASSUME NEW w \in Windows, DoneCommit(w) PROVE TypeOK' /\ SurfaceIds'
  <2>1. SameIds
    BY <1>17, WinWritten
  <2>2. SameSurfaces
    BY <1>17, <2>1 DEF DoneCommit, SameSurfaces, SameIds
  <2>3. dirty' \in BOOLEAN
    BY <1>2, <1>17 DEF DoneCommit, WinState, TypeOK
  <2> QED
    BY <1>17, <2>1, <2>2, <2>3, SameSurfacesKept DEF SameIds, DoneCommit, TypeOK
<1>18. CASE Choose
  <2>1. SameIds
    BY <1>18, OthersWritten
  <2>2. SameSurfaces
    BY <1>18, <2>1 DEF Choose, SameSurfaces, SameIds
  <2>3. Chosen(TRUE) \in Ref /\ Chosen(FALSE) \in Ref /\ OverrideOf(Chosen(TRUE)) \in Ref
    BY <1>0 DEF ChosenTyped
  <2>4. local' \in Ref
    BY <1>18, <2>3 DEF Choose, TypeOK
  <2>5. focus' \in [window : Ref, override : Ref, input : Ref, keyboard : Ref]
    BY <1>0, <1>18, <2>3 DEF Choose, Input, Keyboard, TypeOK
  <2>6. pass' \in [pc : {"idle", "keyboard", "pointer"}, override : Ref, input : Ref, keyboard : Ref]
    BY <1>18 DEF Choose, TypeOK
  <2> QED
    BY <1>18, <2>1, <2>2, <2>4, <2>5, <2>6, SameSurfacesKept DEF SameIds, Choose, TypeOK
<1>19. CASE TellKeyboard
  <2>1. seat' \in [pointer : Nat, keyboard : Nat]
    BY <1>2, <1>19 DEF TellKeyboard, Main, TypeOK, WinState
  <2> QED
    BY <1>19, <2>1 DEF TellKeyboard, TypeOK, SurfaceIds
<1>20. CASE TellPointer
  <2>1. seat' \in [pointer : Nat, keyboard : Nat]
    BY <1>2, <1>20 DEF TellPointer, Main, TypeOK, WinState
  <2> QED
    BY <1>20, <2>1 DEF TellPointer, TypeOK, SurfaceIds
<1>21. CASE UNCHANGED vars
  BY <1>21 DEF vars, TypeOK, SurfaceIds
<1> QED
  BY <1>4, <1>5, <1>6, <1>7, <1>8, <1>9, <1>10, <1>11, <1>12, <1>13, <1>14, <1>15, <1>16,
     <1>17, <1>18, <1>19, <1>20, <1>21 DEF Next

-----------------------------------------------------------------------------
(* The pointer.                                                             *)

\* The seat's pointer is on the surface of w, if it has one that came before its id.
Reached(w) == Main(w) # 0 /\ w \notin late => seat.pointer = Main(w)

\* While a pass is under way, the pointer is behind only if the pass will tell it.
PointerInv ==
  pass.pc = "idle" \/ (focus.input = pass.input /\ focus.override = pass.override)
    => Reached(focus.input)

\* A step that leaves a window's surface, the server's surfaces and the pointer alone.
LEMMA ReachedKept ==
  ASSUME NEW w, Reached(w), w = None \/ win'[w].wl = win[w].wl, UNCHANGED <<made, seat, late>>
  PROVE  Reached(w)'
BY DEF Reached, Main

LEMMA PointerKept ==
  ASSUME TypeOK, SurfaceIds, PointerInv, [Next]_vars
  PROVE  PointerInv'
<1>0. /\ Known \subseteq Windows /\ None \notin Windows /\ focus.input \in Windows \cup {None}
      /\ ids \in Nat /\ made \subseteq 1..ids /\ late \subseteq Windows
      /\ win = [w \in Windows |-> win[w]]
  BY KnownWindows, FocusAssumption DEF TypeOK, Ref
<1>1. \A w \in Windows : win[w].wl \in Nat /\ win[w].wl <= ids
  BY DEF TypeOK, WinState, SurfaceIds
<1>2. pass.pc = "idle" => Reached(focus.input)
  BY DEF PointerInv
<1>3. \A w \in Windows \cup {None} : Main(w) = 0 => Reached(w)
  BY DEF Reached
\* X events but those of surfaces
<1>4. ASSUME pass.pc = "idle", UNCHANGED <<pass, focus, made, seat, late>>,
             \A w \in Windows : win'[w].wl = win[w].wl
      PROVE  PointerInv'
  BY <1>0, <1>2, <1>4, ReachedKept DEF PointerInv
<1>5. ASSUME NEW w \in Windows, AddWin(w) PROVE PointerInv'
  <2>1. win'[w].wl = 0 /\ \A v \in Windows : v # w => win'[v] = win[v]
    BY <1>5, WinWritten
  <2>2. UNCHANGED <<pass, focus, made, seat, late>> /\ pass.pc = "idle"
    BY <1>5 DEF AddWin, XEvent
  <2>3. CASE focus.input = w
    BY <1>0, <2>1, <2>2, <2>3 DEF PointerInv, Reached, Main
  <2>4. CASE focus.input # w
    BY <1>0, <1>2, <2>1, <2>2, <2>4, ReachedKept DEF PointerInv
  <2> QED
    BY <2>3, <2>4
<1>6. ASSUME NEW w \in Windows,
             \/ MapWin(w) \/ UnmapWin(w) \/ RestackWin(w) \/ DamageWin(w) \/ StyleNotify(w)
             \/ TransientNotify(w) \/ OpacityNotify(w) \/ DoneCommit(w)
      PROVE  PointerInv'
  <2>1. pass.pc = "idle" /\ UNCHANGED <<pass, focus, made, seat, late>>
    BY <1>6 DEF MapWin, UnmapWin, RestackWin, DamageWin, StyleNotify, TransientNotify, Notified,
                OpacityNotify, DoneCommit, XEvent
  <2>2. \A v \in Windows : win'[v].wl = win[v].wl
    BY <1>6, WinWritten DEF RestackWin, SameIds
  <2> QED
    BY <1>4, <2>1, <2>2
<1>11. CASE ModeNotify \/ ControlNotify
  <2>1. pass.pc = "idle" /\ UNCHANGED <<pass, focus, made, seat, late>>
    BY <1>11 DEF ModeNotify, Notified, ControlNotify, XEvent
  <2>2. \A v \in Windows : win'[v].wl = win[v].wl
    BY <1>11, OthersWritten DEF ControlNotify, SameIds
  <2> QED
    BY <1>4, <2>1, <2>2
<1>7. ASSUME NEW w \in Windows, DestroyWin(w) PROVE PointerInv'
  <2>1. UNCHANGED <<pass, made, seat>> /\ pass.pc = "idle" /\ late' = late \ {w}
    BY <1>7 DEF DestroyWin, XEvent
  <2>2. focus'.input = IF focus.input = w THEN None ELSE focus.input
    BY <1>7 DEF DestroyWin, TypeOK
  <2>3. \A v \in Windows : v # w => win'[v] = win[v]
    BY <1>7, WinWritten
  <2>4. CASE focus.input \in {w, None}
    BY <2>2, <2>4 DEF PointerInv, Reached, Main
  <2>5. CASE focus.input \notin {w, None}
    <3>1. focus'.input = focus.input /\ win'[focus.input] = win[focus.input]
      BY <1>0, <2>2, <2>3, <2>5
    <3> QED
      BY <1>0, <1>2, <2>1, <2>5, <3>1 DEF PointerInv, Reached, Main
  <2> QED
    BY <2>4, <2>5
<1>8. ASSUME NEW w \in Windows, SurfaceId(w) PROVE PointerInv'
  <2>1. /\ win'[w].wl = ids + 1 /\ \A v \in Windows : v # w => win'[v] = win[v]
        /\ UNCHANGED <<pass, focus>> /\ pass.pc = "idle" /\ late' = late \ {w}
        /\ \/ made' = made \cup {ids + 1} /\ Tells(w, ids + 1)
           \/ UNCHANGED <<made, seat>>
    BY <1>8, WinWritten DEF SurfaceId, XEvent
  <2>2. ids + 1 \notin made /\ ids + 1 # 0
    BY <1>0
  <2>3. CASE focus.input = w
    <3>1. CASE made' = made \cup {ids + 1} /\ Tells(w, ids + 1)
      <4>1. seat'.pointer = ids + 1
        BY <2>3, <3>1 DEF Tells
      <4> QED
        BY <1>0, <2>1, <2>3, <3>1, <4>1 DEF PointerInv, Reached, Main
    <3>2. CASE UNCHANGED <<made, seat>>
      BY <1>0, <2>1, <2>2, <2>3, <3>2 DEF PointerInv, Reached, Main
    <3> QED
      BY <2>1, <3>1, <3>2
  <2>4. CASE focus.input # w
    <3>1. seat'.pointer = seat.pointer
      BY <2>1, <2>4 DEF Tells
    <3>2. \A v \in Windows \cup {None} : v # w => Main(v)' = Main(v)
      <4>1. \A v \in Windows : v # w => win'[v].wl = win[v].wl /\ win[v].wl # ids + 1
        BY <1>0, <1>1, <2>1
      <4> QED
        BY <2>1, <4>1 DEF Main
    <3> QED
      BY <1>0, <1>2, <2>1, <2>4, <3>1, <3>2 DEF PointerInv, Reached
  <2> QED
    BY <2>3, <2>4
<1>9. ASSUME NEW w \in Windows, NewSurface(w) PROVE PointerInv'
  <2>1. /\ UNCHANGED <<win, pass, focus, seat>> /\ late' = late \cup {w}
        /\ made' = made \cup {win[w].wl} /\ win[w].wl # 0
    BY <1>9 DEF NewSurface
  <2>2. \A v \in Windows : v # w => win[v].wl # win[w].wl
    BY <2>1 DEF SurfaceIds
  <2>3. \A v \in Windows \cup {None} : v # w => Main(v)' = Main(v)
    BY <2>1, <2>2 DEF Main
  <2>4. Reached(focus.input) => Reached(focus.input)'
    BY <1>0, <2>1, <2>3 DEF Reached
  <2> QED
    BY <2>1, <2>4 DEF PointerInv
<1>10. ASSUME NEW s \in made, SurfaceDestroyed(s) PROVE PointerInv'
  <2>1. /\ UNCHANGED <<pass, focus>> /\ made' = made \ {s}
        /\ \A v \in Windows : win'[v].wl = IF win[v].wl = s THEN 0 ELSE win[v].wl
        /\ late' = {w \in late : win[w].wl # s}
        /\ seat'.pointer = IF seat.pointer = s THEN 0 ELSE seat.pointer
    BY <1>10, OthersWritten DEF SurfaceDestroyed, TypeOK
  <2>2. s # 0 /\ 0 \notin made
    BY <1>0
  <2>3. ASSUME NEW v \in Windows \cup {None}, Reached(v) PROVE Reached(v)'
    <3>1. CASE v = None
      BY <3>1 DEF Reached, Main
    <3>2. CASE v # None /\ win[v].wl = s
      BY <2>1, <2>2, <3>2 DEF Reached, Main
    <3>3. CASE v # None /\ win[v].wl # s
      BY <2>1, <2>3, <3>3 DEF Reached, Main
    <3> QED
      BY <3>1, <3>2, <3>3
  <2> QED
    BY <1>0, <2>1, <2>3 DEF PointerInv
<1>12. CASE Choose
  <2>1. /\ pass.pc = "idle" /\ pass'.pc = "keyboard" /\ pass'.input = focus.input
        /\ UNCHANGED <<made, seat, late>>
        /\ \A v \in Windows : win'[v].wl = win[v].wl
    BY <1>12, OthersWritten DEF Choose, SameIds
  <2> QED
    BY <1>0, <1>2, <2>1, ReachedKept DEF PointerInv
<1>13. CASE TellKeyboard
  <2>1. /\ UNCHANGED <<win, made, late, focus>> /\ seat'.pointer = seat.pointer
        /\ pass.pc # "idle" /\ pass'.pc # "idle"
        /\ pass'.input = pass.input /\ pass'.override = pass.override
    BY <1>13 DEF TellKeyboard, TypeOK
  <2> QED
    BY <2>1 DEF PointerInv, Reached, Main
<1>14. CASE TellPointer
  <2>1. UNCHANGED <<win, made, late, focus>> /\ pass.pc # "idle"
    BY <1>14 DEF TellPointer
  <2>2. Main(focus.input)' = Main(focus.input)
    BY <2>1 DEF Main
  <2>3. CASE /\ focus.input # pass.input \/ focus.override # pass.override
             /\ Main(focus.input) # 0
    <3>1. seat'.pointer = Main(focus.input)
      BY <1>14, <2>3 DEF TellPointer, TypeOK
    <3> QED
      BY <2>1, <2>2, <3>1 DEF PointerInv, Reached
  <2>4. CASE Main(focus.input) = 0
    BY <2>1, <2>2, <2>4 DEF PointerInv, Reached
  <2>5. CASE focus.input = pass.input /\ focus.override = pass.override /\ Main(focus.input) # 0
    <3>1. seat' = seat
      BY <1>14, <2>5 DEF TellPointer
    <3> QED
      BY <2>1, <2>2, <2>5, <3>1 DEF PointerInv, Reached
  <2> QED
    BY <2>3, <2>4, <2>5
<1>15. CASE UNCHANGED vars
  BY <1>15 DEF vars, PointerInv, Reached, Main
<1> QED
  BY <1>5, <1>6, <1>7, <1>8, <1>9, <1>10, <1>11, <1>12, <1>13, <1>14, <1>15 DEF Next

-----------------------------------------------------------------------------
(* When the choice stays: only what does not bear on it changes, or the     *)
(* window r gains on the others.                                            *)

Alike(r) ==
  /\ UNCHANGED <<list, control>>
  /\ \A v \in Windows :
       /\ win'[v].mapped = win[v].mapped /\ win'[v].demoted = win[v].demoted
       /\ win'[v].linked = win[v].linked /\ win'[v].hidden = win[v].hidden
       /\ win'[v].stamp = win[v].stamp
  /\ \A v \in Possible :
       IF v = r THEN win'[v].damage >= win[v].damage ELSE win'[v].damage = win[v].damage

LEMMA PossibleAlike ==
  ASSUME TypeOK, NEW r, Alike(r)
  PROVE  /\ Known' = Known /\ Possible' = Possible
         /\ \A n : OfApp(n)' = OfApp(n)
         /\ \A v \in Windows : Good(v)' = Good(v) /\ Parent(v)' = Parent(v)
         /\ \A v \in Windows : Demerit(v)' = Demerit(v) /\ Place(v)' = Place(v)
         /\ \A v : MayDrop(v)' = MayDrop(v)
<1>1. Known' = Known /\ Known \subseteq Windows
  BY KnownWindows DEF Alike, Known
<1>2. Possible' = Possible
  BY <1>1 DEF Alike, Possible
<1>3. \A n : OfApp(n)' = OfApp(n)
  BY <1>2 DEF OfApp
<1>4. \A v \in Windows : Good(v)' = Good(v)
  BY <1>3 DEF Good
<1>5. \A v \in Windows : Parent(v)' = Parent(v) /\ Demerit(v)' = Demerit(v)
  BY DEF Alike, Parent, Demerit, MayDrop
<1>6. \A v \in Windows : Place(v)' = Place(v)
  BY DEF Alike, Place
<1> QED
  BY <1>1, <1>2, <1>3, <1>4, <1>5, <1>6 DEF MayDrop

LEMMA AheadAlike ==
  ASSUME TypeOK, TypeOK', NEW r, Alike(r)
  PROVE  /\ \A u, v \in Possible \ {r} : Ahead(u, v)' <=> Ahead(u, v)
         /\ \A v \in Possible \ {r} : r \in Possible /\ Ahead(r, v) => Ahead(r, v)'
<1>1. Possible \subseteq Windows
  BY KnownWindows
<1>2. \A v \in Windows : Demerit(v)' = Demerit(v) /\ Place(v)' = Place(v) /\ Demerit(v) \in Nat
  BY PossibleAlike, Demerits
<1>3. \A v \in Windows : win'[v].stamp = win[v].stamp
  BY DEF Alike
<1>4. \A v \in Possible : v # r => win'[v].damage = win[v].damage
  BY DEF Alike
<1>5. \A u, v \in Possible \ {r} : Greater(u, v)' <=> Greater(u, v)
  BY <1>1, <1>2, <1>3, <1>4 DEF Greater
<1>6. \A u, v \in Possible \ {r} : Ahead(u, v)' <=> Ahead(u, v)
  BY <1>1, <1>2, <1>5 DEF Ahead
<1>7. ASSUME NEW v \in Possible \ {r}, r \in Possible, Ahead(r, v) PROVE Ahead(r, v)'
  <2>1. /\ win[v].damage \in Nat /\ win[r].damage \in Nat /\ win'[r].damage \in Nat
        /\ win[v].stamp \in Nat /\ win[r].stamp \in Nat
    BY <1>1, <1>7 DEF TypeOK, WinState
  <2>2. win'[r].damage >= win[r].damage /\ win'[v].damage = win[v].damage
    BY <1>7 DEF Alike
  <2>3. /\ Demerit(r)' = Demerit(r) /\ Demerit(v)' = Demerit(v)
        /\ Place(r)' = Place(r) /\ Place(v)' = Place(v)
        /\ Demerit(r) \in Nat /\ Demerit(v) \in Nat
        /\ win'[r].stamp = win[r].stamp /\ win'[v].stamp = win[v].stamp
    BY <1>1, <1>2, <1>3, <1>7
  <2>4. Greater(r, v) => Greater(r, v)'
    BY <2>1, <2>2, <2>3 DEF Greater
  <2>5. Greater(v, r)' => Greater(v, r)
    BY <2>1, <2>2, <2>3 DEF Greater
  <2> QED
    BY <1>7, <2>3, <2>4, <2>5 DEF Ahead
<1> QED
  BY <1>6, <1>7

Strict == \A x, y \in Known : ~(Ahead(x, y) /\ Ahead(y, x))

LEMMA StrictNow == TypeOK => Strict
BY AheadOrder DEF Strict

LEMMA StrictNext == TypeOK' => Strict'
BY StrictNow, PTL

LEMMA BestAlike ==
  ASSUME TypeOK, TypeOK', NEW r, Alike(r), NEW S \in SUBSET Possible
  PROVE  Best(S)' = Best(S) \/ (r \in S /\ Best(S)' = r)
<1>1. S \subseteq Known /\ Known' = Known /\ Possible \subseteq Known
  BY KnownWindows, PossibleAlike
<1>2. CASE S = {}
  BY <1>2 DEF Best
<1>3. CASE S # {}
  <2>1. /\ Best(S) \in S
        /\ \A b \in S : b = Best(S) <=> \A w \in S \ {b} : Ahead(b, w)
    BY <1>1, <1>3, BestNow DEF BestTold
  <2>2. /\ Best(S)' \in S
        /\ \A b \in S : b = Best(S)' <=> \A w \in S \ {b} : Ahead(b, w)'
    BY <1>1, <1>3, BestNext DEF BestTold
  <2>3. PICK b \in S : b = Best(S)
    BY <2>1
  <2>4. PICK c \in S : c = Best(S)'
    BY <2>2
  <2>5. \A w \in S \ {b} : Ahead(b, w)
    BY <2>1, <2>3
  <2>6. \A w \in S \ {c} : Ahead(c, w)'
    BY <2>2, <2>4
  <2>7. ASSUME c # b, c # r PROVE FALSE
    <3>1. Ahead(b, c) /\ Ahead(c, b)'
      BY <2>3, <2>4, <2>5, <2>6, <2>7
    <3>2. ~Ahead(b, c)'
      <4>1. ~(Ahead(c, b)' /\ Ahead(b, c)')
        BY <1>1, <2>3, <2>4, StrictNext DEF Strict
      <4> QED
        BY <3>1, <4>1
    <3>3. CASE b = r
      <4>1. Ahead(r, c)'
        BY <2>3, <2>4, <2>7, <3>1, <3>3, AheadAlike
      <4> QED
        BY <3>2, <3>3, <4>1
    <3>4. CASE b # r
      <4>1. Ahead(b, c)'
        BY <2>3, <2>4, <2>7, <3>1, <3>4, AheadAlike
      <4> QED
        BY <3>2, <4>1
    <3> QED
      BY <3>3, <3>4
  <2> QED
    BY <2>3, <2>4, <2>7
<1> QED
  BY <1>2, <1>3

-----------------------------------------------------------------------------
(* Transient links end, so that a window they were followed to leads no     *)
(* further, and is found again whatever window on the way it overtakes.     *)

LEMMA FollowEnds ==
  ASSUME TypeOK, NEW w \in Windows
  PROVE  Follow(w) \in Windows /\ FollowNext(Follow(w)) = {}
<1>0. /\ Possible \subseteq Known /\ Known \subseteq Windows /\ Size \in Nat /\ BestTold
      /\ None \notin Windows
  BY KnownWindows, SizeIs, BestNow, FocusAssumption
<1>1. Following \in [Windows -> Windows] /\ Follow(w) = End(Following, Windows, w, Size)
  BY FollowNow DEF FollowTold
<1>2. PICK f : Run(Following, Windows, w, Size, f) /\ Follow(w) = f[Size]
  BY <1>0, <1>1, EndOfRun
<1>3. /\ f \in [0..Size -> Windows]
      /\ \A n \in 1..Size : f[n] = Following[f[n - 1]]
  BY <1>2 DEF Run
<1>4. PICK depth \in [Windows -> 0..(Size - 1)] :
        \A v \in Windows : Owner[v] # None => depth[Owner[v]] < depth[v]
  BY FocusAssumption DEF Size
<1>5. ASSUME NEW v \in Windows, FollowNext(v) # {} PROVE depth[v] < depth[Following[v]]
  <2>1. Following[v] = Best(FollowNext(v))
    BY <1>5 DEF Following, FollowStep
  <2>2. Following[v] \in FollowNext(v)
    BY <1>0, <1>5, <2>1 DEF BestTold, FollowNext
  <2>3. Following[v] \in Windows /\ Parent(Following[v]) = v
    BY <1>0, <2>2 DEF FollowNext
  <2>4. Owner[Following[v]] = v
    BY <1>0, <2>3 DEF Parent
  <2> QED
    BY <1>0, <1>4, <2>3, <2>4
<1>6. \A v \in Windows : FollowNext(v) = {} => Following[v] = v
  BY DEF Following, FollowStep
<1> HIDE DEF Following
<1>7. ASSUME FollowNext(f[Size]) # {}, NEW n \in 0..Size PROVE FollowNext(f[n]) # {}
  <2> SUFFICES ASSUME FollowNext(f[n]) = {} PROVE FALSE
    OBVIOUS
  <2> DEFINE moved == {k \in n..Size : f[k] # f[n]}
  <2>1. Size \in moved
    BY <1>0, <1>7
  <2>2. moved \subseteq Nat
    BY <1>0
  <2>3. PICK m \in moved : \A k \in moved : m <= k
    BY <2>1, <2>2, Smallest
  <2>4. m # n /\ m \in n..Size
    BY <2>3
  <2>5. m \in 1..Size /\ m - 1 \in n..Size /\ ~(m <= m - 1)
    BY <1>0, <2>4
  <2>6. f[m - 1] = f[n]
    BY <2>3, <2>5
  <2>7. f[m] = f[n]
    BY <1>3, <1>6, <2>5, <2>6
  <2> QED
    BY <2>3, <2>7
<1>8. ASSUME FollowNext(f[Size]) # {} PROVE FALSE
  <2> DEFINE short == {k \in 0..Size : depth[f[k]] < k}
  <2>1. Size \in short
    <3>1. f[Size] \in Windows /\ Size \in 0..Size
      BY <1>0, <1>3
    <3>2. depth[f[Size]] \in 0..(Size - 1)
      BY <1>4, <3>1
    <3> QED
      BY <1>0, <3>1, <3>2
  <2>2. short \subseteq Nat
    BY <1>0
  <2>3. PICK m \in short : \A k \in short : m <= k
    BY <2>1, <2>2, Smallest
  <2>4. m \in 0..Size /\ depth[f[m]] < m
    BY <2>3
  <2>5. f[m] \in Windows /\ depth[f[m]] \in 0..(Size - 1)
    BY <1>3, <1>4, <2>4
  <2>6. m \in 1..Size /\ m - 1 \in 0..Size /\ ~(m <= m - 1)
    BY <1>0, <2>4, <2>5
  <2>7. m - 1 \notin short
    BY <2>3, <2>6
  <2>8. f[m - 1] \in Windows /\ depth[f[m - 1]] \in 0..(Size - 1) /\ depth[f[m - 1]] >= m - 1
    BY <1>0, <1>3, <1>4, <2>6, <2>7
  <2>9. depth[f[m - 1]] < depth[f[m]]
    BY <1>3, <1>5, <1>7, <1>8, <2>6, <2>8
  <2> QED
    BY <1>0, <2>4, <2>5, <2>6, <2>8, <2>9
<1> QED
  BY <1>0, <1>2, <1>3, <1>8

LEMMA FollowAlike ==
  ASSUME TypeOK, TypeOK', NEW r \in Ref, Alike(r), NEW v \in Windows, NEW w \in Windows,
         w \in {v, r}, r = None \/ Follow(v) = r
  PROVE  Follow(w)' = Follow(v)
<1>0. /\ Possible \subseteq Known /\ Known \subseteq Windows /\ Size \in Nat /\ None \notin Windows
  BY KnownWindows, SizeIs, FocusAssumption
<1>1. \A x \in Windows : FollowNext(x)' = FollowNext(x)
  BY <1>0, PossibleAlike DEF FollowNext
<1>2. ASSUME NEW x \in Windows
      PROVE  Following'[x] = Following[x] \/ (r \in FollowNext(x) /\ Following'[x] = r)
  <2>1. FollowNext(x) \in SUBSET Possible
    BY DEF FollowNext
  <2>2. CASE FollowNext(x) = {}
    BY <1>1, <2>2 DEF Following, FollowStep
  <2>3. CASE FollowNext(x) # {}
    <3>1. Following[x] = Best(FollowNext(x))
      BY <2>3 DEF Following, FollowStep
    <3>2. Following'[x] = Best(FollowNext(x))'
      BY <1>1, <2>3 DEF Following, FollowStep
    <3>3. PICK S \in SUBSET Possible : S = FollowNext(x)
      BY <2>1
    <3>4. Best(S)' = Best(S) \/ (r \in S /\ Best(S)' = r)
      BY BestAlike
    <3>5. Best(FollowNext(x))' = Best(S)'
      <4>1. FollowNext(x)' = S
        BY <1>1, <3>3
      <4> QED
        BY <4>1 DEF Best
    <3> QED
      BY <3>1, <3>2, <3>3, <3>4, <3>5
  <2> QED
    BY <2>2, <2>3
<1>3. PICK f : Run(Following, Windows, v, Size, f) /\ Follow(v) = f[Size]
  BY <1>0, FollowNow, EndOfRun DEF FollowTold
<1>4. PICK g : Run(Following', Windows, w, Size, g) /\ Follow(w)' = g[Size]
  BY <1>0, FollowAfter, EndOfRun DEF FollowTold
<1>5. /\ f \in [0..Size -> Windows] /\ f[0] = v
      /\ \A n \in 1..Size : f[n] = Following[f[n - 1]]
  BY <1>3 DEF Run
<1>6. /\ g \in [0..Size -> Windows] /\ g[0] = w
      /\ \A n \in 1..Size : g[n] = Following'[g[n - 1]]
  BY <1>4 DEF Run
<1>7. r # None => r \in Windows /\ Following'[r] = r
  <2> SUFFICES ASSUME r # None PROVE r \in Windows /\ Following'[r] = r
    OBVIOUS
  <2>1. r \in Windows /\ FollowNext(r) = {}
    BY FollowEnds DEF Ref
  <2> QED
    BY <1>1, <2>1 DEF Following, FollowStep
<1> HIDE DEF Following
<1> DEFINE apart == {n \in 0..Size : g[n] # f[n] /\ g[n] # r}
<1>8. ASSUME apart # {} PROVE FALSE
  <2>1. apart \subseteq Nat
    BY <1>0
  <2>2. PICK m \in apart : \A k \in apart : m <= k
    BY <1>8, <2>1, Smallest
  <2>3. m # 0
    BY <1>5, <1>6, <2>2
  <2>4. m \in 1..Size /\ m - 1 \in 0..Size /\ ~(m <= m - 1)
    BY <1>0, <2>2, <2>3
  <2>5. g[m - 1] = f[m - 1] \/ g[m - 1] = r
    BY <2>2, <2>4
  <2>6. g[m - 1] \in Windows /\ f[m - 1] \in Windows
    BY <1>5, <1>6, <2>4
  <2>7. g[m] = f[m] \/ g[m] = r
    BY <1>0, <1>2, <1>5, <1>6, <1>7, <2>4, <2>5, <2>6
  <2> QED
    BY <2>2, <2>7
<1>9. g[Size] = f[Size] \/ g[Size] = r
  BY <1>0, <1>8
<1>10. g[Size] \in Windows
  BY <1>0, <1>6
<1> QED
  BY <1>0, <1>3, <1>4, <1>9, <1>10

LEMMA ResolveAlike ==
  ASSUME TypeOK, TypeOK', NEW w \in Windows, NEW r \in {None, w}, Alike(r), NEW o \in Ref,
         NEW kind \in SUBSET Windows
  PROVE  Resolved(w, o, kind)' = Resolved(w, o, kind)
<1>0. Possible \subseteq Known /\ Known \subseteq Windows /\ None \notin Windows
  BY KnownWindows, FocusAssumption
<1>1. \A x \in Ref : ResolveNext(w, kind, x)' = ResolveNext(w, kind, x)
  BY <1>0, PossibleAlike DEF ResolveNext
<1>2. ASSUME NEW x \in Ref PROVE Resolving(w, kind)'[x] = Resolving(w, kind)[x]
  <2>1. PICK S \in SUBSET Possible : S = ResolveNext(w, kind, x)
    BY DEF ResolveNext
  <2>2. r \notin S
    BY <1>0, <2>1 DEF ResolveNext
  <2>3. Best(S)' = Best(S)
    BY <2>2, BestAlike
  <2>4. ResolveNext(w, kind, x)' = S
    BY <1>1, <2>1
  <2>5. ResolveStep(w, kind, x)' = ResolveStep(w, kind, x)
    BY <2>1, <2>3, <2>4 DEF ResolveStep, Best
  <2> QED
    BY <2>5 DEF Resolving
<1>3. Resolving(w, kind)' = Resolving(w, kind)
  BY <1>2 DEF Resolving
<1>4. Resolved(w, o, kind) = End(Resolving(w, kind), Ref, o, Size)
  BY ResolveNow DEF ResolveTold
<1>5. Resolved(w, o, kind)' = End(Resolving(w, kind)', Ref, o, Size)
  BY ResolveAfter DEF ResolveTold
<1> QED
  BY <1>3, <1>4, <1>5, Zenon

LEMMA OverrideAlike ==
  ASSUME TypeOK, TypeOK', NEW w \in Ref, NEW r \in {None, w}, Alike(r)
  PROVE  OverrideOf(w)' = OverrideOf(w)
<1>1. CASE w = None
  BY <1>1 DEF OverrideOf
<1>2. CASE w # None
  <2>0. w \in Windows /\ None \notin Windows
    BY <1>2, FocusAssumption DEF Ref
  <2>1. control' = control
    BY DEF Alike
  <2>2. Good(w)' = Good(w) /\ Good(w) \subseteq Possible \ {w}
    BY <2>0, PossibleAlike DEF Good, OfApp
  <2>3. PICK S \in SUBSET Possible : S = Good(w) \cap Redirect
    BY <2>2
  <2>4. PICK T \in SUBSET Possible : T = {o \in Good(w) : MayDrop(o)}
    BY <2>2
  <2>5. r \notin S /\ r \notin T
    <3>1. r \notin Good(w)
      BY <2>0, <2>2, KnownWindows
    <3> QED
      BY <2>3, <2>4, <3>1
  <2>6. Best(S)' = Best(S) /\ Best(T)' = Best(T)
    BY <2>5, BestAlike
  <2>7. S = (Good(w) \cap Redirect)' /\ T = {o \in Good(w)' : MayDrop(o)'}
    BY <2>2, <2>3, <2>4 DEF MayDrop
  <2>8. PICK q \in Ref : q = Best(S)
    BY KnownWindows, BestNow, BestIsMember DEF Ref
  <2>9. PICK e \in Ref : e = IF App[w] \in Range(control) THEN Best(T) ELSE None
    BY KnownWindows, BestNow, BestIsMember DEF Ref
  <2>10. OverrideOf(w) = IF Resolved(w, q, Redirect) # None THEN Resolved(w, q, Redirect)
                         ELSE Resolved(w, e, Redirect \cup Dropdown)
    BY <1>2, <2>3, <2>4, <2>8, <2>9 DEF OverrideOf
  <2>11. OverrideOf(w)' = IF Resolved(w, q, Redirect)' # None THEN Resolved(w, q, Redirect)'
                          ELSE Resolved(w, e, Redirect \cup Dropdown)'
    <3>1. q = Best(Good(w) \cap Redirect)'
      BY <2>6, <2>7, <2>8 DEF Best
    <3>2. e = IF App[w] \in Range(control') THEN Best({o \in Good(w) : MayDrop(o)})' ELSE None
      BY <2>1, <2>6, <2>7, <2>9 DEF Best
    <3> QED
      BY <1>2, <3>1, <3>2 DEF OverrideOf
  <2>12. /\ Resolved(w, q, Redirect)' = Resolved(w, q, Redirect)
         /\ Resolved(w, e, Redirect \cup Dropdown)' = Resolved(w, e, Redirect \cup Dropdown)
    <3>1. Redirect \in SUBSET Windows /\ Redirect \cup Dropdown \in SUBSET Windows
      BY FocusAssumption
    <3> QED
      BY <2>0, <3>1, ResolveAlike
  <2> QED
    BY <2>10, <2>11, <2>12
<1> QED
  BY <1>1, <1>2

LEMMA AskedAlike ==
  ASSUME TypeOK, TypeOK', NEW r \in Ref, Alike(r)
  PROVE  /\ Asked' = Asked \/ (Asked # None /\ r # None /\ Asked' = r)
         /\ Best(Possible)' = Best(Possible) \/ (r # None /\ Best(Possible)' = r)
<1>0. Possible \subseteq Windows /\ None \notin Windows /\ Possible' = Possible /\ control' = control
  BY KnownWindows, FocusAssumption, PossibleAlike DEF Alike
<1>1. Best(Possible)' = Best(Possible) \/ (r # None /\ Best(Possible)' = r)
  <2>1. PICK S \in SUBSET Possible : S = Possible
    OBVIOUS
  <2>2. Best(Possible)' = Best(S)'
    BY <1>0, <2>1 DEF Best
  <2> QED
    BY <1>0, <2>1, <2>2, BestAlike
<1>2. PICK H : H = {i \in 1..Len(control) : OfApp(control[i]) # {}}
  OBVIOUS
<1>3. H = {i \in 1..Len(control) : OfApp(control[i]) # {}}'
  BY <1>0, <1>2, PossibleAlike
<1>4. CASE H = {}
  BY <1>1, <1>2, <1>3, <1>4 DEF Asked
<1>5. CASE H # {}
  <2>1. PICK i : i = CHOOSE h \in H : \A j \in H : h <= j
    OBVIOUS
  <2>2. PICK n : n = control[i] /\ n = control'[i]
    BY <1>0
  <2>3. PICK S \in SUBSET Possible : S = OfApp(n)
    BY DEF OfApp
  <2>4. Asked = Best(S)
    BY <1>2, <1>5, <2>1, <2>2, <2>3 DEF Asked
  <2>5. Asked' = Best(S)'
    <3>1. OfApp(n)' = S
      BY <2>3, PossibleAlike
    <3>2. OfApp(control[i])' = S
      BY <2>2, <3>1 DEF OfApp
    <3>3. Asked' = Best(OfApp(control[i]))'
      BY <1>3, <1>5, <2>1 DEF Asked
    <3> QED
      BY <3>2, <3>3 DEF Best
  <2>6. Best(S)' = Best(S) \/ (r \in S /\ Best(S)' = r)
    BY BestAlike
  <2>7. r \in S => Best(S) # None /\ r # None
    BY <1>0, <2>3, KnownWindows, BestNow DEF BestTold
  <2> QED
    BY <1>1, <2>4, <2>5, <2>6, <2>7
<1> QED
  BY <1>4, <1>5

LEMMA ChosenAlike ==
  ASSUME TypeOK, TypeOK', NEW r \in Ref, Alike(r), r = None \/ Chosen(FALSE) = r
  PROVE  Chosen(TRUE)' = Chosen(TRUE) /\ Chosen(FALSE)' = Chosen(FALSE)
<1>0. /\ Asked \in Ref /\ Best(Possible) \in Ref /\ None \notin Windows
      /\ Asked' = Asked \/ (Asked # None /\ r # None /\ Asked' = r)
      /\ Best(Possible)' = Best(Possible) \/ (r # None /\ Best(Possible)' = r)
  BY AskedAlike, ChosenIsTyped, KnownWindows, BestNow, BestIsMember, FocusAssumption DEF ChosenTyped, Ref
<1>1. PICK a \in Ref, c \in Ref : a = Asked' /\ c = Best(Possible)'
  BY <1>0
<1>2. PICK u \in Ref, v \in Ref : u = Asked /\ v = Best(Possible)
  BY <1>0
<1>3. Follow(None) = None /\ Follow(None)' = None
  BY DEF Follow
<1>4. CASE u = None
  <2>1. a = None
    BY <1>0, <1>1, <1>2, <1>4
  <2>2. Chosen(TRUE) = None /\ Chosen(TRUE)' = None
    BY <1>1, <1>2, <1>3, <1>4, <2>1 DEF Chosen
  <2>3. Chosen(FALSE) = Follow(v) /\ Chosen(FALSE)' = Follow(c)'
    BY <1>1, <1>2, <1>4, <2>1 DEF Chosen
  <2>4. CASE v = None
    <3>1. r = None
      BY <1>3, <2>3, <2>4
    <3> QED
      BY <1>0, <1>1, <1>2, <1>3, <2>2, <2>3, <2>4, <3>1
  <2>5. CASE v # None
    <3>1. v \in Windows /\ c \in Windows /\ c \in {v, r}
      BY <1>0, <1>1, <1>2, <2>5 DEF Ref
    <3>2. Follow(c)' = Follow(v)
      BY <2>3, <3>1, FollowAlike
    <3> QED
      BY <2>2, <2>3, <3>2
  <2> QED
    BY <2>4, <2>5
<1>5. CASE u # None
  <2>1. u \in Windows /\ a \in Windows /\ a \in {u, r}
    BY <1>0, <1>1, <1>2, <1>5 DEF Ref
  <2>2. \A g \in BOOLEAN : Chosen(g) = Follow(u) /\ Chosen(g)' = Follow(a)'
    BY <1>0, <1>1, <1>2, <1>5, <2>1 DEF Chosen
  <2>3. Follow(a)' = Follow(u)
    BY <2>1, <2>2, FollowAlike
  <2> QED
    BY <2>2, <2>3
<1> QED
  BY <1>4, <1>5

-----------------------------------------------------------------------------
(* The focus.                                                               *)

\* What the focus records is what a new choice would make it.
Fresh ==
  LET c == Chosen(TRUE)
      here == Chosen(FALSE)
  IN  /\ c # None => \/ win[c].done /\ focus.window = c
                     \/ ~win[c].done /\ win[c].outdated
      /\ focus.override = OverrideOf(c)
      /\ here # None => local = here

\* A pass keeps what it chose until it has told the seat.
ChoiceInv ==
  /\ pass.pc # "idle" => dirty
  /\ (pass.pc # "idle" \/ ~dirty) /\ ~silent => Fresh

LEMMA FreshKept ==
  ASSUME TypeOK, TypeOK', Fresh, UNCHANGED <<local, focus>>, NEW r \in Ref, Alike(r),
         r = None \/ Chosen(FALSE) = r,
         \A v \in Windows :
           \/ win'[v].done = win[v].done /\ win'[v].outdated = win[v].outdated
           \/ ~win[v].done /\ ~win[v].outdated
  PROVE  Fresh'
<1>1. PICK c \in Ref, h \in Ref : c = Chosen(TRUE) /\ h = Chosen(FALSE)
  BY ChosenIsTyped DEF ChosenTyped
<1>2. Chosen(TRUE)' = c /\ Chosen(FALSE)' = h
  BY <1>1, ChosenAlike
<1>3. c # None => c = h
  BY <1>1 DEF Chosen, Follow
<1>4. OverrideOf(c)' = OverrideOf(c)
  <2>1. CASE c = None
    BY <2>1 DEF OverrideOf
  <2>2. CASE c # None
    BY <1>1, <1>3, <2>2, OverrideAlike
  <2> QED
    BY <2>1, <2>2
<1>5. /\ c # None => \/ win[c].done /\ focus.window = c
                     \/ ~win[c].done /\ win[c].outdated
      /\ focus.override = OverrideOf(c)
      /\ h # None => local = h
  BY <1>1 DEF Fresh
<1>6. /\ c # None => \/ win'[c].done /\ focus'.window = c
                     \/ ~win'[c].done /\ win'[c].outdated
      /\ focus'.override = OverrideOf(c)'
      /\ h # None => local' = h
  BY <1>4, <1>5 DEF Ref
<1> QED
  BY <1>2, <1>6 DEF Fresh, OverrideOf

LEMMA SameButDamage ==
  ASSUME NEW r \in WinState, NEW n \in Nat, NEW q, q = [r EXCEPT !.damage = n]
  PROVE  /\ q.mapped = r.mapped /\ q.demoted = r.demoted /\ q.linked = r.linked
         /\ q.hidden = r.hidden /\ q.stamp = r.stamp /\ q.done = r.done
         /\ q.outdated = r.outdated /\ q.damage = n
BY DEF WinState

LEMMA SameButSurface ==
  ASSUME NEW r \in WinState, NEW n \in Nat, NEW q, q = [r EXCEPT !.wl = n]
  PROVE  /\ q.mapped = r.mapped /\ q.demoted = r.demoted /\ q.linked = r.linked
         /\ q.hidden = r.hidden /\ q.stamp = r.stamp /\ q.done = r.done
         /\ q.outdated = r.outdated /\ q.damage = r.damage
BY DEF WinState

\* Damage that does not mark the focus is of no window that could be chosen, or of
\* the one that is.
LEMMA DamageKept ==
  ASSUME TypeOK, TypeOK', NEW w \in Windows, DamageWin(w), ~dirty', Fresh
  PROVE  Fresh'
<1>0. /\ Known \subseteq Windows /\ Possible \subseteq Known /\ None \notin Windows
      /\ win[w] \in WinState /\ UNCHANGED <<list, control, local, focus>>
      /\ w \in Known
  BY KnownWindows, FocusAssumption DEF TypeOK, DamageWin
<1>1. PICK n \in Nat : win' = [win EXCEPT ![w] = [win[w] EXCEPT !.damage = n]]
                       /\ win[w].damage <= n
  <2>1. PICK d \in Nat : d = Newest(Damage) /\ win[w].damage <= d
    BY <1>0, NewestOfDamage, Zenon
  <2>2. win[w].damage <= d + 1 /\ d + 1 \in Nat
    BY <1>0, <2>1 DEF WinState
  <2>3. win' = [win EXCEPT ![w] = [win[w] EXCEPT !.damage = d + 1]]
    BY <2>1, Zenon DEF DamageWin
  <2> QED
    BY <2>2, <2>3
<1>2. \A v \in Windows : v # w => win'[v] = win[v]
  BY <1>1 DEF TypeOK
<1>3. /\ win'[w].mapped = win[w].mapped /\ win'[w].demoted = win[w].demoted
      /\ win'[w].linked = win[w].linked /\ win'[w].hidden = win[w].hidden
      /\ win'[w].stamp = win[w].stamp /\ win'[w].done = win[w].done
      /\ win'[w].outdated = win[w].outdated /\ win'[w].damage = n
  <2>1. win'[w] = [win[w] EXCEPT !.damage = n]
    BY <1>1 DEF TypeOK
  <2> QED
    BY <1>0, <2>1, SameButDamage
<1>4. \A v \in Windows : win[v].damage \in Nat
  BY DEF TypeOK, WinState
<1>5. CASE w \notin Possible
  <2>1. Alike(None)
    BY <1>0, <1>2, <1>3, <1>4, <1>5 DEF Alike
  <2> QED
    BY <1>0, <1>2, <1>3, <2>1, FreshKept DEF Ref
<1>6. CASE w \in Possible
  <2>1. Alike(w)
    BY <1>0, <1>1, <1>2, <1>3, <1>4, <1>6 DEF Alike
  <2>2. local \in {None, w}
    BY <1>6 DEF DamageWin, Possible
  <2>3. Chosen(FALSE) # None
    <3>1. Best(Possible) \in Possible
      BY <1>0, <1>6, BestNow DEF BestTold
    <3>2. Asked \in Possible \cup {None}
      BY ChosenIsTyped DEF ChosenTyped
    <3>3. PICK v \in Windows : Chosen(FALSE) = Follow(v)
      BY <1>0, <3>1, <3>2 DEF Chosen
    <3> QED
      BY <1>0, <3>3, FollowEnds
  <2>4. local = Chosen(FALSE)
    BY <2>3 DEF Fresh
  <2>5. Chosen(FALSE) = w
    BY <2>2, <2>3, <2>4
  <2> QED
    BY <1>0, <1>2, <1>3, <2>1, <2>5, FreshKept DEF Ref
<1> QED
  BY <1>5, <1>6

LEMMA ChoiceKept ==
  ASSUME TypeOK, TypeOK', ChoiceInv, [Next]_vars
  PROVE  ChoiceInv'
<1>0. /\ None \in Ref /\ None \notin Windows /\ ids \in Nat
      /\ \A v \in Windows : win[v] \in WinState
  BY FocusAssumption DEF TypeOK, Ref
\* what marks the focus, or makes the choice another one in silence
<1>1. ASSUME pass'.pc = "idle", dirty' \/ silent' PROVE ChoiceInv'
  BY <1>1 DEF ChoiceInv
\* what does not bear on the choice
<1>2. ASSUME UNCHANGED <<list, control, local, focus>>, Fresh,
             \A v \in Windows :
               /\ win'[v].mapped = win[v].mapped /\ win'[v].demoted = win[v].demoted
               /\ win'[v].linked = win[v].linked /\ win'[v].hidden = win[v].hidden
               /\ win'[v].stamp = win[v].stamp /\ win'[v].damage = win[v].damage,
             \A v \in Windows :
               \/ win'[v].done = win[v].done /\ win'[v].outdated = win[v].outdated
               \/ ~win[v].done /\ ~win[v].outdated
      PROVE  Fresh'
  <2>1. Possible \subseteq Windows
    BY KnownWindows
  <2>2. Alike(None)
    BY <1>0, <1>2, <2>1 DEF Alike
  <2> QED
    BY <1>0, <1>2, <2>2, FreshKept
<1>3. ASSUME NEW w \in Windows,
             \/ AddWin(w) \/ MapWin(w) \/ UnmapWin(w) \/ DestroyWin(w) \/ RestackWin(w)
             \/ StyleNotify(w) \/ TransientNotify(w) \/ OpacityNotify(w)
      PROVE  ChoiceInv'
  BY <1>1, <1>3 DEF AddWin, MapWin, UnmapWin, DestroyWin, RestackWin, StyleNotify,
                    TransientNotify, Notified, OpacityNotify, XEvent
<1>4. CASE ModeNotify \/ ControlNotify
  BY <1>1, <1>4 DEF ModeNotify, Notified, ControlNotify, XEvent
<1>5. ASSUME NEW w \in Windows, DamageWin(w) PROVE ChoiceInv'
  <2>1. pass'.pc = "idle" /\ pass.pc = "idle" /\ silent' = silent
    BY <1>5 DEF DamageWin, XEvent
  <2>2. CASE dirty' \/ silent'
    BY <1>1, <2>1, <2>2
  <2>3. CASE ~dirty' /\ ~silent'
    <3>1. ~dirty
      BY <1>5, <2>3 DEF DamageWin
    <3>2. Fresh
      BY <2>1, <2>3, <3>1 DEF ChoiceInv
    <3>3. Fresh'
      BY <1>5, <2>3, <3>2, DamageKept
    <3> QED
      BY <2>1, <3>3 DEF ChoiceInv
  <2> QED
    BY <2>2, <2>3
<1>6. ASSUME Fresh => Fresh', UNCHANGED <<pass, dirty, silent>> PROVE ChoiceInv'
  BY <1>6 DEF ChoiceInv
<1>7. ASSUME NEW w \in Windows, SurfaceId(w) PROVE ChoiceInv'
  <2>1. win' = [win EXCEPT ![w] = [win[w] EXCEPT !.wl = ids + 1]] /\ ids + 1 \in Nat
    BY <1>0, <1>7 DEF SurfaceId, TypeOK
  <2>2. win'[w] = [win[w] EXCEPT !.wl = ids + 1] /\ \A v \in Windows : v # w => win'[v] = win[v]
    BY <2>1 DEF TypeOK
  <2>3. /\ win'[w].mapped = win[w].mapped /\ win'[w].demoted = win[w].demoted
        /\ win'[w].linked = win[w].linked /\ win'[w].hidden = win[w].hidden
        /\ win'[w].stamp = win[w].stamp /\ win'[w].done = win[w].done
        /\ win'[w].outdated = win[w].outdated /\ win'[w].damage = win[w].damage
    BY <1>0, <2>1, <2>2, SameButSurface
  <2>4. Fresh => Fresh'
    BY <1>2, <1>7, <2>2, <2>3 DEF SurfaceId
  <2> QED
    BY <1>6, <1>7, <2>4 DEF SurfaceId
<1>8. ASSUME NEW w \in Windows, NewSurface(w) PROVE ChoiceInv'
  BY <1>2, <1>6, <1>8 DEF NewSurface
<1>9. ASSUME NEW s \in made, SurfaceDestroyed(s) PROVE ChoiceInv'
  <2>1. \A v \in Windows : win'[v] = win[v] \/ win'[v] = [win[v] EXCEPT !.wl = 0]
    BY <1>9 DEF SurfaceDestroyed
  <2>2. ASSUME NEW v \in Windows
        PROVE  /\ win'[v].mapped = win[v].mapped /\ win'[v].demoted = win[v].demoted
               /\ win'[v].linked = win[v].linked /\ win'[v].hidden = win[v].hidden
               /\ win'[v].stamp = win[v].stamp /\ win'[v].done = win[v].done
               /\ win'[v].outdated = win[v].outdated /\ win'[v].damage = win[v].damage
    <3>1. CASE win'[v] = win[v]
      BY <3>1
    <3>2. CASE win'[v] = [win[v] EXCEPT !.wl = 0]
      <4>1. 0 \in Nat
        OBVIOUS
      <4> QED
        BY <1>0, <3>2, <4>1, SameButSurface
    <3> QED
      BY <2>1, <3>1, <3>2
  <2>3. Fresh => Fresh'
    BY <1>2, <1>9, <2>2 DEF SurfaceDestroyed
  <2> QED
    BY <1>6, <1>9, <2>3 DEF SurfaceDestroyed
<1>10. ASSUME NEW w \in Windows, DoneCommit(w) PROVE ChoiceInv'
  <2>1. /\ pass.pc = "idle" /\ UNCHANGED <<pass, silent, list, control, local, focus>>
        /\ dirty' = (dirty \/ win[w].outdated) /\ ~win[w].done
    BY <1>10 DEF DoneCommit
  <2>2. CASE dirty'
    BY <1>1, <2>1, <2>2
  <2>3. CASE ~dirty'
    <3>1. ~dirty /\ ~win[w].outdated
      BY <2>1, <2>3
    <3>2. win' = [win EXCEPT ![w] = [win[w] EXCEPT !.done = TRUE, !.outdated = FALSE]]
      BY <1>10 DEF DoneCommit, TypeOK
    <3>3. \A v \in Windows : v # w => win'[v] = win[v]
      BY <3>2 DEF TypeOK
    <3>4. /\ win'[w].mapped = win[w].mapped /\ win'[w].demoted = win[w].demoted
          /\ win'[w].linked = win[w].linked /\ win'[w].hidden = win[w].hidden
          /\ win'[w].stamp = win[w].stamp /\ win'[w].damage = win[w].damage
      BY <1>0, <3>2 DEF TypeOK, WinState
    <3>5. Fresh => Fresh'
      BY <1>2, <2>1, <3>1, <3>3, <3>4
    <3> QED
      BY <2>1, <2>3, <3>1, <3>5 DEF ChoiceInv
  <2> QED
    BY <2>2, <2>3
<1>11. CASE Choose
  <2>1. PICK c \in Ref, h \in Ref : c = Chosen(TRUE) /\ h = Chosen(FALSE)
    BY ChosenIsTyped DEF ChosenTyped
  <2>2. /\ \A v \in Windows :
             win'[v] = IF v \in Marked({c, h}) THEN [win[v] EXCEPT !.outdated = TRUE] ELSE win[v]
        /\ focus'.window = (IF c # None /\ win[c].done THEN c ELSE focus.window)
        /\ focus'.override = OverrideOf(c) /\ local' = (IF h = None THEN local ELSE h)
        /\ UNCHANGED <<list, control, dirty>> /\ dirty /\ ~silent' /\ pass'.pc = "keyboard"
    BY <1>11, <2>1, Zenon DEF Choose
  <2>3. ASSUME NEW v \in Windows
        PROVE  /\ win'[v].mapped = win[v].mapped /\ win'[v].demoted = win[v].demoted
               /\ win'[v].linked = win[v].linked /\ win'[v].hidden = win[v].hidden
               /\ win'[v].stamp = win[v].stamp /\ win'[v].damage = win[v].damage
               /\ win'[v].done = win[v].done
               /\ v \in Marked({c, h}) => win'[v].outdated
    BY <1>0, <2>2 DEF WinState
  <2>4. Alike(None)
    <3>1. Possible \subseteq Windows
      BY KnownWindows
    <3> QED
      BY <1>0, <2>2, <2>3, <3>1 DEF Alike
  <2>5. Chosen(TRUE)' = c /\ Chosen(FALSE)' = h /\ OverrideOf(c)' = OverrideOf(c)
    BY <1>0, <2>1, <2>4, ChosenAlike, OverrideAlike
  <2>6. c # None => \/ win'[c].done /\ focus'.window = c
                    \/ ~win'[c].done /\ win'[c].outdated
    <3> SUFFICES ASSUME c # None, ~win'[c].done \/ focus'.window # c
                 PROVE  ~win'[c].done /\ win'[c].outdated
      BY <1>0, <2>3 DEF Ref, WinState
    <3>1. c \in Windows
      BY DEF Ref
    <3>2. ~win[c].done
      BY <2>2, <2>3, <3>1
    <3>3. c \in Marked({c, h})
      BY <3>1, <3>2 DEF Marked
    <3> QED
      BY <2>3, <3>1, <3>2, <3>3
  <2>7. Fresh'
    BY <2>2, <2>5, <2>6 DEF Fresh, OverrideOf
  <2> QED
    BY <2>2, <2>7 DEF ChoiceInv
<1>12. CASE TellKeyboard
  <2>1. /\ pass.pc # "idle" /\ pass'.pc # "idle"
        /\ UNCHANGED <<list, control, win, local, focus, dirty, silent>>
    BY <1>12 DEF TellKeyboard, TypeOK
  <2>2. Fresh => Fresh'
    BY <1>2, <2>1
  <2> QED
    BY <2>1, <2>2 DEF ChoiceInv
<1>13. CASE TellPointer
  <2>1. /\ pass.pc # "idle" /\ pass'.pc = "idle"
        /\ UNCHANGED <<list, control, win, local, focus, silent>>
    BY <1>13 DEF TellPointer
  <2>2. Fresh => Fresh'
    BY <1>2, <2>1
  <2> QED
    BY <2>1, <2>2 DEF ChoiceInv
<1>14. CASE UNCHANGED vars
  BY <1>2, <1>6, <1>14 DEF vars
<1> QED
  BY <1>3, <1>4, <1>5, <1>7, <1>8, <1>9, <1>10, <1>11, <1>12, <1>13, <1>14 DEF Next

-----------------------------------------------------------------------------
(* The theorems.                                                            *)

\* The inductive invariant.
IInv == TypeOK /\ SurfaceIds /\ PointerInv /\ ChoiceInv

LEMMA Invariance == Spec => []IInv
<1>1. Init => IInv
  <2>1. ASSUME Init PROVE pass.pc = "idle" /\ focus.input = None /\ dirty
    <3>1. /\ pass = [pc |-> "idle", override |-> None, input |-> None, keyboard |-> None]
          /\ focus = [window |-> None, override |-> None, input |-> None, keyboard |-> None]
          /\ dirty = TRUE
      BY <2>1, Zenon DEF Init
    <3> QED
      BY <3>1
  <2>2. Init => PointerInv /\ ChoiceInv
    BY <2>1 DEF PointerInv, Reached, Main, ChoiceInv
  <2> QED
    BY <2>1, <2>2, InitTyped DEF IInv
<1>2. IInv /\ [Next]_vars => IInv'
  BY TypesKept, PointerKept, ChoiceKept DEF IInv
<1> QED
  BY <1>1, <1>2, PTL DEF Spec

\* Every window, surface id and pointer named by the focus is one there is, and no
\* surface is that of two windows.
THEOREM TypeCorrect == Spec => [](TypeOK /\ SurfaceIds)
<1>1. IInv => TypeOK /\ SurfaceIds
  BY DEF IInv
<1> QED
  BY <1>1, Invariance, PTL

\* Once a pass is through and nothing has marked the focus since, the focus is what
\* determine_and_apply_focus would choose if it ran again: every handler that can
\* change the choice marks it, and damage (handle the damage of a game's window) that
\* does not mark it cannot bring up another window.
THEOREM AlwaysFresh == Spec => []FocusIsChosen
<1>1. IInv => FocusIsChosen
  <2>1. IInv /\ Settled /\ ~silent => Fresh
    BY DEF IInv, ChoiceInv, Settled
  <2> QED
    BY <2>1 DEF FocusIsChosen, Fresh
<1> QED
  BY <1>1, Invariance, PTL

\* The pointer is on the surface of the window with the input focus, in whatever order
\* the window, its surface and the surface's id came (handle_wl_surface_id,
\* wlserver_mousefocus), unless the surface came after its id.
THEOREM PointerKeepsUp == Spec => []PointerFollows
<1>1. IInv => PointerFollows
  BY DEF IInv, PointerInv, Reached, PointerFollows, Settled
<1> QED
  BY <1>1, Invariance, PTL
=============================================================================
