-------------------------- MODULE SchedulingProofs --------------------------
(***************************************************************************)
(* Proofs about what schedules the compositor's work: the vblank timer     *)
(* (module VBlankTimer) and the ladder that degrades generated frames      *)
(* under load (module DeadlineLadder), for every value of their constants. *)
(* The timer: its types, that the loop never sleeps without a wake-up on   *)
(* its way, that armed and set agree, that KMS never hands the loop a      *)
(* vblank early, and that every wake-up is aimed at the newest grid.       *)
(* The ladder: its types, that a hold protects a rung, that climbs fit the *)
(* budget and back off, and that no stale timing is used.                  *)
(***************************************************************************)
EXTENDS VBlankTimer, DeadlineLadder, FiniteSetTheorems, TLAPS

-----------------------------------------------------------------------------
(* The vblank timer.                                                       *)

(* Arithmetic: the least and greatest of two, quotients and remainders.    *)

LEMMA MinOfTwo ==
  ASSUME NEW a \in Int, NEW b \in Int
  PROVE  Min({a, b}) = IF a <= b THEN a ELSE b
<1>1. \E x \in {a, b} : \A y \in {a, b} : x <= y
  OBVIOUS
<1>2. \A x \in {a, b} : (\A y \in {a, b} : x <= y) => x = IF a <= b THEN a ELSE b
  OBVIOUS
<1> QED
  BY <1>1, <1>2 DEF Min

LEMMA MaxOfTwo ==
  ASSUME NEW a \in Int, NEW b \in Int
  PROVE  Max({a, b}) = IF a >= b THEN a ELSE b
<1>1. \E x \in {a, b} : \A y \in {a, b} : x >= y
  OBVIOUS
<1>2. \A x \in {a, b} : (\A y \in {a, b} : x >= y) => x = IF a >= b THEN a ELSE b
  OBVIOUS
<1> QED
  BY <1>1, <1>2 DEF Max

LEMMA Remainder ==
  ASSUME NEW a \in Int, NEW d \in Nat \ {0}
  PROVE  a % d \in 0..(d - 1)
  OBVIOUS

LEMMA Quotient ==
  ASSUME NEW a \in Nat, NEW d \in Nat \ {0}
  PROVE  a \div d \in Nat
  OBVIOUS

LEMMA Division ==
  ASSUME NEW a \in Int, NEW d \in Nat \ {0}
  PROVE  a = d * (a \div d) + (a % d) /\ a \div d \in Int /\ a % d \in 0..(d - 1)
  OBVIOUS

LEMMA NoMultipleBetween ==
  ASSUME NEW d \in Nat \ {0}, NEW k \in Int, NEW r \in 0..(d - 1), r = d * k
  PROVE  r = 0
<1>1. CASE k <= 0
  <2>1. d * k <= 0
    BY <1>1
  <2> QED
    BY <2>1
<1>2. CASE k >= 1
  <2>1. d * k >= d
    BY <1>2
  <2> QED
    BY <2>1
<1> QED
  BY <1>1, <1>2

LEMMA MultipleOf ==
  ASSUME NEW a \in Int, NEW d \in Nat \ {0}
  PROVE  a % d = 0 <=> \E k \in Int : a = d * k
<1>1. a = d * (a \div d) + (a % d) /\ a \div d \in Int /\ a % d \in 0..(d - 1)
  BY Division
<1>2. ASSUME NEW k \in Int, a = d * k PROVE a % d = 0
  <2>1. a % d = d * k - d * (a \div d)
    BY <1>1, <1>2
  <2>2. d * k - d * (a \div d) = d * (k - (a \div d))
    BY <1>1
  <2>j. k - (a \div d) \in Int
    BY <1>1
  <2>3. PICK j \in Int : a % d = d * j
    BY <2>j, <2>1, <2>2, Zenon
  <2>4. PICK r \in 0..(d - 1) : r = a % d
    BY <1>1
  <2>5. r = 0
    BY <2>3, <2>4, NoMultipleBetween
  <2> QED
    BY <2>4, <2>5
<1>3. a % d = 0 => a = d * (a \div d)
  BY <1>1
<1> QED
  BY <1>1, <1>2, <1>3

\* Numbers that differ by whole refreshes lie on the grid together.
LEMMA SameGrid ==
  ASSUME NEW a \in Int, NEW b \in Int, NEW d \in Nat \ {0}, NEW q \in Int,
         b = a + d * q, a % d = 0
  PROVE  b % d = 0
<1>1. PICK k \in Int : a = d * k
  BY MultipleOf
<1>2. d * k + d * q = d * (k + q) /\ k + q \in Int
  OBVIOUS
<1>3. b = d * (k + q)
  BY <1>1, <1>2
<1> QED
  BY <1>2, <1>3, MultipleOf

(* What a calculation of the next wake-up returns.                         *)

LEMMA Ranges ==
  /\ RollingTimes \subseteq Nat /\ Offsets \subseteq Nat
  /\ Starting \in RollingTimes /\ 0..(Interval - RedZone) \subseteq RollingTimes
BY TimingAssumption DEF RollingTimes, Offsets

LEMMA RolledInRange ==
  ASSUME rolling \in RollingTimes, NEW d \in Int
  PROVE  Rolled(d) \in 0..(Interval - RedZone)
<1> DEFINE clamp == Interval - RedZone
           wide == IF d - (RedZone \div 2) > rolling THEN d
                   ELSE IF Average(d) < 0 THEN clamp ELSE Average(d) \div Decay
<1>1. RedZone \in Nat /\ clamp \in Nat /\ rolling \in Nat /\ Decay \in Nat \ {0} /\ Alpha \in Nat
  BY TimingAssumption, Ranges DEF TimerTypeOK
<1>2. RedZone \div 2 \in Nat
  BY <1>1, Quotient
<1>3. Average(d) \in Int
  BY <1>1 DEF Average
<1>4. wide \in Nat
  <2>1. CASE d - (RedZone \div 2) > rolling
    BY <2>1, <1>1, <1>2
  <2>2. CASE ~(d - (RedZone \div 2) > rolling) /\ Average(d) < 0
    BY <2>2, <1>1
  <2>3. CASE ~(d - (RedZone \div 2) > rolling) /\ ~(Average(d) < 0)
    BY <2>3, <1>1, <1>3, Quotient
  <2> QED
    BY <2>1, <2>2, <2>3
<1>5. Rolled(d) = Min({wide, clamp})
  BY DEF Rolled
<1> HIDE DEF wide, clamp
<1>6. Rolled(d) \in 0..clamp
  BY <1>1, <1>4, <1>5, MinOfTwo
<1> QED
  BY <1>6 DEF clamp

LEMMA UntilNextInRange ==
  ASSUME TimingAssumption, NEW ph \in 0..(Interval - 1), NEW o \in Nat
  PROVE  UntilNext(ph, o) \in 0..Interval
<1>1. Interval \in Nat \ {0}
  BY DEF TimingAssumption
<1>2. Interval - o - ph \in Int /\ Interval - o - ph <= Interval
  BY <1>1
<1>3. (Interval - o - ph) % Interval \in 0..(Interval - 1)
  BY <1>1, <1>2, Remainder
<1> QED
  BY <1>1, <1>2, <1>3 DEF UntilNext

LEMMA WakeupsTyped ==
  ASSUME rolling \in RollingTimes, lastDraw \in Draws, NEW p \in BOOLEAN, NEW w \in Wakeups(p)
  PROVE  w.offset \in Offsets /\ w.rolling \in RollingTimes
<1>1. lastDraw \in Int /\ MinCompositing \in Int
  BY TimingAssumption, BoundsAssumption DEF Draws
<1>2. \A d \in EffectiveDraws : d \in Int
  BY <1>1, MaxOfTwo DEF EffectiveDraws
<1>3. \A d \in EffectiveDraws : Rolled(d) \in 0..(Interval - RedZone)
  BY <1>2, RolledInRange
<1>4. rolling \in RollingTimes
  OBVIOUS
<1>5. CASE w \in { [offset |-> r + RedZone, rolling |-> IF p THEN rolling ELSE r]
                     : r \in {Rolled(d) : d \in EffectiveDraws} }
  <2>1. PICK d \in EffectiveDraws :
          w = [offset |-> Rolled(d) + RedZone, rolling |-> IF p THEN rolling ELSE Rolled(d)]
    BY <1>5
  <2>2. Rolled(d) \in 0..(Interval - RedZone)
    BY <1>3
  <2> QED
    BY <2>1, <2>2, <1>4, TimingAssumption, Ranges DEF Offsets
<1>6. CASE w \in { [offset |-> d + VRRFlushing, rolling |-> IF p THEN rolling ELSE Starting]
                     : d \in {0, MinCompositing} }
  BY <1>6, <1>4, TimingAssumption, Ranges DEF Offsets
<1> QED
  BY <1>5, <1>6 DEF Wakeups

LEMMA WakeupsInRange ==
  ASSUME TimerTypeOK, NEW p \in BOOLEAN, NEW w \in Wakeups(p)
  PROVE  w.offset \in Offsets /\ w.rolling \in RollingTimes
BY WakeupsTyped DEF TimerTypeOK

LEMMA NoTimerTyped ==
  NoTimer \in [set : BOOLEAN, wake : -MaxLate..Interval, offset : Offsets]
<1>1. 0 \in -MaxLate..Interval /\ 0 \in Offsets
  BY TimingAssumption, BoundsAssumption DEF Offsets
<1> QED
  BY <1>1 DEF NoTimer

-----------------------------------------------------------------------------
(* Types.                                                                  *)

LEMMA ArmTypes ==
  ASSUME TimerTypeOK, NEW p \in BOOLEAN, ArmNextVBlank(p)
  PROVE  /\ armed' \in BOOLEAN
         /\ timer' \in [set : BOOLEAN, wake : -MaxLate..Interval, offset : Offsets]
         /\ rolling' \in RollingTimes
<1>1. CASE p /\ armed
  BY <1>1 DEF ArmNextVBlank, TimerTypeOK
<1>2. CASE ~(p /\ armed) /\ ~UsingTimerFD
  BY <1>2 DEF ArmNextVBlank, TimerTypeOK
<1>3. CASE ~(p /\ armed) /\ UsingTimerFD
  <2>1. PICK w \in Wakeups(p) :
          /\ timer' = [set |-> TRUE, wake |-> UntilNext(phase, w.offset), offset |-> w.offset]
          /\ rolling' = w.rolling
    BY <1>3 DEF ArmNextVBlank
  <2>2. w.offset \in Offsets /\ w.rolling \in RollingTimes
    BY <2>1, WakeupsInRange
  <2>3. UntilNext(phase, w.offset) \in 0..Interval
    BY <2>2, UntilNextInRange, TimingAssumption, Ranges DEF TimerTypeOK
  <2>4. UntilNext(phase, w.offset) \in -MaxLate..Interval
    BY <2>3, BoundsAssumption, TimingAssumption
  <2> QED
    BY <1>3, <2>1, <2>2, <2>4 DEF ArmNextVBlank
<1> QED
  BY <1>1, <1>2, <1>3

\* What the types of a step rest on: the pipe is not empty when its handler runs,
\* and a flip being reported was expected.
Expected ==
  /\ loop.pc = "event" /\ backend = "nudge" => pipe # <<>>
  /\ flips.marked /\ backend # "nudge" => flips.open > 0

LEMMA InitTyped == TimerInit => TimerTypeOK
<1> SUFFICES ASSUME TimerInit PROVE TimerTypeOK
  OBVIOUS
<1> USE TimingAssumption, BoundsAssumption
<1>1. 0 \in 0..(Interval - 1) /\ rolling \in RollingTimes /\ lastDraw \in Draws
  BY Ranges DEF TimerInit, Draws
<1>2. \A w \in Wakeups(TRUE) : w.offset \in Offsets
  BY <1>1, WakeupsTyped
<1>3. timer \in [set : BOOLEAN, wake : -MaxLate..Interval, offset : Offsets]
  <2>1. CASE ~UsingTimerFD
    BY <2>1, NoTimerTyped DEF TimerInit
  <2>2. CASE UsingTimerFD
    <3>1. PICK w \in Wakeups(TRUE) :
            timer = [set |-> TRUE, wake |-> UntilNext(0, w.offset), offset |-> w.offset]
      BY <2>2 DEF TimerInit
    <3>2. w.offset \in Offsets
      BY <1>2
    <3>3. UntilNext(0, w.offset) \in 0..Interval
      BY <1>1, <3>2, UntilNextInRange, Ranges
    <3>4. UntilNext(0, w.offset) \in -MaxLate..Interval
      BY <3>3
    <3> QED
      BY <3>1, <3>2, <3>4
  <2> QED
    BY <2>1, <2>2
<1>4. pipe \in Seq(0..(StaleAge + 1)) /\ Len(pipe) <= PipeSize
  BY DEF TimerInit
<1>5. backend \in Backends /\ phase \in 0..(Interval - 1) /\ armed \in BOOLEAN
  BY <1>1 DEF TimerInit
<1>7. /\ nudger \in [pc : {"wait", "sync"}, left : 0..Interval]
      /\ loop \in [pc : {"poll", "event", "pass", "flip", "end"}, vblank : BOOLEAN, age : Draws]
      /\ flips \in [open : 0..MaxInFlight, marked : BOOLEAN]
  BY DEF TimerInit, Draws
<1> QED
  BY <1>1, <1>3, <1>4, <1>5, <1>7 DEF TimerTypeOK

LEMMA TickTyped == TimerTypeOK /\ Tick => TimerTypeOK'
<1> SUFFICES ASSUME TimerTypeOK, Tick PROVE TimerTypeOK'
  OBVIOUS
<1> USE TimingAssumption, BoundsAssumption
<1>0. /\ phase \in 0..(Interval - 1) /\ phase + 1 \in Int
      /\ timer \in [set : BOOLEAN, wake : -MaxLate..Interval, offset : Offsets]
      /\ nudger \in [pc : {"wait", "sync"}, left : 0..Interval]
      /\ loop \in [pc : {"poll", "event", "pass", "flip", "end"}, vblank : BOOLEAN, age : Draws]
  BY DEF TimerTypeOK
<1>1. phase' \in 0..(Interval - 1)
  BY <1>0, Remainder DEF Tick
<1>2. timer' \in [set : BOOLEAN, wake : -MaxLate..Interval, offset : Offsets]
  <2>1. CASE timer.set
    <3>1. timer.wake - 1 \in -MaxLate..Interval
      BY <1>0, <2>1 DEF Tick
    <3> QED
      BY <1>0, <2>1, <3>1 DEF Tick
  <2>2. CASE ~timer.set
    BY <1>0, <2>2 DEF Tick
  <2> QED
    BY <2>1, <2>2
<1>3. nudger' \in [pc : {"wait", "sync"}, left : 0..Interval]
  <2>1. CASE nudger.pc = "sync"
    <3>1. nudger.left - 1 \in 0..Interval
      BY <1>0, <2>1 DEF Tick
    <3> QED
      BY <1>0, <2>1, <3>1 DEF Tick
  <2>2. CASE nudger.pc # "sync"
    BY <1>0, <2>2 DEF Tick
  <2> QED
    BY <2>1, <2>2
<1>4. pipe' \in Seq(0..(StaleAge + 1)) /\ Len(pipe') <= PipeSize
  <2>1. \A a \in 0..(StaleAge + 1) : Older(a, StaleAge + 1) \in 0..(StaleAge + 1)
    BY MinOfTwo DEF Older
  <2>2. pipe \in [1..Len(pipe) -> 0..(StaleAge + 1)] /\ Len(pipe) \in Nat
    BY DEF TimerTypeOK
  <2>3. pipe' \in [1..Len(pipe) -> 0..(StaleAge + 1)]
    BY <2>1, <2>2 DEF Tick
  <2>4. Len(pipe') = Len(pipe)
    BY <2>2, <2>3
  <2>5. Len(pipe) <= PipeSize
    BY DEF TimerTypeOK
  <2> QED
    BY <2>2, <2>3, <2>4, <2>5
<1>5. Older(loop.age, MaxDraw) \in Draws
  <2>1. loop.age \in Int /\ loop.age + 1 \in Int /\ loop.age >= -Interval
    BY <1>0 DEF Draws
  <2>2. Older(loop.age, MaxDraw) = IF loop.age + 1 <= MaxDraw THEN loop.age + 1 ELSE MaxDraw
    BY <2>1, MinOfTwo DEF Older
  <2>3. MaxDraw \in Int /\ MaxDraw >= -Interval
    OBVIOUS
  <2> QED
    BY <2>1, <2>2, <2>3 DEF Draws
<1>6. loop' \in [pc : {"poll", "event", "pass", "flip", "end"}, vblank : BOOLEAN, age : Draws]
  BY <1>0, <1>5 DEF Tick
<1> QED
  BY <1>1, <1>2, <1>3, <1>4, <1>6 DEF Tick, TimerTypeOK

LEMMA AgeTyped ==
  ASSUME TimerTypeOK
  PROVE  /\ Min({-timer.wake, MaxDraw}) \in Draws
         /\ timer.wake <= 0 => Min({-timer.wake, MaxDraw}) >= 0
<1>1. timer.wake \in -MaxLate..Interval
  BY DEF TimerTypeOK
<1>2. -timer.wake \in Int /\ -timer.wake >= -Interval /\ MaxDraw \in Nat /\ Interval \in Nat
  BY <1>1, TimingAssumption, BoundsAssumption
<1>3. Min({-timer.wake, MaxDraw}) = IF -timer.wake <= MaxDraw THEN -timer.wake ELSE MaxDraw
  BY <1>2, MinOfTwo
<1> QED
  BY <1>1, <1>2, <1>3 DEF Draws

LEMMA LoopTyped ==
  TimerTypeOK /\ Expected /\ (PollWakes \/ OtherWake \/ TimerPollIn \/ NudgePollIn \/ PassIdle
             \/ PassPresents \/ PassBlanks \/ PassEnds) => TimerTypeOK'
<1> SUFFICES ASSUME TimerTypeOK, Expected PROVE
      (PollWakes \/ OtherWake \/ TimerPollIn \/ NudgePollIn \/ PassIdle
       \/ PassPresents \/ PassBlanks \/ PassEnds) => TimerTypeOK'
  OBVIOUS
<1> USE TimingAssumption, BoundsAssumption
<1>1. ASSUME PollWakes PROVE TimerTypeOK'
  BY <1>1 DEF PollWakes, TimerTypeOK
<1>2. ASSUME OtherWake PROVE TimerTypeOK'
  BY <1>2 DEF OtherWake, TimerTypeOK
<1>3. ASSUME TimerPollIn PROVE TimerTypeOK'
  <2>1. timer' \in [set : BOOLEAN, wake : -MaxLate..Interval, offset : Offsets]
    <3>1. timer \in [set : BOOLEAN, wake : -MaxLate..Interval, offset : Offsets]
      BY DEF TimerTypeOK
    <3>2. NoTimer \in [set : BOOLEAN, wake : -MaxLate..Interval, offset : Offsets]
      BY NoTimerTyped
    <3> QED
      BY <1>3, <3>1, <3>2, Zenon DEF TimerPollIn
  <2>2. loop' \in [pc : {"poll", "event", "pass", "flip", "end"}, vblank : BOOLEAN, age : Draws]
    BY <1>3, AgeTyped DEF TimerPollIn, TimerTypeOK
  <2> QED
    BY <1>3, <2>1, <2>2 DEF TimerPollIn, TimerTypeOK
<1>4. ASSUME NudgePollIn PROVE TimerTypeOK'
  <2>1. TRUE \in BOOLEAN
    OBVIOUS
  <2>2. /\ armed' \in BOOLEAN
        /\ timer' \in [set : BOOLEAN, wake : -MaxLate..Interval, offset : Offsets]
        /\ rolling' \in RollingTimes
    <3>1. CASE Head(pipe) > StaleAge
      BY <1>4, <3>1, ArmTypes DEF NudgePollIn
    <3>2. CASE ~(Head(pipe) > StaleAge)
      BY <1>4, <3>2 DEF NudgePollIn, TimerTypeOK
    <3> QED
      BY <3>1, <3>2
  <2>3. pipe # <<>> /\ pipe \in Seq(0..(StaleAge + 1)) /\ Len(pipe) <= PipeSize
    BY <1>4 DEF NudgePollIn, Expected, UsingTimerFD, TimerTypeOK
  <2>4. pipe' \in Seq(0..(StaleAge + 1)) /\ Len(pipe') <= PipeSize
    BY <1>4, <2>3 DEF NudgePollIn
  <2>5. Head(pipe) \in 0..(StaleAge + 1)
    BY <2>3
  <2>6. ~(Head(pipe) > StaleAge) => Head(pipe) \in Draws
    BY <2>5 DEF Draws
  <2>7. loop' \in [pc : {"poll", "event", "pass", "flip", "end"}, vblank : BOOLEAN, age : Draws]
    BY <1>4, <2>6 DEF NudgePollIn, TimerTypeOK
  <2> QED
    BY <1>4, <2>2, <2>4, <2>7 DEF NudgePollIn, TimerTypeOK
<1>5. ASSUME PassIdle PROVE TimerTypeOK'
  BY <1>5 DEF PassIdle, TimerTypeOK
<1>6. ASSUME PassPresents PROVE TimerTypeOK'
  <2>1. flips \in [open : 0..MaxInFlight, marked : BOOLEAN]
    BY DEF TimerTypeOK
  <2>2. flips' \in [open : 0..MaxInFlight, marked : BOOLEAN]
    <3>1. CASE backend = "nudge"
      BY <1>6, <2>1, <3>1 DEF PassPresents
    <3>2. CASE backend # "nudge"
      <4>1. flips.open + 1 \in 0..MaxInFlight
        BY <1>6, <2>1, <3>2 DEF PassPresents
      <4> QED
        BY <1>6, <2>1, <3>2, <4>1 DEF PassPresents
    <3> QED
      BY <3>1, <3>2
  <2>3. /\ loop' \in [pc : {"poll", "event", "pass", "flip", "end"}, vblank : BOOLEAN, age : Draws]
        /\ lastDraw' \in Draws
    BY <1>6 DEF PassPresents, TimerTypeOK
  <2> QED
    BY <1>6, <2>2, <2>3 DEF PassPresents, TimerTypeOK
<1>7. ASSUME PassBlanks PROVE TimerTypeOK'
  BY <1>7 DEF PassBlanks, TimerTypeOK
<1>8. ASSUME PassEnds PROVE TimerTypeOK'
  <2>1. /\ armed' \in BOOLEAN
        /\ timer' \in [set : BOOLEAN, wake : -MaxLate..Interval, offset : Offsets]
        /\ rolling' \in RollingTimes
    <3>1. CASE loop.vblank
      BY <1>8, <3>1, ArmTypes DEF PassEnds
    <3>2. CASE ~loop.vblank
      BY <1>8, <3>2 DEF PassEnds, TimerTypeOK
    <3> QED
      BY <3>1, <3>2
  <2> QED
    BY <1>8, <2>1 DEF PassEnds, TimerTypeOK
<1> QED
  BY <1>1, <1>2, <1>3, <1>4, <1>5, <1>6, <1>7, <1>8

LEMMA FlipTyped ==
  TimerTypeOK /\ Expected /\ (FlipMarks \/ FlipArms \/ FlipDiscarded \/ NudgeSync \/ NudgeWrite) => TimerTypeOK'
<1> SUFFICES ASSUME TimerTypeOK, Expected PROVE
      (FlipMarks \/ FlipArms \/ FlipDiscarded \/ NudgeSync \/ NudgeWrite) => TimerTypeOK'
  OBVIOUS
<1> USE TimingAssumption, BoundsAssumption
<1>1. ASSUME FlipMarks PROVE TimerTypeOK'
  BY <1>1 DEF FlipMarks, TimerTypeOK
<1>2. ASSUME FlipArms PROVE TimerTypeOK'
  <2>1. /\ armed' \in BOOLEAN
        /\ timer' \in [set : BOOLEAN, wake : -MaxLate..Interval, offset : Offsets]
        /\ rolling' \in RollingTimes
    BY <1>2, ArmTypes DEF FlipArms
  <2>0. flips \in [open : 0..MaxInFlight, marked : BOOLEAN]
    BY DEF TimerTypeOK
  <2>4. backend # "nudge" => flips.open - 1 \in 0..MaxInFlight
    BY <1>2, <2>0 DEF FlipArms, Expected
  <2>2. flips' \in [open : 0..MaxInFlight, marked : BOOLEAN]
    BY <1>2, <2>0, <2>4 DEF FlipArms
  <2>3. loop' \in [pc : {"poll", "event", "pass", "flip", "end"}, vblank : BOOLEAN, age : Draws]
    BY <1>2 DEF FlipArms, TimerTypeOK
  <2> QED
    BY <1>2, <2>1, <2>2, <2>3 DEF FlipArms, TimerTypeOK
<1>3. ASSUME FlipDiscarded PROVE TimerTypeOK'
  <2>1. flips \in [open : 0..MaxInFlight, marked : BOOLEAN]
    BY DEF TimerTypeOK
  <2>2. flips.open - 1 \in 0..MaxInFlight
    BY <1>3, <2>1 DEF FlipDiscarded
  <2>3. flips' \in [open : 0..MaxInFlight, marked : BOOLEAN]
    BY <1>3, <2>1, <2>2 DEF FlipDiscarded
  <2> QED
    BY <1>3, <2>3 DEF FlipDiscarded, TimerTypeOK
<1>4. ASSUME NudgeSync PROVE TimerTypeOK'
  <2>1. PICK w \in Wakeups(FALSE) :
          /\ nudger' = [pc |-> "sync", left |-> UntilNext(phase, w.offset)]
          /\ rolling' = w.rolling
    BY <1>4 DEF NudgeSync
  <2>2. w.offset \in Offsets /\ w.rolling \in RollingTimes
    BY <2>1, WakeupsInRange
  <2>3. UntilNext(phase, w.offset) \in 0..Interval
    BY <2>2, UntilNextInRange, Ranges DEF TimerTypeOK
  <2> QED
    BY <1>4, <2>1, <2>2, <2>3 DEF NudgeSync, TimerTypeOK
<1>5. ASSUME NudgeWrite PROVE TimerTypeOK'
  <2>1. pipe' \in Seq(0..(StaleAge + 1)) /\ Len(pipe') <= PipeSize
    <3>1. pipe \in Seq(0..(StaleAge + 1)) /\ Len(pipe) <= PipeSize /\ 0 \in 0..(StaleAge + 1)
      BY DEF TimerTypeOK
    <3>2. CASE Len(pipe) < PipeSize
      BY <1>5, <3>1, <3>2 DEF NudgeWrite
    <3>3. CASE ~(Len(pipe) < PipeSize)
      BY <1>5, <3>1, <3>3 DEF NudgeWrite
    <3> QED
      BY <3>2, <3>3
  <2> QED
    BY <1>5, <2>1 DEF NudgeWrite, TimerTypeOK
<1> QED
  BY <1>1, <1>2, <1>3, <1>4, <1>5

-----------------------------------------------------------------------------
(* The inductive invariant.  A loop that is not armed and has nothing in    *)
(* its pipe is in a pass that began with a vblank and will arm at its end;  *)
(* a timerfd is only found readable while it is armed.                      *)

Awake ==
  \/ armed
  \/ pipe # <<>>
  \/ loop.vblank /\ loop.pc \in {"pass", "flip", "end"}

\* With a timerfd neither the pipe nor the nudge thread is used.
TimerPath ==
  backend # "nudge" =>
    /\ pipe = <<>> /\ nudger.pc = "wait"
    /\ armed <=> timer.set
    /\ loop.pc = "event" => armed

\* On KMS the loop waits for every flip, so none is outstanding elsewhere and
\* nothing moves a wake-up that has expired.
KmsPath ==
  backend = "drm" =>
    /\ loop.pc # "flip" => ~flips.marked /\ flips.open = 0
    /\ loop.pc = "flip" => flips.open = 1
    /\ loop.pc = "event" => timer.wake <= 0
    /\ loop.vblank => loop.age >= 0

IInv == TimerTypeOK /\ Expected /\ Awake /\ TimerPath /\ KmsPath

LEMMA InitIInv == TimerInit => IInv
<1> SUFFICES ASSUME TimerInit PROVE IInv
  OBVIOUS
<1>1. TimerTypeOK
  BY InitTyped
<1>2. Expected /\ Awake /\ KmsPath
  BY DEF TimerInit, Expected, Awake, KmsPath
<1>3. TimerPath
  <2>1. CASE UsingTimerFD
    <3>1. PICK w \in Wakeups(TRUE) :
            timer = [set |-> TRUE, wake |-> UntilNext(0, w.offset), offset |-> w.offset]
      BY <2>1 DEF TimerInit
    <3> QED
      BY <2>1, <3>1 DEF TimerInit, TimerPath
  <2>2. CASE ~UsingTimerFD
    BY <2>2 DEF TimerPath, UsingTimerFD
  <2> QED
    BY <2>1, <2>2
<1> QED
  BY <1>1, <1>2, <1>3 DEF IInv

LEMMA ArmsSet ==
  ASSUME NEW p \in BOOLEAN, ArmNextVBlank(p), UsingTimerFD => (armed <=> timer.set)
  PROVE  armed' /\ (UsingTimerFD => (armed' <=> timer'.set))
<1>1. CASE p /\ armed
  BY <1>1 DEF ArmNextVBlank
<1>2. CASE ~(p /\ armed) /\ ~UsingTimerFD
  BY <1>2 DEF ArmNextVBlank
<1>3. CASE ~(p /\ armed) /\ UsingTimerFD
  BY <1>3 DEF ArmNextVBlank
<1> QED
  BY <1>1, <1>2, <1>3

LEMMA TickIInv == IInv /\ Tick => IInv'
<1> SUFFICES ASSUME IInv, Tick PROVE IInv'
  OBVIOUS
<1>1. TimerTypeOK'
  BY TickTyped DEF IInv
<1>2. /\ loop'.pc = loop.pc /\ loop'.vblank = loop.vblank
      /\ timer'.set = timer.set /\ nudger'.pc = nudger.pc
  BY DEF IInv, TimerTypeOK, Tick
<1>3. pipe = <<>> <=> pipe' = <<>>
  <2>1. pipe \in Seq(0..(StaleAge + 1))
    BY DEF IInv, TimerTypeOK
  <2>2. DOMAIN pipe' = DOMAIN pipe
    BY DEF Tick
  <2>3. pipe' \in Seq(0..(StaleAge + 1))
    BY <1>1 DEF TimerTypeOK
  <2> QED
    BY <2>1, <2>2, <2>3
<1>4. backend = "drm" /\ loop'.vblank => loop'.age >= 0
  <2>1. loop.age \in Int /\ MaxDraw \in Nat
    BY BoundsAssumption DEF IInv, TimerTypeOK, Draws
  <2>2. loop'.age = IF loop.age + 1 <= MaxDraw THEN loop.age + 1 ELSE MaxDraw
    <3>1. loop'.age = Older(loop.age, MaxDraw)
      BY DEF Tick, IInv, TimerTypeOK
    <3>2. loop.age + 1 \in Int /\ MaxDraw \in Int
      BY <2>1
    <3>3. Min({loop.age + 1, MaxDraw}) = IF loop.age + 1 <= MaxDraw THEN loop.age + 1 ELSE MaxDraw
      BY <3>2, MinOfTwo
    <3> QED
      BY <3>1, <3>3 DEF Older
  <2>3. backend = "drm" /\ loop.vblank => loop.age >= 0
    BY DEF IInv, KmsPath
  <2> QED
    BY <1>2, <2>1, <2>2, <2>3
<1>5. backend = "drm" /\ loop'.pc = "event" => timer'.wake <= 0
  <2>1. timer.wake \in Int
    BY DEF IInv, TimerTypeOK
  <2>2. timer'.wake = timer.wake - 1 \/ timer' = timer
    BY DEF Tick, IInv, TimerTypeOK
  <2>3. backend = "drm" /\ loop.pc = "event" => timer.wake <= 0
    BY DEF IInv, KmsPath
  <2> QED
    BY <1>2, <2>1, <2>2, <2>3
<1>6. Expected' /\ Awake'
  BY <1>2, <1>3 DEF IInv, Expected, Awake, Tick
<1>7. TimerPath'
  BY <1>2, <1>3 DEF IInv, TimerPath, Tick
<1>8. KmsPath'
  BY <1>2, <1>4, <1>5 DEF IInv, KmsPath, Tick
<1> QED
  BY <1>1, <1>6, <1>7, <1>8 DEF IInv

LEMMA LoopIInv ==
  IInv /\ (PollWakes \/ OtherWake \/ TimerPollIn \/ NudgePollIn \/ PassIdle
           \/ PassPresents \/ PassBlanks \/ PassEnds) => IInv'
<1> SUFFICES ASSUME IInv PROVE
      (PollWakes \/ OtherWake \/ TimerPollIn \/ NudgePollIn \/ PassIdle
       \/ PassPresents \/ PassBlanks \/ PassEnds) => IInv'
  OBVIOUS
<1>t. loop \in [pc : {"poll", "event", "pass", "flip", "end"}, vblank : BOOLEAN, age : Draws]
  BY DEF IInv, TimerTypeOK
<1>f. flips \in [open : 0..MaxInFlight, marked : BOOLEAN]
  BY DEF IInv, TimerTypeOK
<1>1. ASSUME PollWakes PROVE IInv'
  <2>1. TimerTypeOK'
    BY <1>1, LoopTyped DEF IInv
  <2>2. loop' = [loop EXCEPT !.pc = "event"] /\ VBlankReadable
    BY <1>1 DEF PollWakes
  <2>3. Expected'
    BY <1>1, <2>2, <1>t DEF PollWakes, IInv, Expected, VBlankReadable, UsingTimerFD
  <2>4. Awake'
    BY <1>1, <2>2, <1>t DEF PollWakes, IInv, Awake, VBlankReadable, UsingTimerFD, TimerPath
  <2>5. TimerPath'
    BY <1>1, <2>2, <1>t DEF PollWakes, IInv, VBlankReadable, UsingTimerFD, TimerPath
  <2>6. KmsPath'
    BY <1>1, <2>2, <1>t DEF PollWakes, IInv, VBlankReadable, UsingTimerFD, KmsPath
  <2> QED
    BY <2>1, <2>3, <2>4, <2>5, <2>6 DEF IInv
<1>2. ASSUME OtherWake PROVE IInv'
  <2>1. TimerTypeOK'
    BY <1>2, LoopTyped DEF IInv
  <2>2. Expected' /\ TimerPath' /\ KmsPath'
    BY <1>2, <1>t DEF OtherWake, IInv, Expected, TimerPath, KmsPath
  <2>3. Awake'
    BY <1>2, <1>t DEF OtherWake, IInv, Awake
  <2> QED
    BY <2>1, <2>2, <2>3 DEF IInv
<1>3. ASSUME TimerPollIn PROVE IInv'
  <2>1. TimerTypeOK'
    BY <1>3, LoopTyped DEF IInv
  <2>2. armed /\ backend # "nudge"
    BY <1>3 DEF TimerPollIn, IInv, TimerPath, UsingTimerFD
  <2>3. /\ armed' = FALSE /\ timer' = NoTimer
        /\ loop' = [loop EXCEPT !.pc = "pass", !.vblank = TRUE,
                                !.age = Min({-timer.wake, MaxDraw})]
    BY <1>3, <2>2 DEF TimerPollIn
  <2>4. loop'.pc = "pass" /\ loop'.vblank /\ loop'.age = Min({-timer.wake, MaxDraw})
    BY <2>3, <1>t
  <2>5. backend = "drm" => Min({-timer.wake, MaxDraw}) >= 0
    BY <1>3, AgeTyped DEF IInv, KmsPath, TimerPollIn
  <2>6. Expected' /\ Awake'
    BY <1>3, <2>4 DEF TimerPollIn, IInv, Expected, Awake
  <2>7. TimerPath'
    BY <1>3, <2>3, <2>4 DEF TimerPollIn, IInv, TimerPath, NoTimer
  <2>8. KmsPath'
    BY <1>3, <2>4, <2>5 DEF TimerPollIn, IInv, KmsPath
  <2> QED
    BY <2>1, <2>6, <2>7, <2>8 DEF IInv
<1>4. ASSUME NudgePollIn PROVE IInv'
  <2>1. TimerTypeOK'
    BY <1>4, LoopTyped DEF IInv
  <2>2. backend = "nudge"
    BY <1>4 DEF NudgePollIn, UsingTimerFD
  <2>3. loop'.pc = "pass" /\ (loop'.vblank \/ armed')
    <3>1. CASE Head(pipe) > StaleAge
      BY <1>4, <3>1, <1>t DEF NudgePollIn, ArmNextVBlank
    <3>2. CASE ~(Head(pipe) > StaleAge)
      BY <1>4, <3>2, <1>t DEF NudgePollIn
    <3> QED
      BY <3>1, <3>2
  <2>4. Expected' /\ Awake' /\ TimerPath' /\ KmsPath'
    BY <1>4, <2>2, <2>3 DEF NudgePollIn, Expected, Awake, TimerPath, KmsPath
  <2> QED
    BY <2>1, <2>4 DEF IInv
<1>5. ASSUME PassIdle PROVE IInv'
  <2>1. TimerTypeOK'
    BY <1>5, LoopTyped DEF IInv
  <2>2. Expected' /\ TimerPath' /\ KmsPath'
    BY <1>5, <1>t DEF PassIdle, IInv, Expected, TimerPath, KmsPath
  <2>3. Awake'
    BY <1>5, <1>t DEF PassIdle, IInv, Awake
  <2> QED
    BY <2>1, <2>2, <2>3 DEF IInv
<1>6. ASSUME PassPresents PROVE IInv'
  <2>1. TimerTypeOK'
    BY <1>6, LoopTyped DEF IInv
  <2>2. /\ loop'.pc = (IF backend = "drm" THEN "flip" ELSE "end")
        /\ loop'.vblank = loop.vblank /\ loop'.age = loop.age
    BY <1>6, <1>t DEF PassPresents
  <2>3. flips'.marked = flips.marked /\ (flips.marked /\ backend # "nudge" => flips'.open > 0)
    <3>1. CASE backend = "nudge"
      BY <1>6, <3>1 DEF PassPresents
    <3>2. CASE backend # "nudge"
      BY <1>6, <3>2, <1>f DEF PassPresents
    <3> QED
      BY <3>1, <3>2
  <2>4. Expected' /\ TimerPath'
    BY <1>6, <2>2, <2>3 DEF PassPresents, IInv, Expected, TimerPath
  <2>5. Awake'
    BY <1>6, <2>2 DEF PassPresents, IInv, Awake
  <2>6. KmsPath'
    <3>1. backend = "drm" => flips.open = 0 /\ flips'.open = 1
      BY <1>6, <1>f DEF PassPresents, IInv, KmsPath
    <3> QED
      BY <1>6, <2>2, <2>3, <3>1 DEF PassPresents, IInv, KmsPath
  <2> QED
    BY <2>1, <2>4, <2>5, <2>6 DEF IInv
<1>7. ASSUME PassBlanks PROVE IInv'
  <2>1. TimerTypeOK'
    BY <1>7, LoopTyped DEF IInv
  <2>2. Expected' /\ TimerPath' /\ KmsPath'
    BY <1>7, <1>t DEF PassBlanks, IInv, Expected, TimerPath, KmsPath
  <2>3. Awake'
    BY <1>7, <1>t DEF PassBlanks, IInv, Awake
  <2> QED
    BY <2>1, <2>2, <2>3 DEF IInv
<1>8. ASSUME PassEnds PROVE IInv'
  <2>1. TimerTypeOK'
    BY <1>8, LoopTyped DEF IInv
  <2>2. loop'.pc = "poll" /\ loop'.vblank = FALSE
    BY <1>8, <1>t DEF PassEnds
  <2>3. UsingTimerFD => (armed <=> timer.set)
    BY DEF IInv, TimerPath, UsingTimerFD
  <2>4. (armed' \/ pipe # <<>>) /\ (UsingTimerFD => (armed' <=> timer'.set))
    <3>1. CASE loop.vblank
      BY <1>8, <3>1, <2>3, ArmsSet DEF PassEnds
    <3>2. CASE ~loop.vblank
      BY <1>8, <3>2, <2>3 DEF PassEnds, IInv, Awake
    <3> QED
      BY <3>1, <3>2
  <2>5. Expected' /\ Awake' /\ KmsPath'
    BY <1>8, <2>2, <2>4 DEF PassEnds, IInv, Expected, Awake, KmsPath
  <2>6. TimerPath'
    BY <1>8, <2>2, <2>4 DEF PassEnds, IInv, TimerPath, UsingTimerFD
  <2> QED
    BY <2>1, <2>5, <2>6 DEF IInv
<1> QED
  BY <1>1, <1>2, <1>3, <1>4, <1>5, <1>6, <1>7, <1>8

LEMMA FlipIInv ==
  IInv /\ (FlipMarks \/ FlipArms \/ FlipDiscarded \/ NudgeSync \/ NudgeWrite) => IInv'
<1> SUFFICES ASSUME IInv PROVE
      (FlipMarks \/ FlipArms \/ FlipDiscarded \/ NudgeSync \/ NudgeWrite) => IInv'
  OBVIOUS
<1>t. loop \in [pc : {"poll", "event", "pass", "flip", "end"}, vblank : BOOLEAN, age : Draws]
  BY DEF IInv, TimerTypeOK
<1>f. flips \in [open : 0..MaxInFlight, marked : BOOLEAN]
  BY DEF IInv, TimerTypeOK
<1>1. ASSUME FlipMarks PROVE IInv'
  <2>1. TimerTypeOK'
    BY <1>1, FlipTyped DEF IInv
  <2>2. flips'.marked /\ flips'.open = flips.open
    BY <1>1, <1>f DEF FlipMarks
  <2>3. backend = "drm" => loop.pc = "flip"
    BY <1>1, <1>f DEF FlipMarks, FlipExpected, IInv, KmsPath
  <2>4. Expected' /\ Awake' /\ TimerPath'
    BY <1>1, <2>2 DEF FlipMarks, FlipExpected, IInv, Expected, Awake, TimerPath
  <2>5. KmsPath'
    BY <1>1, <2>2, <2>3 DEF FlipMarks, IInv, KmsPath
  <2> QED
    BY <2>1, <2>4, <2>5 DEF IInv
<1>2. ASSUME FlipArms PROVE IInv'
  <2>1. TimerTypeOK'
    BY <1>2, FlipTyped DEF IInv
  <2>2. UsingTimerFD => (armed <=> timer.set)
    BY DEF IInv, TimerPath, UsingTimerFD
  <2>3. armed' /\ (UsingTimerFD => (armed' <=> timer'.set))
    BY <1>2, <2>2, ArmsSet DEF FlipArms
  <2>4. /\ loop'.vblank = loop.vblank /\ loop'.age = loop.age
        /\ loop'.pc = IF loop.pc = "flip" THEN "end" ELSE loop.pc
    BY <1>2, <1>t DEF FlipArms
  <2>5. backend = "drm" => loop.pc = "flip" /\ loop'.pc = "end"
    BY <1>2, <2>4 DEF FlipArms, IInv, KmsPath
  <2>6. ~flips'.marked /\ (backend = "drm" => flips'.open = 0)
    BY <1>2, <2>5 DEF FlipArms, IInv, KmsPath
  <2>7. Expected' /\ Awake'
    BY <1>2, <2>3, <2>4, <2>6 DEF FlipArms, IInv, Expected, Awake
  <2>8. TimerPath'
    BY <1>2, <2>3, <2>4 DEF FlipArms, IInv, TimerPath, UsingTimerFD
  <2>9. KmsPath'
    BY <1>2, <2>4, <2>5, <2>6 DEF FlipArms, IInv, KmsPath
  <2> QED
    BY <2>1, <2>7, <2>8, <2>9 DEF IInv
<1>3. ASSUME FlipDiscarded PROVE IInv'
  <2>1. TimerTypeOK'
    BY <1>3, FlipTyped DEF IInv
  <2>2. ~flips'.marked /\ backend # "drm"
    BY <1>3, <1>f DEF FlipDiscarded
  <2>3. Expected' /\ Awake' /\ TimerPath' /\ KmsPath'
    BY <1>3, <2>2 DEF FlipDiscarded, IInv, Expected, Awake, TimerPath, KmsPath
  <2> QED
    BY <2>1, <2>3 DEF IInv
<1>4. ASSUME NudgeSync PROVE IInv'
  <2>1. TimerTypeOK'
    BY <1>4, FlipTyped DEF IInv
  <2>2. backend = "nudge"
    BY <1>4 DEF NudgeSync, UsingTimerFD
  <2>3. Expected' /\ Awake' /\ TimerPath' /\ KmsPath'
    BY <1>4, <2>2 DEF NudgeSync, IInv, Expected, Awake, TimerPath, KmsPath
  <2> QED
    BY <2>1, <2>3 DEF IInv
<1>5. ASSUME NudgeWrite PROVE IInv'
  <2>1. TimerTypeOK'
    BY <1>5, FlipTyped DEF IInv
  <2>2. backend = "nudge"
    BY <1>5 DEF NudgeWrite, IInv, TimerPath
  <2>3. pipe' # <<>>
    <3>1. pipe \in Seq(0..(StaleAge + 1)) /\ PipeSize \in Nat \ {0}
      BY BoundsAssumption DEF IInv, TimerTypeOK
    <3>2. CASE Len(pipe) < PipeSize
      BY <1>5, <3>1, <3>2 DEF NudgeWrite
    <3>3. CASE ~(Len(pipe) < PipeSize)
      BY <1>5, <3>1, <3>3 DEF NudgeWrite
    <3> QED
      BY <3>2, <3>3
  <2>4. Expected' /\ Awake' /\ TimerPath' /\ KmsPath'
    BY <1>5, <2>2, <2>3 DEF NudgeWrite, IInv, Expected, Awake, TimerPath, KmsPath
  <2> QED
    BY <2>1, <2>4 DEF IInv
<1> QED
  BY <1>1, <1>2, <1>3, <1>4, <1>5

LEMMA Inductive == TimerSpec => []IInv
<1>1. IInv /\ UNCHANGED timerVars => IInv'
  BY DEF timerVars, IInv, TimerTypeOK, Expected, Awake, TimerPath, KmsPath
<1>2. IInv /\ [TimerNext]_timerVars => IInv'
  BY <1>1, TickIInv, LoopIInv, FlipIInv DEF TimerNext
<1> QED
  BY InitIInv, <1>2, PTL DEF TimerSpec

-----------------------------------------------------------------------------
(* The grid.  A wake-up is armed on the grid of the last vblank, time moves *)
(* both together, and what a flip that has stored its time leaves aimed at  *)
(* the old grid is armed again before the flip is over.  Only a timerfd is  *)
(* ever set: the nudge thread sleeps on its own.                            *)

Grid == OnLatestGrid /\ (timer.set => UsingTimerFD)

LEMMA UntilNextOnGrid ==
  ASSUME NEW ph \in 0..(Interval - 1), NEW o \in Nat
  PROVE  (ph + UntilNext(ph, o) + o) % Interval = 0
<1> DEFINE first == Interval - o - ph
           q == first \div Interval
<1>1. Interval \in Nat \ {0} /\ first \in Int
  BY TimingAssumption
<1>2. first = Interval * q + (first % Interval) /\ q \in Int /\ first % Interval \in Int
  BY <1>1, Division
<1>3. CASE first >= 0
  <2>1. ph + UntilNext(ph, o) + o = Interval * 1
    BY <1>1, <1>3 DEF UntilNext
  <2> QED
    BY <1>1, <2>1, MultipleOf
<1>4. CASE ~(first >= 0)
  <2>1. UntilNext(ph, o) = first % Interval
    BY <1>4 DEF UntilNext
  <2>2. ph + UntilNext(ph, o) + o = Interval - Interval * q
    BY <1>1, <1>2, <2>1
  <2>3. Interval - Interval * q = Interval * (1 - q) /\ 1 - q \in Int
    BY <1>1, <1>2
  <2>4. PICK k \in Int : ph + UntilNext(ph, o) + o = Interval * k
    BY <2>2, <2>3
  <2>5. ph + UntilNext(ph, o) + o \in Int
    BY <1>1, <1>2, <2>1
  <2> QED
    BY <1>1, <2>4, <2>5, MultipleOf
<1> QED
  BY <1>3, <1>4

LEMMA ArmGrid ==
  ASSUME TimerTypeOK, NEW p \in BOOLEAN, ArmNextVBlank(p), UsingTimerFD, ~(p /\ armed)
  PROVE  (phase + timer'.wake + timer'.offset) % Interval = 0
<1>1. PICK w \in Wakeups(p) :
        timer' = [set |-> TRUE, wake |-> UntilNext(phase, w.offset), offset |-> w.offset]
  BY DEF ArmNextVBlank
<1>2. w.offset \in Nat /\ phase \in 0..(Interval - 1)
  BY WakeupsInRange, Ranges DEF TimerTypeOK
<1> QED
  BY <1>1, <1>2, UntilNextOnGrid

LEMMA TickGrid == TimerTypeOK /\ Grid /\ Tick => Grid'
<1> SUFFICES ASSUME TimerTypeOK, Grid, Tick PROVE Grid'
  OBVIOUS
<1>1. /\ Interval \in Nat \ {0} /\ phase \in Int /\ timer.wake \in Int /\ timer.offset \in Int
      /\ timer \in [set : BOOLEAN, wake : -MaxLate..Interval, offset : Offsets]
  <2>1. timer \in [set : BOOLEAN, wake : -MaxLate..Interval, offset : Offsets]
    BY DEF TimerTypeOK
  <2>2. timer.offset \in Offsets /\ timer.wake \in -MaxLate..Interval
    BY <2>1
  <2>3. timer.wake \in Int
    BY <2>2, TimingAssumption, BoundsAssumption
  <2>4. timer.offset \in Nat
    BY <2>2, Ranges
  <2>5. Interval \in Nat \ {0} /\ phase \in Int
    BY TimingAssumption DEF TimerTypeOK
  <2> QED
    BY <2>1, <2>3, <2>4, <2>5
<1>2. CASE timer.set
  <2>1. timer'.set /\ timer'.wake = timer.wake - 1 /\ timer'.offset = timer.offset
    BY <1>1, <1>2 DEF Tick
  <2>q. phase + 1 \in Int /\ Interval \in Nat \ {0}
    BY <1>1
  <2>2. PICK q \in Int : phase + 1 = Interval * q + ((phase + 1) % Interval)
    BY <2>q, Division, Zenon
  <2>3. /\ phase' = (phase + 1) - Interval * q
        /\ phase' \in Int
    BY <1>1, <2>2, Division DEF Tick
  <2>4. phase' + timer'.wake + timer'.offset = (phase + timer.wake + timer.offset) + Interval * (-q)
    BY <1>1, <2>1, <2>2, <2>3
  <2>5. flips' = flips /\ backend' = backend
    BY DEF Tick
  <2>6. ~flips.marked => (phase' + timer'.wake + timer'.offset) % Interval = 0
    <3> SUFFICES ASSUME ~flips.marked PROVE (phase' + timer'.wake + timer'.offset) % Interval = 0
      OBVIOUS
    <3>1. (phase + timer.wake + timer.offset) % Interval = 0
      BY <1>2 DEF Grid, OnLatestGrid
    <3>2. phase + timer.wake + timer.offset \in Int /\ -q \in Int
      BY <1>1
    <3>3. phase' + timer'.wake + timer'.offset \in Int /\ Interval \in Nat \ {0}
      BY <1>1, <2>1, <2>3
    <3> QED
      BY <2>4, <3>1, <3>2, <3>3, SameGrid, Zenon
  <2> QED
    BY <1>2, <2>1, <2>5, <2>6 DEF Grid, OnLatestGrid, UsingTimerFD
<1>3. CASE ~timer.set
  BY <1>3 DEF Tick, Grid, OnLatestGrid
<1> QED
  BY <1>2, <1>3

LEMMA ArmingGrid ==
  TimerTypeOK /\ TimerPath /\ Grid /\ (NudgePollIn \/ PassEnds \/ FlipArms) => Grid'
<1> SUFFICES ASSUME TimerTypeOK, TimerPath, Grid PROVE NudgePollIn \/ PassEnds \/ FlipArms => Grid'
  OBVIOUS
<1>1. ASSUME NudgePollIn PROVE Grid'
  <2>1. timer' = timer
    BY <1>1 DEF NudgePollIn, ArmNextVBlank
  <2> QED
    BY <1>1, <2>1 DEF NudgePollIn, Grid, OnLatestGrid, UsingTimerFD
<1>2. ASSUME PassEnds PROVE Grid'
  <2>1. CASE timer' = timer
    BY <1>2, <2>1 DEF PassEnds, Grid, OnLatestGrid, UsingTimerFD
  <2>2. CASE timer' # timer
    <3>1. ArmNextVBlank(TRUE) /\ UsingTimerFD /\ ~(TRUE /\ armed)
      BY <1>2, <2>2 DEF PassEnds, ArmNextVBlank
    <3>2. (phase + timer'.wake + timer'.offset) % Interval = 0
      BY <3>1, ArmGrid
    <3> QED
      BY <1>2, <3>1, <3>2 DEF PassEnds, Grid, OnLatestGrid, UsingTimerFD
  <2> QED
    BY <2>1, <2>2
<1>3. ASSUME FlipArms PROVE Grid'
  <2>1. CASE UsingTimerFD
    <3>1. ArmNextVBlank(FALSE) /\ ~(FALSE /\ armed) /\ phase' = phase /\ backend' = backend
      BY <1>3 DEF FlipArms
    <3>2. (phase + timer'.wake + timer'.offset) % Interval = 0
      BY <2>1, <3>1, ArmGrid
    <3> QED
      BY <2>1, <3>1, <3>2 DEF Grid, OnLatestGrid, UsingTimerFD
  <2>2. CASE ~UsingTimerFD
    <3>1. timer' = timer /\ backend' = backend
      BY <1>3, <2>2 DEF FlipArms, ArmNextVBlank
    <3> QED
      BY <2>2, <3>1 DEF Grid, OnLatestGrid, UsingTimerFD
  <2> QED
    BY <2>1, <2>2
<1> QED
  BY <1>1, <1>2, <1>3

LEMMA GridKept == IInv /\ Grid /\ [TimerNext]_timerVars => Grid'
<1> SUFFICES ASSUME IInv, Grid, [TimerNext]_timerVars PROVE Grid'
  OBVIOUS
<1>0. TimerTypeOK /\ TimerPath
  BY DEF IInv
<1>1. CASE Tick
  BY <1>0, <1>1, TickGrid
<1>2. CASE NudgePollIn \/ PassEnds \/ FlipArms
  BY <1>0, <1>2, ArmingGrid
<1>3. CASE TimerPollIn
  BY <1>3 DEF TimerPollIn, NoTimer, Grid, OnLatestGrid, UsingTimerFD
<1>4. CASE FlipMarks
  <2>1. flips'.marked
    BY <1>0, <1>4 DEF FlipMarks, TimerTypeOK
  <2> QED
    BY <1>4, <2>1 DEF FlipMarks, Grid, OnLatestGrid, UsingTimerFD
<1>5. CASE FlipDiscarded
  <2>1. flips'.marked = flips.marked
    BY <1>0, <1>5 DEF FlipDiscarded, TimerTypeOK
  <2> QED
    BY <1>5, <2>1 DEF FlipDiscarded, Grid, OnLatestGrid, UsingTimerFD
<1>6. CASE PassPresents
  <2>1. flips'.marked = flips.marked
    BY <1>0, <1>6 DEF PassPresents, TimerTypeOK
  <2> QED
    BY <1>6, <2>1 DEF PassPresents, Grid, OnLatestGrid, UsingTimerFD
<1>7. CASE PollWakes \/ OtherWake \/ PassIdle \/ PassBlanks \/ NudgeSync \/ NudgeWrite
  BY <1>7 DEF PollWakes, OtherWake, PassIdle, PassBlanks, NudgeSync, NudgeWrite,
              Grid, OnLatestGrid, UsingTimerFD
<1>8. CASE UNCHANGED timerVars
  BY <1>8 DEF timerVars, Grid, OnLatestGrid, UsingTimerFD
<1> QED
  BY <1>1, <1>2, <1>3, <1>4, <1>5, <1>6, <1>7, <1>8 DEF TimerNext

LEMMA InitGrid == TimerInit => Grid
<1> SUFFICES ASSUME TimerInit PROVE Grid
  OBVIOUS
<1>1. CASE UsingTimerFD
  <2>1. PICK w \in Wakeups(TRUE) :
          timer = [set |-> TRUE, wake |-> UntilNext(0, w.offset), offset |-> w.offset]
    BY <1>1 DEF TimerInit
  <2>2. TimerTypeOK /\ phase = 0
    BY InitTyped DEF TimerInit
  <2>3. w.offset \in Nat /\ 0 \in 0..(Interval - 1)
    <3>1. w.offset \in Offsets
      <4>1. rolling \in RollingTimes /\ lastDraw \in Draws
        BY <2>2 DEF TimerTypeOK
      <4>2. \A v \in Wakeups(TRUE) : v.offset \in Offsets
        BY <4>1, WakeupsTyped
      <4> QED
        BY <2>1, <4>2
    <3>2. w.offset \in Nat
      BY <3>1, Ranges
    <3> QED
      BY <3>2, TimingAssumption
  <2>4. (0 + UntilNext(0, w.offset) + w.offset) % Interval = 0
    BY <2>3, UntilNextOnGrid
  <2> QED
    BY <1>1, <2>1, <2>2, <2>4 DEF Grid, OnLatestGrid
<1>2. CASE ~UsingTimerFD
  BY <1>2 DEF TimerInit, NoTimer, Grid, OnLatestGrid
<1> QED
  BY <1>1, <1>2

-----------------------------------------------------------------------------
\* Whatever the backend and the constants, of which only the red zone is assumed to
\* fit in a refresh, the state keeps its types: a draw time that was computed stays
\* within what a refresh less the red zone holds (the starting one may not), and a
\* wake-up is never armed more than a refresh ahead (CalcNextWakeupTime).
THEOREM TimerTypeCorrect == TimerSpec => []TimerTypeOK
<1>1. IInv => TimerTypeOK
  BY DEF IInv
<1> QED
  BY Inductive, <1>1, PTL

\* On every backend the loop never sleeps without a wake-up on its way: the timer
\* is armed or a vblank waits in the pipe, however flips, discards, stale and
\* lost nudges fall (OnPollIn, ArmNextVBlank and the re-arming that ends a pass).
THEOREM LoopNeverStalls == TimerSpec => []NeverStalls
<1>1. IInv => NeverStalls
  BY DEF IInv, Awake, NeverStalls
<1> QED
  BY Inductive, <1>1, PTL

\* With a timerfd, m_bArmed and the descriptor agree whenever the schedule mutex
\* is free.
THEOREM ArmedAgrees == TimerSpec => []ArmedIsSet
<1>1. IInv => ArmedIsSet
  BY DEF IInv, TimerPath, ArmedIsSet, UsingTimerFD
<1> QED
  BY Inductive, <1>1, PTL

\* On KMS no vblank reaches the loop before its wake-up point, because the commit
\* does not return before the flip has armed.
THEOREM KmsNeverEarly == TimerSpec => []KmsWakesOnTime
<1>1. IInv => KmsWakesOnTime
  BY DEF IInv, KmsPath, KmsWakesOnTime
<1> QED
  BY Inductive, <1>1, PTL

\* Whatever the refresh, draw times and red zones, an armed wake-up is aimed at a
\* vblank of the newest known grid once the flip that moved it has armed
\* (GetNextVBlank from m_ulLastVBlank, MarkVBlank re-arming after each flip).
THEOREM AimedAtLatestGrid == TimerSpec => []OnLatestGrid
<1>1. Grid => OnLatestGrid
  BY DEF Grid
<1> QED
  BY Inductive, InitGrid, GridKept, <1>1, PTL DEF TimerSpec

-----------------------------------------------------------------------------
(* The degradation ladder.                                                 *)

(* A non-empty set of naturals has a least element: among the intervals below
   its members one has no strict subset. *)
LEMMA LeastOfNaturals ==
  ASSUME NEW S, S \subseteq Nat, S # {}
  PROVE  \E q \in S : \A s \in S : q <= s
<1> DEFINE Below == {0 .. s : s \in S}
           Order == StrictSubsetOrdering(Nat)
<1>1. Below \subseteq FiniteSubsetsOf(Nat)
  <2> SUFFICES ASSUME NEW s \in S PROVE 0 .. s \in FiniteSubsetsOf(Nat)
    OBVIOUS
  <2>1. IsFiniteSet(0 .. s)
    BY FS_Interval
  <2> QED
    BY <2>1 DEF FiniteSubsetsOf
<1>2. PICK b \in Below : \A c \in Below : ~ (<<c, b>> \in Order)
  <2>1. IsWellFoundedOn(Order, FiniteSubsetsOf(Nat))
    BY FS_StrictSubsetOrderingWellFounded
  <2>2. Below # {}
    OBVIOUS
  <2> HIDE DEF Below, Order
  <2> QED
    BY <1>1, <2>1, <2>2, WFMin
<1>3. PICK q \in S : b = 0 .. q
  OBVIOUS
<1>4. ASSUME NEW s \in S, s < q PROVE FALSE
  <2>1. q \in b /\ q \notin 0 .. s /\ 0 .. s \subseteq b
    BY <1>3, <1>4
  <2>2. <<0 .. s, b>> \in Order
    BY <1>3, <2>1 DEF StrictSubsetOrdering
  <2> QED
    BY <1>2, <2>2
<1> QED
  BY <1>4

LEMMA RichestIsLeast ==
  ASSUME NEW S, S \subseteq Nat, S # {}
  PROVE  Richest(S) \in S /\ \A s \in S : Richest(S) <= s
  BY LeastOfNaturals DEF Richest

(* The operators of the controller keep the shape of the recovery state. *)

LEMMA BackoffType ==
  ASSUME NEW b \in BaseBackoff .. MaxBackoff
  PROVE  /\ Doubled(b) \in BaseBackoff .. MaxBackoff
         /\ Greater(BaseBackoff, b \div 2) \in BaseBackoff .. MaxBackoff
  BY BackoffAssumption DEF Doubled, Greater

LEMMA AdvancedType ==
  ASSUME NEW rc \in Recovery, NEW admitted \in BOOLEAN
  PROVE  Advanced(rc, admitted) \in Recovery
<1>1. Greater(rc.probation - 1, 0) \in 0 .. Probation
  BY WindowAssumption DEF Recovery, Greater
<1>2. Lesser(rc.since + 1, SinceCap) \in 0 .. SinceCap
  BY BackoffAssumption DEF Recovery, Lesser, SinceCap
<1>3. Greater(BaseBackoff, rc.backoff \div 2) \in BaseBackoff .. MaxBackoff
  BY BackoffType DEF Recovery
<1> QED
  BY <1>1, <1>2, <1>3 DEF Advanced, Recovery

LEMMA FailedType ==
  ASSUME NEW rc \in Recovery
  PROVE  Failed(rc) \in Recovery
<1> DEFINE a == Advanced(rc, FALSE)
<1>1. a \in Recovery
  BY AdvancedType
<1> HIDE DEF a
<1>2. 0 \in 0 .. Headroom
  BY WindowAssumption
<1>3. [a EXCEPT !.streak = 0] \in Recovery
  BY <1>1, <1>2 DEF Recovery
<1> QED
  BY <1>3 DEF Failed, a

LEMMA DegradedType ==
  ASSUME NEW rc \in Recovery
  PROVE  Degraded(rc) \in Recovery
<1> DEFINE b == AfterProbe(rc)
<1>1. b \in BaseBackoff .. MaxBackoff
  <2>1. rc.backoff \in BaseBackoff .. MaxBackoff
    BY DEF Recovery
  <2>2. Doubled(rc.backoff) \in BaseBackoff .. MaxBackoff
    BY <2>1, BackoffType
  <2> QED
    BY <2>1, <2>2 DEF AfterProbe
<1> HIDE DEF b
<1>2. 0 \in 0 .. Headroom /\ 0 \in 0 .. Probation /\ 0 \in 0 .. SinceCap
  BY WindowAssumption, BackoffAssumption DEF SinceCap
<1>3. [rc EXCEPT !.backoff = b, !.streak = 0, !.probation = 0, !.since = 0] \in Recovery
  BY <1>1, <1>2 DEF Recovery
<1> QED
  BY <1>3 DEF Degraded, b

LEMMA ClimbedType ==
  ASSUME NEW rc \in Recovery
  PROVE  Climbed(rc) \in Recovery
<1>1. 0 \in 0 .. Headroom /\ Probation \in 0 .. Probation /\ 0 \in 0 .. SinceCap
  BY WindowAssumption, BackoffAssumption DEF SinceCap
<1> QED
  BY <1>1 DEF Climbed, Recovery

LEMMA EvaluatedType ==
  ASSUME TypeOK, NEW r, NEW budget
  PROVE  Evaluated(r, budget) \in Recovery
<1> DEFINE next == Advanced(rec, TRUE)
<1>1. next \in Recovery
  BY AdvancedType DEF TypeOK
<1> HIDE DEF next
<1>2. Lesser(next.streak + 1, Headroom) \in 0 .. Headroom /\ 0 \in 0 .. Headroom
  BY <1>1, WindowAssumption DEF Recovery, Lesser
<1>3. [next EXCEPT !.streak = Lesser(next.streak + 1, Headroom)] \in Recovery
  BY <1>1, <1>2 DEF Recovery
<1>4. [next EXCEPT !.streak = 0] \in Recovery
  BY <1>1, <1>2 DEF Recovery
<1> QED
  BY <1>3, <1>4 DEF Evaluated, next

LEMMA NotesType ==
  ASSUME TypeOK, NEW rc \in Recovery
  PROVE  Notes(rc) \in Recovery
BY DEF Notes, TypeOK

(* What a recovery target is: never a poorer rung, and a richer one only if
   nothing measured says that it exceeds the budget. *)
LEMMA TargetFits ==
  ASSUME NEW r \in Rungs, NEW budget
  PROVE  /\ RecoveryTarget(r, budget).rung \in 0 .. r
         /\ RecoveryTarget(r, budget).rung < r
              => Fits(RecoveryTarget(r, budget).rung, budget)
<1> DEFINE fitting == FittingRicher(r, budget)
<1>1. CASE fitting # {}
  <2>1. Richest(fitting) \in fitting
    <3>1. fitting \subseteq Nat
      BY DEF FittingRicher, MatureRicher
    <3> QED
      BY <1>1, <3>1, RichestIsLeast
  <2>2. RecoveryTarget(r, budget).rung = Richest(fitting)
    BY <1>1 DEF RecoveryTarget
  <2> QED
    BY <2>1, <2>2, RungAssumption DEF FittingRicher, MatureRicher, Rungs, Fits
<1>2. CASE fitting = {} /\ MatureRicher(r) # {}
  <2>1. RecoveryTarget(r, budget).rung = r
    BY <1>2 DEF RecoveryTarget
  <2> QED
    BY <2>1, RungAssumption DEF Rungs
<1>3. CASE fitting = {} /\ MatureRicher(r) = {} /\ r > 0
  <2>1. RecoveryTarget(r, budget).rung = r - 1
    BY <1>3 DEF RecoveryTarget
  <2>2. ~Mature(r - 1)
    BY <1>3, RungAssumption DEF MatureRicher, Rungs
  <2> QED
    BY <1>3, <2>1, <2>2, RungAssumption DEF Rungs, Fits
<1>4. CASE fitting = {} /\ MatureRicher(r) = {} /\ r = 0
  <2>1. RecoveryTarget(r, budget).rung = 0
    BY <1>4 DEF RecoveryTarget
  <2> QED
    BY <1>4, <2>1
<1> QED
  BY <1>1, <1>2, <1>3, <1>4, RungAssumption DEF Rungs

-----------------------------------------------------------------------------
(* The rung a decision leaves, for each decision site. *)

LEMMA CausalRung ==
  ASSUME TypeOK, NEW w, NEW p, NEW submits, CausalDecide(w, p, submits)
  PROVE  /\ rung' \in 0 .. CausalMaxRung
         /\ \/ rung' >= Lesser(rung, CausalMaxRung)
            \/ /\ Recover /\ hold = 0
               /\ Fits(rung', RecoveryBudget(w))
<1> DEFINE r == Lesser(rung, CausalMaxRung)
<1>1. r \in Rungs /\ r \in 0 .. CausalMaxRung
  BY RungAssumption DEF TypeOK, Rungs, Lesser
<1> HIDE DEF r
<1>2. \/ MissSkip(r) \/ ReservationSkip(r, w, p) \/ Admit(r, w, submits)
      \/ Climb(r, w, submits) \/ PhaseSkip(r, w, p) \/ HeldSkip(r, w, p)
      \/ WalkDown(r, w, p, submits) \/ SettleAtBottom(r, w, p)
  BY DEF CausalDecide, r
<1>3. CASE MissSkip(r) \/ ReservationSkip(r, w, p) \/ Admit(r, w, submits)
           \/ PhaseSkip(r, w, p) \/ HeldSkip(r, w, p)
  <2>1. rung' = r
    BY <1>3 DEF MissSkip, ReservationSkip, Admit, PhaseSkip, HeldSkip, Keeps
  <2> QED
    BY <1>1, <2>1, RungAssumption DEF r, Rungs
<1>4. CASE Climb(r, w, submits)
  <2> DEFINE b == RecoveryBudget(w)
  <2> HIDE DEF b
  <2>1. Recover /\ MayClimb(r, hold, b) /\ rung' = RecoveryTarget(r, b).rung
    BY <1>4 DEF Climb, Keeps, b
  <2>2. hold = 0 /\ rung' < r
    BY <2>1 DEF MayClimb
  <2> QED
    BY <1>1, <2>1, <2>2, TargetFits, RungAssumption DEF b, Rungs
<1>5. CASE WalkDown(r, w, p, submits)
  <2>1. Cheaper(r, w) \subseteq Nat /\ Cheaper(r, w) # {}
    BY <1>1, <1>5, RungAssumption DEF WalkDown, Cheaper, Rungs
  <2>2. Richest(Cheaper(r, w)) \in r + 1 .. CausalMaxRung
    BY <2>1, RichestIsLeast DEF Cheaper
  <2>3. rung' = Richest(Cheaper(r, w))
    BY <1>5 DEF WalkDown, Keeps
  <2> QED
    BY <1>1, <2>2, <2>3, RungAssumption DEF r, Rungs
<1>6. CASE SettleAtBottom(r, w, p)
  <2>1. rung' = CausalMaxRung
    BY <1>6 DEF SettleAtBottom, Keeps
  <2> QED
    BY <1>1, <2>1, RungAssumption DEF r
<1> QED
  BY <1>2, <1>3, <1>4, <1>5, <1>6

LEMMA ReactiveRung ==
  ASSUME TypeOK, NEW reduces, NEW submits, ReactiveDecide(reduces, submits)
  PROVE  /\ rung' \in Rungs
         /\ rung' >= rung \/ (Recover /\ hold = 0 /\ Fits(rung', SlotBudget))
<1>1. CASE ReactiveDegrade(reduces)
  BY <1>1, RungAssumption DEF ReactiveDegrade, Keeps, Overruns, TypeOK, Rungs
<1>2. CASE ReactiveClimb(reduces)
  <2>1. Recover /\ MayClimb(rung, hold, SlotBudget)
        /\ rung' = RecoveryTarget(rung, SlotBudget).rung
    BY <1>2 DEF ReactiveClimb, Keeps
  <2>2. hold = 0 /\ rung' < rung /\ rung \in Rungs
    BY <2>1 DEF MayClimb, TypeOK
  <2> QED
    BY <2>1, <2>2, TargetFits, RungAssumption DEF Rungs
<1>3. CASE ReactiveKeep(reduces)
  BY <1>3, RungAssumption DEF ReactiveKeep, Keeps, TypeOK, Rungs
<1> QED
  BY <1>1, <1>2, <1>3 DEF ReactiveDecide

LEMMA VrrRung ==
  ASSUME TypeOK, NEW w, NEW submits, VrrDecide(w, submits)
  PROVE  rung' \in 0 .. CausalMaxRung /\ rung' >= Lesser(rung, CausalMaxRung)
<1> DEFINE r == Lesser(rung, CausalMaxRung)
<1>1. r \in 0 .. CausalMaxRung
  BY RungAssumption DEF TypeOK, Rungs, Lesser
<1>2. VrrCancel(r, w) \/ VrrWalk(r, w, submits)
  BY DEF VrrDecide
<1> HIDE DEF r
<1>3. CASE VrrCancel(r, w)
  BY <1>1, <1>3, RungAssumption DEF VrrCancel, Keeps, r
<1>4. CASE VrrWalk(r, w, submits)
  <2>1. Affordable(r, w) \subseteq r .. CausalMaxRung /\ Affordable(r, w) # {}
    BY <1>4 DEF VrrWalk, Affordable
  <2>2. Richest(Affordable(r, w)) \in r .. CausalMaxRung
    BY <1>1, <2>1, RichestIsLeast
  <2>3. rung' = Richest(Affordable(r, w))
    BY <1>4 DEF VrrWalk, Keeps
  <2> QED
    BY <1>1, <2>2, <2>3, RungAssumption DEF r
<1> QED
  BY <1>2, <1>3, <1>4

-----------------------------------------------------------------------------
(* Type correctness, one lemma per action that does more than an assignment. *)

\* What a decision leaves besides the frame conditions.
Decision == /\ rung' \in Rungs /\ hold' \in 0 .. HoldFrames /\ rec' \in Recovery
            /\ batch' \in Batch /\ probed' \subseteq Rungs

LEMMA SubmitsType ==
  ASSUME TypeOK, NEW r \in Rungs, NEW anchored \in BOOLEAN, NEW submits,
         IF submits THEN Submits(r, anchored) ELSE SubmitsNothing
  PROVE  batch' \in Batch /\ probed' \subseteq Rungs
<1>1. CASE Submits(r, anchored)
  BY <1>1 DEF Submits, TypeOK, Batch
<1>2. CASE SubmitsNothing
  BY <1>2 DEF SubmitsNothing, TypeOK
<1> QED
  BY <1>1, <1>2

LEMMA HoldType ==
  ASSUME TypeOK
  PROVE  /\ HoldFrames \in 0 .. HoldFrames /\ 0 \in 0 .. HoldFrames
         /\ Greater(hold - 1, 0) \in 0 .. HoldFrames
         /\ hold > 0 => hold - 1 \in 0 .. HoldFrames
  BY WindowAssumption DEF TypeOK, Greater

LEMMA CausalType ==
  ASSUME TypeOK, NEW w, NEW p, NEW submits \in BOOLEAN, CausalDecide(w, p, submits)
  PROVE  Decision
<1> DEFINE r == Lesser(rung, CausalMaxRung)
<1>0. r \in Rungs /\ CausalMaxRung \in Rungs
  BY RungAssumption DEF TypeOK, Rungs, Lesser
<1>r. rung' \in Rungs
  BY CausalRung, RungAssumption DEF Rungs
<1> HIDE DEF r
<1>1. \/ MissSkip(r) \/ ReservationSkip(r, w, p) \/ Admit(r, w, submits)
      \/ Climb(r, w, submits) \/ PhaseSkip(r, w, p) \/ HeldSkip(r, w, p)
      \/ WalkDown(r, w, p, submits) \/ SettleAtBottom(r, w, p)
  BY DEF CausalDecide, r
<1>2. CASE MissSkip(r) \/ ReservationSkip(r, w, p) \/ PhaseSkip(r, w, p)
  BY <1>2, <1>r
     DEF MissSkip, ReservationSkip, PhaseSkip, Keeps, SubmitsNothing, TypeOK, Decision
<1>3. CASE Admit(r, w, submits)
  <2>1. hold' = DrainedHold(submits) /\ rec' = Notes(Evaluated(r, RecoveryBudget(w)))
        /\ (IF submits THEN Submits(r, TRUE) ELSE SubmitsNothing)
    BY <1>3 DEF Admit, Keeps
  <2>2. hold' \in 0 .. HoldFrames
    BY <2>1, HoldType DEF DrainedHold, TypeOK
  <2> QED
    BY <1>0, <1>r, <2>1, <2>2, EvaluatedType, NotesType, SubmitsType DEF Decision
<1>4. CASE Climb(r, w, submits)
  <2> DEFINE b == RecoveryBudget(w)
             q == RecoveryTarget(r, b).rung
  <2>1. hold' = hold /\ rec' = Climbed(Evaluated(r, b)) /\ rung' = q
        /\ (IF submits THEN Submits(q, TRUE) ELSE SubmitsNothing)
    BY <1>4 DEF Climb, Keeps
  <2> HIDE DEF b, q
  <2> QED
    BY <1>r, <2>1, EvaluatedType, ClimbedType, SubmitsType DEF Decision, TypeOK
<1>5. CASE HeldSkip(r, w, p)
  <2>1. hold > 0 /\ hold' = hold - 1 /\ rec' = Notes(Failed(rec)) /\ SubmitsNothing
    BY <1>5 DEF HeldSkip, Keeps
  <2> QED
    BY <1>r, <2>1, HoldType, FailedType, NotesType DEF Decision, TypeOK, SubmitsNothing
<1>6. CASE WalkDown(r, w, p, submits)
  <2> DEFINE q == Richest(Cheaper(r, w))
  <2>1. hold' = HoldFrames /\ rec' = Notes(Degraded(rec)) /\ rung' = q
        /\ (IF submits THEN Submits(q, TRUE) ELSE SubmitsNothing)
    BY <1>6 DEF WalkDown, Keeps
  <2> HIDE DEF q
  <2>2. rec \in Recovery
    BY DEF TypeOK
  <2> QED
    BY <1>r, <2>1, <2>2, HoldType, DegradedType, NotesType, SubmitsType DEF Decision
<1>7. CASE SettleAtBottom(r, w, p)
  <2>1. hold' = 0 /\ SubmitsNothing
        /\ rec' = Notes(IF r < CausalMaxRung THEN Degraded(rec) ELSE Failed(rec))
    BY <1>7 DEF SettleAtBottom, Keeps
  <2>2. rec' \in Recovery
    <3>1. Degraded(rec) \in Recovery /\ Failed(rec) \in Recovery
      BY DegradedType, FailedType DEF TypeOK
    <3> QED
      BY <2>1, <3>1, NotesType
  <2> QED
    BY <1>r, <2>1, <2>2, HoldType DEF Decision, TypeOK, SubmitsNothing
<1> QED
  BY <1>1, <1>2, <1>3, <1>4, <1>5, <1>6, <1>7

LEMMA ReactiveType ==
  ASSUME TypeOK, NEW reduces, NEW submits \in BOOLEAN, ReactiveDecide(reduces, submits)
  PROVE  Decision
<1>1. rung' \in Rungs
  BY ReactiveRung
<1>2. batch' \in Batch /\ probed' \subseteq Rungs
  BY <1>1, SubmitsType DEF ReactiveDecide
<1>3. rec \in Recovery
  BY DEF TypeOK
<1>4. CASE ReactiveDegrade(reduces)
  BY <1>1, <1>2, <1>3, <1>4, HoldType, DegradedType, NotesType
     DEF ReactiveDegrade, Keeps, Decision
<1>5. CASE ReactiveClimb(reduces)
  BY <1>1, <1>2, <1>5, HoldType, EvaluatedType, ClimbedType
     DEF ReactiveClimb, ReactiveHold, Keeps, Decision
<1>6. CASE ReactiveKeep(reduces)
  BY <1>1, <1>2, <1>6, HoldType, EvaluatedType, NotesType
     DEF ReactiveKeep, ReactiveHold, Keeps, Decision
<1> QED
  BY <1>4, <1>5, <1>6 DEF ReactiveDecide

LEMMA VrrType ==
  ASSUME TypeOK, NEW w, NEW submits \in BOOLEAN, VrrDecide(w, submits)
  PROVE  Decision
<1> DEFINE r == Lesser(rung, CausalMaxRung)
<1>1. rung' \in Rungs
  BY VrrRung, RungAssumption DEF Rungs
<1>2. VrrCancel(r, w) \/ VrrWalk(r, w, submits)
  BY DEF VrrDecide
<1> HIDE DEF r
<1>3. CASE VrrCancel(r, w)
  BY <1>1, <1>3 DEF VrrCancel, Keeps, Decision, TypeOK, Batch
<1>4. CASE VrrWalk(r, w, submits)
  BY <1>1, <1>4, HoldType, SubmitsType DEF VrrWalk, Keeps, Decision, TypeOK
<1> QED
  BY <1>2, <1>3, <1>4

LEMMA DecidedType ==
  ASSUME TypeOK, Decision, Decided, missed' \in BOOLEAN,
         misses' \subseteq 0 .. MissWindow - 1
  PROVE  TypeOK'
<1>1. age' \in 0 .. MaxBackoff
  BY BackoffAssumption DEF TypeOK, Decided, Lesser
<1> QED
  BY <1>1 DEF TypeOK, Decision, Decided

LEMMA WindowType ==
  ASSUME TypeOK
  PROVE  Window \subseteq 0 .. MissWindow - 1
<1>1. ASSUME NEW a \in {b \in misses : b + 1 < MissWindow}
      PROVE  a + 1 \in 0 .. MissWindow - 1
  BY <1>1, WindowAssumption DEF TypeOK
<1>2. 0 \in 0 .. MissWindow - 1
  BY WindowAssumption
<1> QED
  BY <1>1, <1>2 DEF Window

LEMMA FinishType ==
  ASSUME TypeOK, NEW c \in Costs, Finish(c)
  PROVE  TypeOK'
<1> DEFINE r == batch.rung
           n == Lesser(cost[r].samples + 1, MinSamples)
           timed == [cost EXCEPT ![r] = [ns |-> c, samples |-> n]]
<1>1. batch' \in Batch
  BY DEF Finish, TypeOK, Batch
<1>2. r \in Rungs /\ cost[r].samples \in 0 .. MinSamples
  BY DEF TypeOK, Batch
<1>3. n \in 0 .. MinSamples
  BY <1>2, WindowAssumption DEF Lesser
<1>4. cost' = IF batch.timed THEN timed ELSE cost
  BY <1>2 DEF Finish, TypeOK
<1> HIDE DEF n
<1>5. timed \in [Rungs -> [ns : Costs \union {0}, samples : 0 .. MinSamples]]
  BY <1>2, <1>3 DEF TypeOK
<1> HIDE DEF timed
<1>6. cost' \in [Rungs -> [ns : Costs \union {0}, samples : 0 .. MinSamples]]
  BY <1>4, <1>5 DEF TypeOK
<1> QED
  BY <1>1, <1>6 DEF Finish, TypeOK, History

LEMMA TooSlowType ==
  ASSUME TypeOK, TooSlow
  PROVE  TypeOK'
<1>1. [rec EXCEPT !.streak = 0] \in Recovery
  BY WindowAssumption DEF TypeOK, Recovery
<1>2. rec' \in Recovery
  BY <1>1, NotesType DEF TooSlow, TypeOK
<1>3. bounds' \in [shifts : 0 .. MaxShifts, misses : 0 .. MaxMisses, scenes : 0 .. MaxScenes]
  BY BoundAssumption DEF TooSlow, TypeOK
<1>4. batch' \in Batch /\ missed' \in BOOLEAN
  BY DEF TooSlow, TypeOK, Batch
<1> QED
  BY <1>2, <1>3, <1>4 DEF TooSlow, TypeOK, History

LEMMA NoRecoveryType ==
  NoRecovery \in Recovery
BY WindowAssumption, BackoffAssumption DEF NoRecovery, Recovery, SinceCap

LEMMA InvalidateType ==
  ASSUME TypeOK, NEW isHitch \in BOOLEAN, Invalidate(isHitch)
  PROVE  TypeOK'
<1>1. bounds' \in [shifts : 0 .. MaxShifts, misses : 0 .. MaxMisses, scenes : 0 .. MaxScenes]
  BY BoundAssumption DEF Invalidate, TypeOK
<1>2. batch' \in Batch /\ hitch' \in BOOLEAN
  BY DEF Invalidate, ForgottenBatch, TypeOK, Batch
<1>3. cost' \in [Rungs -> [ns : Costs \union {0}, samples : 0 .. MinSamples]]
  BY WindowAssumption DEF Invalidate, Unmeasured
<1>4. rung' \in Rungs /\ hold' \in 0 .. HoldFrames /\ age' \in 0 .. MaxBackoff
  BY RungAssumption, WindowAssumption, BackoffAssumption DEF Invalidate, Rungs
<1> QED
  BY <1>1, <1>2, <1>3, <1>4, NoRecoveryType DEF Invalidate, TypeOK

LEMMA ShiftType ==
  ASSUME TypeOK, NEW r \in Rungs, NEW c \in Costs, Shift(r, c)
  PROVE  TypeOK'
<1>1. bounds' \in [shifts : 0 .. MaxShifts, misses : 0 .. MaxMisses, scenes : 0 .. MaxScenes]
  BY BoundAssumption DEF Shift, TypeOK
<1> QED
  BY <1>1 DEF Shift, TypeOK, History

LEMMA InitType ==
  ASSUME Init
  PROVE  TypeOK
<1>1. bounds \in [shifts : 0 .. MaxShifts, misses : 0 .. MaxMisses, scenes : 0 .. MaxScenes]
  BY BoundAssumption DEF Init
<1>2. cost \in [Rungs -> [ns : Costs \union {0}, samples : 0 .. MinSamples]]
  BY WindowAssumption DEF Init, Unmeasured
<1>3. rung \in Rungs /\ hold \in 0 .. HoldFrames /\ age \in 0 .. MaxBackoff /\ batch \in Batch
  BY RungAssumption, WindowAssumption, BackoffAssumption DEF Init, Rungs, NoBatch, Batch
<1> QED
  BY <1>1, <1>2, <1>3, NoRecoveryType DEF Init, TypeOK

LEMMA StepType ==
  TypeOK /\ [Next]_vars => TypeOK'
<1> SUFFICES ASSUME TypeOK, [Next]_vars PROVE TypeOK'
  OBVIOUS
<1>1. ASSUME NEW w \in Budgets, NEW p \in Budgets, NEW submits \in BOOLEAN,
             CausalDecide(w, p, submits)
      PROVE  TypeOK'
  <2>1. misses' \subseteq 0 .. MissWindow - 1 /\ missed' \in BOOLEAN
    BY <1>1, WindowType DEF CausalDecide, TypeOK
  <2>2. Decided
    BY <1>1 DEF CausalDecide
  <2> QED
    BY <1>1, <2>1, <2>2, CausalType, DecidedType
<1>2. ASSUME NEW reduces \in BOOLEAN, NEW submits \in BOOLEAN,
             ReactiveDecide(reduces, submits)
      PROVE  TypeOK'
  BY <1>2, ReactiveType, DecidedType DEF ReactiveDecide, TypeOK
<1>3. ASSUME NEW w \in Budgets, NEW submits \in BOOLEAN, VrrDecide(w, submits)
      PROVE  TypeOK'
  BY <1>3, VrrType, DecidedType DEF VrrDecide, TypeOK
<1>4. CASE Dequeue
  BY <1>4 DEF Dequeue, TypeOK, Batch, History
<1>5. CASE Feedback
  BY <1>5 DEF Feedback, TypeOK, History
<1>6. CASE SwitchVrr
  BY <1>6 DEF SwitchVrr, TypeOK, History
<1>7. CASE UNCHANGED vars
  BY <1>7 DEF vars, TypeOK
<1> QED
  BY <1>1, <1>2, <1>3, <1>4, <1>5, <1>6, <1>7, FinishType, TooSlowType,
     InvalidateType, ShiftType DEF Next

(* The recovery state keeps its range, and every variable its shape, whatever
   sequence of decisions, misses and invalidations the compositor takes. *)
THEOREM TypeCorrect ==
  Spec => []TypeOK
<1>1. Init => TypeOK
  BY InitType
<1> QED
  BY <1>1, StepType, PTL DEF Spec

-----------------------------------------------------------------------------
(* What the ladder never does. *)

LEMMA OtherRung ==
  ASSUME (\E c \in Costs : Finish(c)) \/ Dequeue \/ TooSlow \/ Feedback
         \/ SwitchVrr \/ (\E r \in Rungs, c \in Costs : Shift(r, c)) \/ UNCHANGED vars
  PROVE  rung' = rung
BY DEF Finish, Dequeue, TooSlow, Feedback, SwitchVrr, Shift, vars

(* While the hold that a degradation started has not drained, no decision site
   climbs: each of them climbs only behind MayClimb, which wants a hold of 0. *)
THEOREM HoldProtects ==
  Spec => RungMonotoneInHold
<1>1. TypeOK /\ [Next]_vars => [hold > 0 /\ SameScene => rung' >= Lesser(rung, CausalMaxRung)]_vars
  <2> SUFFICES ASSUME TypeOK, Next, hold > 0, SameScene
               PROVE  rung' >= Lesser(rung, CausalMaxRung)
    OBVIOUS
  <2>0. rung \in Nat /\ CausalMaxRung \in Nat /\ rung >= Lesser(rung, CausalMaxRung)
    BY RungAssumption DEF TypeOK, Rungs, Lesser
  <2>1. ASSUME NEW w \in Budgets, NEW p \in Budgets, NEW submits \in BOOLEAN,
               CausalDecide(w, p, submits)
        PROVE  rung' >= Lesser(rung, CausalMaxRung)
    BY <2>1, CausalRung
  <2>2. ASSUME NEW reduces \in BOOLEAN, NEW submits \in BOOLEAN,
               ReactiveDecide(reduces, submits)
        PROVE  rung' >= Lesser(rung, CausalMaxRung)
    <3>1. rung' \in Rungs /\ rung' >= rung
      BY <2>2, ReactiveRung
    <3> QED
      BY <2>0, <3>1, RungAssumption DEF Rungs, Lesser
  <2>3. ASSUME NEW w \in Budgets, NEW submits \in BOOLEAN, VrrDecide(w, submits)
        PROVE  rung' >= Lesser(rung, CausalMaxRung)
    BY <2>3, VrrRung
  <2>4. ASSUME NEW isHitch \in BOOLEAN, Invalidate(isHitch)
        PROVE  FALSE
    BY <2>4 DEF Invalidate, SameScene, TypeOK
  <2> QED
    BY <2>0, <2>1, <2>2, <2>3, <2>4, OtherRung DEF Next
<1> QED
  BY <1>1, TypeCorrect, PTL DEF Spec, RungMonotoneInHold

(* The ladder never climbs onto a rung measured to exceed a whole slot,
   whichever rung the recovery chose and whatever evidence it had. *)
THEOREM ClimbsFit ==
  Spec => ClimbFitsSlot
<1>1. TypeOK /\ [Next]_vars
        => [Climbs /\ (Native \/ ~Causal) => Fits(rung', SlotBudget)]_vars
  <2> SUFFICES ASSUME TypeOK, Next, Climbs, Native \/ ~Causal
               PROVE  Fits(rung', SlotBudget)
    OBVIOUS
  <2>0. rung \in Nat /\ CausalMaxRung \in Nat /\ rung' < Lesser(rung, CausalMaxRung)
        /\ ~(rung < Lesser(rung, CausalMaxRung))
    BY RungAssumption DEF TypeOK, Rungs, Lesser, Climbs
  <2>1. ASSUME NEW w \in Budgets, NEW p \in Budgets, NEW submits \in BOOLEAN,
               CausalDecide(w, p, submits)
        PROVE  Fits(rung', SlotBudget)
    <3>1. rung' \in Nat /\ Lesser(rung, CausalMaxRung) \in Nat
      BY <2>0, <2>1, CausalRung, RungAssumption DEF Lesser
    <3>2. Fits(rung', RecoveryBudget(w))
      BY <2>0, <2>1, <3>1, CausalRung
    <3> QED
      BY <2>1, <3>2 DEF CausalDecide, RecoveryBudget
  <2>2. ASSUME NEW reduces \in BOOLEAN, NEW submits \in BOOLEAN,
               ReactiveDecide(reduces, submits)
        PROVE  Fits(rung', SlotBudget)
    <3>1. rung' \in Nat /\ ~(rung' >= rung)
      BY <2>0, <2>2, ReactiveRung, RungAssumption DEF Rungs, Lesser
    <3> QED
      BY <2>2, <3>1, ReactiveRung
  <2>3. ASSUME NEW w \in Budgets, NEW submits \in BOOLEAN, VrrDecide(w, submits)
        PROVE  FALSE
    BY <2>0, <2>3, VrrRung, RungAssumption DEF Lesser
  <2>4. ASSUME NEW isHitch \in BOOLEAN, Invalidate(isHitch)
        PROVE  FALSE
    BY <2>4 DEF Invalidate, Climbs, SameScene, TypeOK
  <2> QED
    BY <2>0, <2>1, <2>2, <2>3, <2>4, OtherRung DEF Next
<1> QED
  BY <1>1, TypeCorrect, PTL DEF Spec, ClimbFitsSlot

(* A batch whose timing will be folded in was submitted in this scene. *)
TimedWasProbed == batch.timed => batch.rung \in probed

Fresh == TypeOK /\ MeasuredThisScene /\ TimedWasProbed

\* What a decision may do to the batch: replace it, or take it off the queue.
Batched == \/ /\ batch'.timed => batch'.rung \in probed'
              /\ probed \subseteq probed'
           \/ batch'.timed = batch.timed /\ batch'.rung = batch.rung /\ probed' = probed

LEMMA SubmitsBatched ==
  ASSUME NEW r, NEW anchored, NEW submits,
         IF submits THEN Submits(r, anchored) ELSE SubmitsNothing
  PROVE  Batched
BY DEF Submits, SubmitsNothing, Batched

LEMMA DecisionBatched ==
  ASSUME TypeOK,
         \/ \E w, p \in Budgets, submits \in BOOLEAN : CausalDecide(w, p, submits)
         \/ \E reduces, submits \in BOOLEAN : ReactiveDecide(reduces, submits)
         \/ \E w \in Budgets, submits \in BOOLEAN : VrrDecide(w, submits)
  PROVE  Batched /\ cost' = cost
<1>1. ASSUME NEW w \in Budgets, NEW p \in Budgets, NEW submits \in BOOLEAN,
             CausalDecide(w, p, submits)
      PROVE  Batched /\ cost' = cost
  <2> DEFINE r == Lesser(rung, CausalMaxRung)
  <2>1. \/ SubmitsNothing
        \/ \E q : IF submits THEN Submits(q, TRUE) ELSE SubmitsNothing
    <3>1. \/ MissSkip(r) \/ ReservationSkip(r, w, p) \/ Admit(r, w, submits)
          \/ Climb(r, w, submits) \/ PhaseSkip(r, w, p) \/ HeldSkip(r, w, p)
          \/ WalkDown(r, w, p, submits) \/ SettleAtBottom(r, w, p)
      BY <1>1 DEF CausalDecide
    <3> HIDE DEF r
    <3> QED
      BY <3>1 DEF MissSkip, ReservationSkip, Admit, Climb, PhaseSkip, HeldSkip,
                  WalkDown, SettleAtBottom
  <2>2. SubmitsNothing => Batched
    BY DEF SubmitsNothing, Batched
  <2> QED
    BY <1>1, <2>1, <2>2, SubmitsBatched DEF CausalDecide, Decided
<1>2. ASSUME NEW reduces \in BOOLEAN, NEW submits \in BOOLEAN,
             ReactiveDecide(reduces, submits)
      PROVE  Batched /\ cost' = cost
  BY <1>2, SubmitsBatched DEF ReactiveDecide, Decided
<1>3. ASSUME NEW w \in Budgets, NEW submits \in BOOLEAN, VrrDecide(w, submits)
      PROVE  Batched /\ cost' = cost
  <2> DEFINE r == Lesser(rung, CausalMaxRung)
  <2>1. VrrCancel(r, w) \/ VrrWalk(r, w, submits)
    BY <1>3 DEF VrrDecide
  <2> HIDE DEF r
  <2>2. VrrCancel(r, w) => Batched
    BY DEF VrrCancel, Batched, TypeOK, Batch
  <2>3. VrrWalk(r, w, submits) => Batched
    BY SubmitsBatched DEF VrrWalk
  <2> QED
    BY <1>3, <2>1, <2>2, <2>3 DEF VrrDecide, Decided
<1> QED
  BY <1>1, <1>2, <1>3

LEMMA FinishFresh ==
  ASSUME Fresh, NEW c \in Costs, Finish(c)
  PROVE  MeasuredThisScene' /\ TimedWasProbed'
<1>1. batch'.timed = FALSE /\ probed' = probed
  BY DEF Finish, Fresh, TypeOK, Batch, History
<1>2. ASSUME NEW q \in Rungs, cost'[q].samples > 0
      PROVE  q \in probed
  <2>1. CASE batch.timed /\ q = batch.rung
    <3>1. TimedWasProbed
      BY DEF Fresh
    <3> QED
      BY <2>1, <3>1 DEF TimedWasProbed
  <2>2. CASE ~(batch.timed /\ q = batch.rung)
    <3>1. cost'[q] = cost[q]
      BY <2>2 DEF Finish, Fresh, TypeOK
    <3> QED
      BY <1>2, <3>1 DEF Fresh, MeasuredThisScene
  <2> QED
    BY <2>1, <2>2
<1> QED
  BY <1>1, <1>2 DEF MeasuredThisScene, TimedWasProbed

(* No timing of an earlier scene reaches the ladder: a batch still running when
   the history is invalidated loses its query, and every later batch is known
   to the scene that times it. *)
THEOREM NoStaleTiming ==
  Spec => []MeasuredThisScene
<1>1. Init => Fresh
  <2> SUFFICES ASSUME Init PROVE Fresh
    OBVIOUS
  <2>1. \A r \in Rungs : cost[r].samples = 0
    BY DEF Init, Unmeasured
  <2>2. ~batch.timed
    BY DEF Init, NoBatch
  <2> QED
    BY <2>1, <2>2, InitType DEF Fresh, MeasuredThisScene, TimedWasProbed
<1>2. Fresh /\ [Next]_vars => Fresh'
  <2> SUFFICES ASSUME Fresh, [Next]_vars PROVE MeasuredThisScene' /\ TimedWasProbed'
    BY StepType DEF Fresh
  <2>1. ASSUME Batched, cost' = cost PROVE MeasuredThisScene' /\ TimedWasProbed'
    BY <2>1 DEF Fresh, Batched, MeasuredThisScene, TimedWasProbed
  <2>2. CASE Dequeue \/ TooSlow
    <3>1. batch'.timed = batch.timed /\ batch'.rung = batch.rung
      BY <2>2 DEF Dequeue, TooSlow, Fresh, TypeOK, Batch
    <3>2. probed' = probed /\ cost' = cost
      BY <2>2 DEF Dequeue, TooSlow, History
    <3> QED
      BY <2>1, <3>1, <3>2 DEF Batched
  <2>3. CASE Feedback \/ SwitchVrr \/ (\E r \in Rungs, c \in Costs : Shift(r, c))
             \/ UNCHANGED vars
    BY <2>1, <2>3 DEF Feedback, SwitchVrr, Shift, vars, History, Batched
  <2>4. ASSUME NEW isHitch \in BOOLEAN, Invalidate(isHitch)
        PROVE  MeasuredThisScene' /\ TimedWasProbed'
    BY <2>4 DEF Invalidate, ForgottenBatch, Unmeasured, Fresh, TypeOK, Batch,
                MeasuredThisScene, TimedWasProbed
  <2> QED
    BY <2>1, <2>2, <2>3, <2>4, DecisionBatched, FinishFresh DEF Next, Fresh
<1> QED
  BY <1>1, <1>2, PTL DEF Spec, Fresh

(* Outside VRR, and whichever of the other two sites decides: the back-off
   counter is never ahead of the age of the rung. *)
SinceIsAge == Recover => rec.since <= age \/ age = MaxBackoff
OnePath == ~vrr /\ (Causal => rung <= CausalMaxRung)

\* What a decision does to the counter, and what a climb needs of it.
Counted == /\ (rung' = rung /\ rec'.since <= rec.since + 1) \/ rec'.since = 0
           /\ rung' < rung => rec.since + 1 >= rec'.backoff

LEMMA AdvancedSince ==
  ASSUME NEW rc \in Recovery, NEW admitted
  PROVE  Advanced(rc, admitted).since <= rc.since + 1
BY BackoffAssumption DEF Advanced, Lesser, Recovery, SinceCap

LEMMA EvaluatedSince ==
  ASSUME TypeOK, NEW r, NEW budget
  PROVE  Evaluated(r, budget).since <= rec.since + 1
<1> DEFINE next == Advanced(rec, TRUE)
<1>1. next \in Recovery /\ next.since <= rec.since + 1
  BY AdvancedType, AdvancedSince DEF TypeOK
<1> HIDE DEF next
<1>2. Evaluated(r, budget).since = next.since
  BY <1>1 DEF Evaluated, next, Recovery
<1> QED
  BY <1>1, <1>2

LEMMA FailedSince ==
  ASSUME NEW rc \in Recovery
  PROVE  Failed(rc).since <= rc.since + 1
<1> DEFINE a == Advanced(rc, FALSE)
<1>1. a \in Recovery /\ a.since <= rc.since + 1
  BY AdvancedType, AdvancedSince
<1> HIDE DEF a
<1>2. Failed(rc).since = a.since
  BY <1>1 DEF Failed, a, Recovery
<1> QED
  BY <1>1, <1>2

LEMMA ResetSince ==
  ASSUME NEW rc \in Recovery
  PROVE  /\ Degraded(rc).since = 0 /\ Climbed(rc).since = 0
         /\ Climbed(rc).backoff = rc.backoff
BY DEF Degraded, Climbed, Recovery

LEMMA ClimbCounted ==
  ASSUME TypeOK, NEW r, NEW h, NEW budget, MayClimb(r, h, budget),
         rec' = Climbed(Evaluated(r, budget))
  PROVE  rec'.since = 0 /\ rec.since + 1 >= rec'.backoff
<1> DEFINE e == Evaluated(r, budget)
<1>1. e \in Recovery /\ e.since <= rec.since + 1 /\ e.since >= e.backoff
  BY EvaluatedType, EvaluatedSince DEF MayClimb
<1> HIDE DEF e
<1>2. rec'.since = 0 /\ rec'.backoff = e.backoff
  BY <1>1, ResetSince DEF e
<1>3. rec.since \in Nat /\ e.since \in Nat /\ e.backoff \in Nat
  BY <1>1, BackoffAssumption DEF TypeOK, Recovery, SinceCap
<1> QED
  BY <1>1, <1>2, <1>3

LEMMA CausalCounted ==
  ASSUME TypeOK, OnePath, Recover, NEW w, NEW p, NEW submits, CausalDecide(w, p, submits)
  PROVE  Counted
<1>1. Lesser(rung, CausalMaxRung) = rung /\ rung \in Nat /\ rec \in Recovery
      /\ rec.since \in Nat /\ rung <= CausalMaxRung
  BY RungAssumption, BackoffAssumption
     DEF CausalDecide, OnePath, TypeOK, Rungs, Lesser, Recovery, SinceCap
<1>2. \/ MissSkip(rung) \/ ReservationSkip(rung, w, p) \/ Admit(rung, w, submits)
      \/ Climb(rung, w, submits) \/ PhaseSkip(rung, w, p) \/ HeldSkip(rung, w, p)
      \/ WalkDown(rung, w, p, submits) \/ SettleAtBottom(rung, w, p)
  BY <1>1 DEF CausalDecide
<1>3. CASE MissSkip(rung) \/ ReservationSkip(rung, w, p) \/ PhaseSkip(rung, w, p)
  BY <1>1, <1>3 DEF MissSkip, ReservationSkip, PhaseSkip, Keeps, Counted
<1>4. CASE Admit(rung, w, submits)
  <2>1. rung' = rung /\ rec' = Evaluated(rung, RecoveryBudget(w))
    BY <1>4 DEF Admit, Keeps, Notes
  <2> QED
    BY <1>1, <2>1, EvaluatedSince DEF Counted
<1>5. CASE Climb(rung, w, submits)
  <2>1. MayClimb(rung, hold, RecoveryBudget(w))
        /\ rec' = Climbed(Evaluated(rung, RecoveryBudget(w)))
    BY <1>5 DEF Climb, Keeps
  <2> QED
    BY <2>1, ClimbCounted DEF Counted
<1>6. CASE HeldSkip(rung, w, p)
  <2>1. rung' = rung /\ rec' = Failed(rec)
    BY <1>6 DEF HeldSkip, Keeps, Notes
  <2> QED
    BY <1>1, <2>1, FailedSince DEF Counted
<1>7. CASE WalkDown(rung, w, p, submits)
  <2>1. rung' >= rung
    <3>1. Cheaper(rung, w) \subseteq rung + 1 .. CausalMaxRung /\ Cheaper(rung, w) # {}
      BY <1>7 DEF WalkDown, Cheaper
    <3>2. Richest(Cheaper(rung, w)) \in rung + 1 .. CausalMaxRung
      BY <1>1, <3>1, RichestIsLeast
    <3> QED
      BY <1>1, <1>7, <3>2, RungAssumption DEF WalkDown, Keeps
  <2>2. rec'.since = 0
    BY <1>1, <1>7, ResetSince DEF WalkDown, Keeps, Notes
  <2>3. rung' \in Nat
    BY CausalRung, RungAssumption
  <2> QED
    BY <1>1, <2>1, <2>2, <2>3 DEF Counted
<1>8. CASE SettleAtBottom(rung, w, p)
  <2>1. rung' = CausalMaxRung
        /\ rec' = (IF rung < CausalMaxRung THEN Degraded(rec) ELSE Failed(rec))
    BY <1>8 DEF SettleAtBottom, Keeps, Notes
  <2> QED
    BY <1>1, <2>1, ResetSince, FailedSince, RungAssumption DEF Counted
<1> QED
  BY <1>2, <1>3, <1>4, <1>5, <1>6, <1>7, <1>8

LEMMA ReactiveCounted ==
  ASSUME TypeOK, Recover, NEW reduces, NEW submits, ReactiveDecide(reduces, submits)
  PROVE  Counted
<1>1. rung \in Nat /\ rec \in Recovery /\ rec.since \in Nat
  BY RungAssumption, BackoffAssumption DEF TypeOK, Rungs, Recovery, SinceCap
<1>2. CASE ReactiveDegrade(reduces)
  <2>1. rung' = rung + 1 /\ rec'.since = 0
    BY <1>1, <1>2, ResetSince DEF ReactiveDegrade, Keeps, Notes
  <2> QED
    BY <1>1, <2>1 DEF Counted
<1>3. CASE ReactiveClimb(reduces)
  BY <1>3, ClimbCounted DEF ReactiveClimb, Keeps, Counted
<1>4. CASE ReactiveKeep(reduces)
  <2>1. rung' = rung /\ rec' = Evaluated(rung, SlotBudget)
    BY <1>4 DEF ReactiveKeep, Keeps, Notes
  <2> QED
    BY <1>1, <2>1, EvaluatedSince DEF Counted
<1> QED
  BY <1>2, <1>3, <1>4 DEF ReactiveDecide

LEMMA DecidedSince ==
  ASSUME TypeOK, TypeOK', SinceIsAge, Counted, Decided, Recover
  PROVE  SinceIsAge' /\ (rung' < rung => age + 1 >= rec'.backoff \/ age = MaxBackoff)
<1>1. rec.since \in Nat /\ rec'.since \in Nat /\ rec'.backoff \in Nat /\ age \in Nat
      /\ age <= MaxBackoff /\ MaxBackoff \in Nat
  BY BackoffAssumption DEF TypeOK, Recovery, SinceCap
<1>2. rung' < rung => age + 1 >= rec'.backoff \/ age = MaxBackoff
  BY <1>1 DEF Counted, SinceIsAge
<1>3. age' = IF rung' # rung THEN 0 ELSE IF age + 1 <= MaxBackoff THEN age + 1 ELSE MaxBackoff
  BY DEF Decided, Lesser
<1>4. rec'.since <= age' \/ age' = MaxBackoff
  BY <1>1, <1>3 DEF Counted, SinceIsAge
<1> QED
  BY <1>2, <1>4 DEF SinceIsAge

LEMMA OtherSince ==
  ASSUME TypeOK, SinceIsAge, OnePath, ~VrrConfigured,
         \/ \E c \in Costs : Finish(c)
         \/ Dequeue \/ TooSlow \/ Feedback \/ SwitchVrr
         \/ \E r \in Rungs, c \in Costs : Shift(r, c)
         \/ UNCHANGED vars
  PROVE  SinceIsAge' /\ OnePath'
<1>1. rung' = rung /\ vrr' = vrr /\ age' = age
  BY DEF Finish, Dequeue, TooSlow, Feedback, SwitchVrr, Shift, History, vars
<1>2. rec'.since = rec.since
  BY DEF Finish, Dequeue, TooSlow, Feedback, SwitchVrr, Shift, vars, Notes, TypeOK, Recovery
<1> QED
  BY <1>1, <1>2 DEF SinceIsAge, OnePath

(* Every climb is separated from the last move of the rung by the back-off,
   for every back-off, hold, headroom and probation length.  The connector must
   not have VRR: the VRR walk degrades without telling the recovery state. *)
THEOREM ClimbsBackOff ==
  ~VrrConfigured => (Spec => ClimbSeparated)
<1> SUFFICES ASSUME ~VrrConfigured PROVE Spec => ClimbSeparated
  OBVIOUS
<1> DEFINE Inv == TypeOK /\ SinceIsAge /\ OnePath
           Step == [Climbs => age + 1 >= rec'.backoff \/ age = MaxBackoff]_vars
<1>1. Init => Inv
  <2> SUFFICES ASSUME Init PROVE SinceIsAge /\ OnePath
    BY InitType
  <2>1. ~vrr
    BY DEF Init
  <2>2. rung = 0 /\ rec.since = 0 /\ age = 0
    BY DEF Init, NoRecovery
  <2>3. rung <= CausalMaxRung /\ rec.since <= age
    BY <2>2, RungAssumption
  <2> QED
    BY <2>1, <2>3, Zenon DEF SinceIsAge, OnePath
<1>2. Inv /\ [Next]_vars => Inv' /\ Step
  <2> SUFFICES ASSUME Inv, [Next]_vars PROVE Inv' /\ Step
    OBVIOUS
  <2>t. TypeOK'
    BY StepType
  <2>n. rung \in Nat /\ CausalMaxRung \in Nat
    BY RungAssumption DEF TypeOK, Rungs
  <2>0. TypeOK' /\ rung \in Nat /\ CausalMaxRung \in Nat
    BY <2>t, <2>n
  <2>1. Climbs => rung' < rung \/ ~(rung' \in Nat)
    BY <2>0 DEF Climbs, Lesser
  <2>2. ASSUME NEW w \in Budgets, NEW p \in Budgets, NEW submits \in BOOLEAN,
               CausalDecide(w, p, submits)
        PROVE  Inv' /\ Step
    <3>0. vrr' = vrr
      BY <2>2 DEF CausalDecide, Decided
    <3>r. rung' \in 0 .. CausalMaxRung
      BY <2>2, CausalRung
    <3>1. OnePath' /\ rung' \in Nat
      BY <2>0, <3>0, <3>r DEF OnePath
    <3>2. CASE Recover
      BY <2>0, <2>1, <2>2, <3>1, <3>2, CausalCounted, DecidedSince DEF CausalDecide
    <3>3. CASE ~Recover
      <4>1. rung' >= Lesser(rung, CausalMaxRung)
        BY <2>2, <3>3, CausalRung
      <4>2. ~Climbs
        BY <2>0, <3>1, <4>1 DEF Climbs, Lesser
      <4> QED
        BY <2>0, <3>1, <3>3, <4>2 DEF SinceIsAge
    <3> QED
      BY <3>2, <3>3
  <2>3. ASSUME NEW reduces \in BOOLEAN, NEW submits \in BOOLEAN,
               ReactiveDecide(reduces, submits)
        PROVE  Inv' /\ Step
    <3>0. vrr' = vrr /\ ~Causal
      BY <2>3 DEF ReactiveDecide, Decided
    <3>r. rung' \in Nat
      BY <2>3, ReactiveRung, RungAssumption DEF Rungs
    <3>1. OnePath' /\ rung' \in Nat
      BY <3>0, <3>r DEF OnePath
    <3>2. CASE Recover
      BY <2>0, <2>1, <2>3, <3>1, <3>2, ReactiveCounted, DecidedSince DEF ReactiveDecide
    <3>3. CASE ~Recover
      <4>1. rung' >= rung
        BY <2>3, <3>3, ReactiveRung
      <4>2. ~Climbs
        BY <2>0, <3>1, <4>1 DEF Climbs, Lesser
      <4> QED
        BY <2>0, <3>1, <3>3, <4>2 DEF SinceIsAge
    <3> QED
      BY <3>2, <3>3
  <2>4. ASSUME NEW w \in Budgets, NEW submits \in BOOLEAN, VrrDecide(w, submits)
        PROVE  FALSE
    BY <2>4 DEF VrrDecide, OnePath
  <2>5. ASSUME NEW isHitch \in BOOLEAN, Invalidate(isHitch)
        PROVE  Inv' /\ Step
    <3>1. SinceIsAge' /\ OnePath'
      BY <2>5, RungAssumption DEF Invalidate, SinceIsAge, OnePath, NoRecovery
    <3>2. ~Climbs
      BY <2>5 DEF Invalidate, Climbs, SameScene, TypeOK
    <3> QED
      BY <2>0, <3>1, <3>2
  <2>6. CASE \/ \E c \in Costs : Finish(c)
             \/ Dequeue \/ TooSlow \/ Feedback \/ SwitchVrr
             \/ \E r \in Rungs, c \in Costs : Shift(r, c)
             \/ UNCHANGED vars
    <3>1. rung' = rung
      BY <2>6, OtherRung
    <3>2. ~Climbs
      BY <2>0, <3>1 DEF Climbs, Lesser
    <3> QED
      BY <2>0, <2>6, <3>2, OtherSince
  <2> QED
    BY <2>2, <2>3, <2>4, <2>5, <2>6 DEF Next
<1> QED
  BY <1>1, <1>2, PTL DEF Spec, ClimbSeparated
=============================================================================
