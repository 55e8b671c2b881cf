------------------------- MODULE TimerManagerProofs -------------------------
(***************************************************************************)
(* Proofs about the timer manager, for any number of timers, modes,        *)
(* periods and lengths of the message queue.                               *)
(***************************************************************************)
EXTENDS TimerManager, FiniteSetTheorems, SequenceTheorems, TLAPS

\* A timer inside TM_Start is off, and every opened timer is in the list.
StartingIsOff == \A t \in starting : timer[t].status = "inactive"
Listed ==
  \A t \in Timers :
    timer[t].status # "free" => \E i \in DOMAIN list : list[i] = t
VisitsTimer == taskPc \in {"visit", "callback"} => at \in Timers

TimerInv == TypeOK /\ CountsExact /\ StartingIsOff /\ Listed /\ VisitsTimer

TimerRecord ==
  [status : {"free", "inactive", "ready", "active"}, mode : Modes,
   timeout : Nat, remaining : Nat]

-----------------------------------------------------------------------------
(* Counting the timers that are on *)

On == {"ready", "active"}
Counting(f, lowPower) ==
  {t \in Timers : f[t].status \in On /\ f[t].mode.lowPower = lowPower}

\* The two states agree on which of these timers are on, and in which mode.
SameOn(f, g, S) ==
  \A t \in S : /\ g[t].status \in On <=> f[t].status \in On
               /\ g[t].mode = f[t].mode

LEMMA CountingIsFinite ==
  ASSUME NEW f, NEW lowPower
  PROVE  /\ IsFiniteSet(Counting(f, lowPower))
         /\ Cardinality(Counting(f, lowPower)) \in Nat
  <1>1. Counting(f, lowPower) \in SUBSET Timers
    BY DEF Counting
  <1>2. IsFiniteSet(Counting(f, lowPower))
    BY <1>1, FS_Subset, TimerAssumption
  <1> QED BY <1>2, FS_CardinalityType

LEMMA CountSame ==
  ASSUME NEW f, NEW g, NEW lowPower, SameOn(f, g, Timers)
  PROVE  Counting(g, lowPower) = Counting(f, lowPower)
  BY DEF SameOn, Counting

\* One timer goes off, or on: only the counter of its mode follows it.
LEMMA CountOff ==
  ASSUME NEW f, NEW g, NEW t \in Timers, NEW lowPower,
         SameOn(f, g, Timers \ {t}), f[t].status \in On, g[t].status \notin On
  PROVE  Cardinality(Counting(g, lowPower)) =
           IF f[t].mode.lowPower = lowPower
           THEN Cardinality(Counting(f, lowPower)) - 1
           ELSE Cardinality(Counting(f, lowPower))
  <1>1. Counting(g, lowPower) = Counting(f, lowPower) \ {t}
    BY DEF SameOn, Counting
  <1>2. t \in Counting(f, lowPower) <=> f[t].mode.lowPower = lowPower
    BY DEF Counting
  <1> QED BY <1>1, <1>2, FS_RemoveElement, CountingIsFinite

LEMMA CountOn ==
  ASSUME NEW f, NEW g, NEW t \in Timers, NEW lowPower,
         SameOn(f, g, Timers \ {t}), f[t].status \notin On, g[t].status \in On
  PROVE  Cardinality(Counting(g, lowPower)) =
           IF g[t].mode.lowPower = lowPower
           THEN Cardinality(Counting(f, lowPower)) + 1
           ELSE Cardinality(Counting(f, lowPower))
  <1>1. CASE g[t].mode.lowPower = lowPower
    <2>1. Counting(g, lowPower) = Counting(f, lowPower) \cup {t}
      BY <1>1 DEF SameOn, Counting
    <2>2. t \notin Counting(f, lowPower)
      BY DEF Counting
    <2>3. Cardinality(Counting(f, lowPower) \cup {t}) =
            Cardinality(Counting(f, lowPower)) + 1
      BY <2>2, FS_AddElement, CountingIsFinite
    <2> QED BY <1>1, <2>1, <2>3
  <1>2. CASE g[t].mode.lowPower # lowPower
    <2>1. Counting(g, lowPower) = Counting(f, lowPower)
      BY <1>2 DEF SameOn, Counting
    <2> QED BY <1>2, <2>1
  <1> QED BY <1>1, <1>2

LEMMA ExactCounts ==
  CountsExact <=>
    \A lowPower \in BOOLEAN :
      counts[lowPower] = Cardinality(Counting(timer, lowPower))
  BY DEF CountsExact, Counting, IsOn, On

\* The counters that TM_Stop leaves are those of the timers left on.
LEMMA StopKeepsCount ==
  ASSUME TypeOK, CountsExact, NEW t \in Timers,
         SameOn(timer, timer', Timers \ {t}), timer'[t].status \notin On,
         counts' = CountsWithout(t)
  PROVE  CountsExact' /\ counts' \in [BOOLEAN -> Nat]
  <1>1. \A b \in BOOLEAN : counts[b] = Cardinality(Counting(timer, b))
    BY ExactCounts
  <1>2. timer[t].mode.lowPower \in BOOLEAN
    BY DEF TypeOK, Modes
  <1>3. \A b \in BOOLEAN : counts'[b] = Cardinality(Counting(timer', b))
    <2> SUFFICES ASSUME NEW b \in BOOLEAN
                 PROVE  counts'[b] = Cardinality(Counting(timer', b))
      OBVIOUS
    <2>0. counts[b] = Cardinality(Counting(timer, b))
      BY <1>1
    <2>1. CASE timer[t].status \in On
      <3>1. Cardinality(Counting(timer', b)) =
              IF timer[t].mode.lowPower = b THEN Cardinality(Counting(timer, b)) - 1
              ELSE Cardinality(Counting(timer, b))
        BY <2>1, CountOff
      <3>2. counts' = [counts EXCEPT ![timer[t].mode.lowPower] = @ - 1]
        BY <2>1 DEF CountsWithout, IsOn, On
      <3>3. counts'[b] = IF timer[t].mode.lowPower = b THEN counts[b] - 1
                         ELSE counts[b]
        BY <3>2, <1>2 DEF TypeOK
      <3> QED BY <2>0, <3>1, <3>3
    <2>2. CASE timer[t].status \notin On
      <3>1. counts' = counts
        BY <2>2 DEF CountsWithout, IsOn, On
      <3>2. Counting(timer', b) = Counting(timer, b)
        BY <2>2 DEF SameOn, Counting
      <3> QED BY <2>0, <3>1, <3>2
    <2> QED BY <2>1, <2>2
  <1>4. counts' = [b \in BOOLEAN |-> counts'[b]]
    BY <1>2 DEF CountsWithout, TypeOK
  <1>5. \A b \in BOOLEAN : counts'[b] \in Nat
    BY <1>3, CountingIsFinite
  <1>6. CountsExact'
    BY <1>3 DEF CountsExact, Counting, IsOn, On
  <1> QED BY <1>4, <1>5, <1>6

\* TimerEnable counts the timer it turns on.
LEMMA StartKeepsCount ==
  ASSUME TypeOK, CountsExact, NEW t \in Timers,
         SameOn(timer, timer', Timers \ {t}), timer[t].status \notin On,
         timer'[t].status \in On, timer'[t].mode = timer[t].mode,
         counts' = [counts EXCEPT ![timer[t].mode.lowPower] = @ + 1]
  PROVE  CountsExact' /\ counts' \in [BOOLEAN -> Nat]
  <1>1. \A b \in BOOLEAN : counts[b] = Cardinality(Counting(timer, b))
    BY ExactCounts
  <1>2. timer[t].mode.lowPower \in BOOLEAN
    BY DEF TypeOK, Modes
  <1>3. \A b \in BOOLEAN : counts'[b] = Cardinality(Counting(timer', b))
    <2> SUFFICES ASSUME NEW b \in BOOLEAN
                 PROVE  counts'[b] = Cardinality(Counting(timer', b))
      OBVIOUS
    <2>1. counts[b] = Cardinality(Counting(timer, b))
      BY <1>1
    <2>2. Cardinality(Counting(timer', b)) =
            IF timer[t].mode.lowPower = b THEN Cardinality(Counting(timer, b)) + 1
            ELSE Cardinality(Counting(timer, b))
      BY CountOn
    <2>3. counts'[b] = IF timer[t].mode.lowPower = b THEN counts[b] + 1
                       ELSE counts[b]
      BY <1>2 DEF TypeOK
    <2> QED BY <2>1, <2>2, <2>3
  <1>4. counts' = [b \in BOOLEAN |-> counts'[b]]
    BY <1>2 DEF TypeOK
  <1>5. \A b \in BOOLEAN : counts'[b] \in Nat
    BY <1>3, CountingIsFinite
  <1>6. CountsExact'
    BY <1>3 DEF CountsExact, Counting, IsOn, On
  <1> QED BY <1>4, <1>5, <1>6

LEMMA OthersKeepCount ==
  ASSUME TypeOK, CountsExact, SameOn(timer, timer', Timers), counts' = counts
  PROVE  CountsExact' /\ counts' \in [BOOLEAN -> Nat]
  <1>1. \A b \in BOOLEAN : counts[b] = Cardinality(Counting(timer, b))
    BY ExactCounts
  <1>2. \A b \in BOOLEAN : Counting(timer', b) = Counting(timer, b)
    BY CountSame
  <1>3. \A b \in BOOLEAN : counts'[b] = Cardinality(Counting(timer', b))
    BY <1>1, <1>2
  <1>4. CountsExact'
    BY <1>3 DEF CountsExact, Counting, IsOn, On
  <1> QED BY <1>4 DEF TypeOK

-----------------------------------------------------------------------------
(* The list of timers *)

LEMMA WhereIsThere ==
  ASSUME TypeOK, NEW t, \E i \in DOMAIN list : list[i] = t
  PROVE  /\ Len(list) \in Nat /\ Where(t) \in 1 .. Len(list)
         /\ list[Where(t)] = t
  <1>1. Len(list) \in Nat /\ DOMAIN list = 1 .. Len(list)
    BY LenProperties DEF TypeOK
  <1> QED BY <1>1 DEF Where

LEMMA ListFacts ==
  ASSUME TypeOK
  PROVE  /\ Len(list) \in Nat /\ DOMAIN list = 1 .. Len(list)
         /\ \A i \in 1 .. Len(list) : list[i] \in Timers
         /\ NoTimer \notin Timers /\ left \in [Timers -> Timers \cup {NoTimer}]
  BY LenProperties, ElementOfSeq, TimerAssumption DEF TypeOK

LEMMA WhereInList ==
  ASSUME TypeOK, NEW t, Contains(list, t)
  PROVE  Where(t) \in 1 .. Len(list) /\ list[Where(t)] = t
  BY ListFacts, WhereIsThere DEF Contains

LEMMA AfterType ==
  ASSUME TypeOK, NEW t \in Timers
  PROVE  After(t) \in Timers \cup {NoTimer}
  <1>1. Len(list) \in Nat /\ DOMAIN list = 1 .. Len(list)
        /\ \A i \in 1 .. Len(list) : list[i] \in Timers
    BY LenProperties, ElementOfSeq DEF TypeOK
  <1>2. CASE Contains(list, t)
    <2>1. Where(t) \in 1 .. Len(list)
      BY <1>1, <1>2, WhereIsThere DEF Contains
    <2>2. Where(t) # Len(list) => list[Where(t) + 1] \in Timers
      BY <1>1, <2>1
    <2> QED BY <1>2, <2>2 DEF After
  <1>3. CASE ~Contains(list, t)
    BY <1>3 DEF After, TypeOK
  <1> QED BY <1>2, <1>3

\* What RemoveAt leaves.
LEMMA RestOfList ==
  ASSUME TypeOK, NEW t, Contains(list, t)
  PROVE  LET w == Where(t)
             rest == RemoveAt(list, w)
         IN  /\ w \in 1 .. Len(list) /\ list[w] = t
             /\ rest \in Seq(Timers) /\ Len(rest) = Len(list) - 1
             /\ \A i \in 1 .. Len(list) - 1 :
                  rest[i] = IF i < w THEN list[i] ELSE list[i + 1]
  <1> DEFINE w == Where(t)
             before == SubSeq(list, 1, w - 1)
             after == SubSeq(list, w + 1, Len(list))
             rest == before \o after
  <1>1. Len(list) \in Nat /\ w \in 1 .. Len(list) /\ list[w] = t
    BY WhereInList, ListFacts
  <1>2. RemoveAt(list, w) = rest
    BY DEF RemoveAt
  <1> HIDE DEF w
  <1>3. /\ before \in Seq(Timers) /\ Len(before) = w - 1
        /\ \A i \in 1 .. w - 1 : before[i] = list[i]
    <2>1. 1 \in Int /\ w - 1 \in Int /\ \A i \in 1 .. w - 1 : list[i] \in Timers
      BY <1>1, ListFacts
    <2>2. /\ before \in Seq(Timers)
          /\ Len(before) = IF 1 <= w - 1 THEN w - 1 - 1 + 1 ELSE 0
          /\ \A i \in 1 .. w - 1 - 1 + 1 : before[i] = list[1 + i - 1]
      BY <2>1, SubSeqProperties
    <2> HIDE DEF before
    <2> QED BY <1>1, <2>2
  <1>4. /\ after \in Seq(Timers) /\ Len(after) = Len(list) - w
        /\ \A i \in 1 .. Len(list) - w : after[i] = list[w + i]
    <2>1. /\ w + 1 \in Int /\ Len(list) \in Int
          /\ \A i \in w + 1 .. Len(list) : list[i] \in Timers
      BY <1>1, ListFacts
    <2>2. /\ after \in Seq(Timers)
          /\ Len(after) =
               IF w + 1 <= Len(list) THEN Len(list) - (w + 1) + 1 ELSE 0
          /\ \A i \in 1 .. Len(list) - (w + 1) + 1 :
               after[i] = list[w + 1 + i - 1]
      BY <2>1, SubSeqProperties
    <2> HIDE DEF after
    <2> QED BY <1>1, <2>2
  <1> HIDE DEF before, after
  <1>5. /\ rest \in Seq(Timers) /\ Len(rest) = Len(before) + Len(after)
        /\ \A i \in 1 .. Len(before) + Len(after) :
             rest[i] = IF i <= Len(before) THEN before[i]
                       ELSE after[i - Len(before)]
    BY <1>3, <1>4, ConcatProperties
  <1> HIDE DEF rest
  <1>6. ASSUME NEW i \in 1 .. Len(list) - 1
        PROVE  rest[i] = IF i < w THEN list[i] ELSE list[i + 1]
    <2>1. CASE i < w
      <3>1. /\ i \in 1 .. w - 1 /\ i <= Len(before)
            /\ i \in 1 .. Len(before) + Len(after)
        BY <1>1, <1>3, <1>4, <2>1
      <3> QED BY <1>3, <1>5, <2>1, <3>1
    <2>2. CASE i >= w
      <3>1. /\ i - (w - 1) \in 1 .. Len(list) - w /\ w + (i - (w - 1)) = i + 1
            /\ ~(i <= w - 1) /\ ~(i < w)
        BY <1>1, <2>2
      <3>2. i \in 1 .. Len(before) + Len(after)
        BY <1>1, <1>3, <1>4
      <3>3. rest[i] = after[i - (w - 1)]
        BY <1>3, <1>5, <3>1, <3>2
      <3>4. after[i - (w - 1)] = list[i + 1]
        BY <1>4, <3>1
      <3> QED BY <3>1, <3>3, <3>4
    <2> QED BY <1>1, <2>1, <2>2
  <1> QED BY <1>1, <1>2, <1>3, <1>4, <1>5, <1>6 DEF w

\* Removing a timer leaves a list of timers with every other one in it.
LEMMA RemoveOne ==
  ASSUME TypeOK, NEW t, \E i \in DOMAIN list : list[i] = t
  PROVE  /\ RemoveAt(list, Where(t)) \in Seq(Timers)
         /\ \A u : u # t /\ (\E i \in DOMAIN list : list[i] = u) =>
              \E i \in DOMAIN RemoveAt(list, Where(t)) :
                RemoveAt(list, Where(t))[i] = u
  <1> DEFINE w == Where(t)
             rest == RemoveAt(list, w)
  <1>1. /\ w \in 1 .. Len(list) /\ list[w] = t /\ Len(list) \in Nat
        /\ DOMAIN list = 1 .. Len(list)
        /\ rest \in Seq(Timers) /\ Len(rest) = Len(list) - 1
        /\ \A i \in 1 .. Len(list) - 1 :
             rest[i] = IF i < w THEN list[i] ELSE list[i + 1]
    BY RestOfList, ListFacts DEF Contains
  <1> HIDE DEF w, rest
  <1>2. DOMAIN rest = 1 .. Len(list) - 1
    BY <1>1, LenProperties
  <1>3. ASSUME NEW i \in 1 .. Len(list), i # w
        PROVE  \E k \in 1 .. Len(list) - 1 : rest[k] = list[i]
    <2>1. CASE i < w
      BY <1>1, <1>3, <2>1
    <2>2. CASE i > w
      <3>1. i - 1 \in 1 .. Len(list) - 1 /\ ~(i - 1 < w) /\ i - 1 + 1 = i
        BY <1>1, <2>2
      <3> QED BY <1>1, <3>1
    <2> QED BY <1>1, <1>3, <2>1, <2>2
  <1> QED BY <1>1, <1>2, <1>3 DEF w, rest

-----------------------------------------------------------------------------
(* Steps that several actions share *)

HwRecord == [on : BOOLEAN, count : 0 .. MaxTimeout, match : 0 .. MaxTimeout]

LEMMA TimerHasFields ==
  ASSUME TypeOK, NEW t \in Timers
  PROVE  /\ timer[t] \in TimerRecord /\ timer[t].mode \in Modes
         /\ timer[t].timeout \in Nat /\ timer[t].remaining \in Nat
  <1>1. timer[t] \in TimerRecord
    BY DEF TypeOK, TimerRecord
  <1> QED BY <1>1 DEF TimerRecord

LEMMA BoundIsNat == MaxTimeout \in Nat /\ 1 \in 0 .. MaxTimeout
                    /\ 0 \in 0 .. MaxTimeout
  BY TimerAssumption

LEMMA StopsCounter ==
  ASSUME TypeOK, NEW t, CounterWithout(t)
  PROVE  counts' = CountsWithout(t) /\ running' \in BOOLEAN /\ hw' \in HwRecord
  <1>1. [hw EXCEPT !.on = FALSE] \in HwRecord
    BY DEF TypeOK, HwRecord
  <1>2. running' \in {FALSE, running} /\ hw' \in {hw, [hw EXCEPT !.on = FALSE]}
    BY DEF CounterWithout
  <1> QED BY <1>1, <1>2 DEF TypeOK, HwRecord, CounterWithout

LEMMA GoesOn ==
  ASSUME NEW u \in Timers \cup {NoTimer}, Goes(u)
  PROVE  /\ at' \in Timers \cup {NoTimer} /\ taskPc' \in {"visit", "program"}
         /\ VisitsTimer'
  BY TimerAssumption DEF Goes, VisitsTimer

LEMMA LoweredType ==
  ASSUME TypeOK, NEW n \in Nat
  PROVE  Lowered(n) \in 0 .. MaxTimeout
  BY BoundIsNat DEF Lowered, TypeOK

LEMMA PostedType ==
  ASSUME TypeOK PROVE Posted \in 0 .. QueueSize
  BY TimerAssumption DEF TypeOK, Posted

LEMMA WithStatus ==
  ASSUME NEW r \in TimerRecord,
         NEW s \in {"free", "inactive", "ready", "active"}
  PROVE  LET q == [r EXCEPT !.status = s]
         IN  q \in TimerRecord /\ q.status = s /\ q.mode = r.mode
  BY DEF TimerRecord

LEMMA WithRemaining ==
  ASSUME NEW r \in TimerRecord, NEW n \in Nat
  PROVE  LET q == [r EXCEPT !.remaining = n]
         IN  /\ q \in TimerRecord
             /\ q.status = r.status /\ q.mode = r.mode
  BY DEF TimerRecord

\* A timer whose state a step sets, with the status it had or another.
LEMMA SetTimer ==
  ASSUME TypeOK, NEW t \in Timers, NEW r \in TimerRecord,
         timer' = [timer EXCEPT ![t] = r]
  PROVE  /\ timer' \in [Timers -> TimerRecord] /\ timer'[t] = r
         /\ \A u \in Timers \ {t} : timer'[u] = timer[u]
         /\ SameOn(timer, timer', Timers \ {t})
  BY DEF TypeOK, TimerRecord, SameOn

\* Opened timers stay in the list that a step leaves alone.
LEMMA StillListed ==
  ASSUME Listed, list' = list,
         \A t \in Timers : timer'[t].status = "free" <=> timer[t].status = "free"
  PROVE  Listed'
  BY DEF Listed

\* After TM_Init no timer is on and nothing is counted.
LEMMA TimerInit == Init => TimerInv
  <1> SUFFICES ASSUME Init PROVE TimerInv
    OBVIOUS
  <1>1. Free \in TimerRecord /\ Free.status = "free"
    BY BoundIsNat DEF Free, TimerRecord, Modes
  <1>2. timer \in [Timers -> TimerRecord]
        /\ \A t \in Timers : timer[t].status = "free"
    BY <1>1 DEF Init
  <1>3. \A b \in BOOLEAN : counts[b] = Cardinality(Counting(timer, b))
    <2>1. \A b \in BOOLEAN : Counting(timer, b) = {}
      BY <1>2 DEF Counting, On
    <2> QED BY <2>1, FS_EmptySet DEF Init
  <1>4. CountsExact
    BY <1>3, ExactCounts
  <1>5. hw \in HwRecord /\ interval \in 0 .. MaxTimeout
        /\ programmed \in 0 .. MaxTimeout
    BY BoundIsNat DEF Init, HwRecord
  <1>6. posted \in 0 .. QueueSize /\ counts \in [BOOLEAN -> Nat]
    BY TimerAssumption DEF Init
  <1>7. list \in Seq(Timers) /\ left \in [Timers -> Timers \cup {NoTimer}]
        /\ starting \subseteq Timers
    BY EmptySeq DEF Init
  <1>8. TypeOK
    BY <1>2, <1>5, <1>6, <1>7 DEF Init, TypeOK, TimerRecord, HwRecord
  <1>9. StartingIsOff /\ Listed /\ VisitsTimer
    BY <1>2 DEF Init, StartingIsOff, Listed, VisitsTimer
  <1> QED BY <1>4, <1>8, <1>9 DEF TimerInv

-----------------------------------------------------------------------------
(* The counter, its interrupt, and the application's calls *)

LEMMA TickKeeps ==
  ASSUME TimerInv, Tick PROVE TimerInv'
  <1>1. Counted \in HwRecord
    <2>1. hw \in HwRecord /\ hw.count \in Nat
      BY BoundIsNat DEF TimerInv, TypeOK, HwRecord
    <2>2. (IF hw.count + 1 = hw.match THEN 0
           ELSE IF hw.count < MaxTimeout THEN hw.count + 1 ELSE hw.count)
             \in 0 .. MaxTimeout
      BY <2>1, BoundIsNat DEF HwRecord
    <2>3. \A n \in 0 .. MaxTimeout : [hw EXCEPT !.count = n] \in HwRecord
      BY <2>1 DEF HwRecord
    <2> QED BY <2>1, <2>2, <2>3 DEF Counted
  <1>2. irq' \in BOOLEAN
    BY DEF Tick, TimerInv, TypeOK
  <1>3. CountsExact' /\ counts' \in [BOOLEAN -> Nat]
    BY OthersKeepCount DEF Tick, TimerInv, SameOn
  <1>4. TypeOK'
    BY <1>1, <1>2, <1>3 DEF Tick, TimerInv, TypeOK, task, HwRecord
  <1>5. StartingIsOff' /\ Listed' /\ VisitsTimer'
    BY DEF Tick, TimerInv, StartingIsOff, Listed, VisitsTimer, task
  <1> QED BY <1>3, <1>4, <1>5 DEF TimerInv

LEMMA InterruptKeeps ==
  ASSUME TimerInv, HalTimerCallback PROVE TimerInv'
  <1>1. ASSUME NEW t \in Timers PROVE Reduced(t) \in Nat
    <2>1. /\ timer[t].remaining \in Nat
          /\ interval \in 0 .. MaxTimeout /\ MaxTimeout \in Nat
      BY TimerHasFields, BoundIsNat DEF TimerInv, TypeOK
    <2> QED BY <2>1 DEF Reduced
  <1>4. ASSUME NEW t \in Timers
        PROVE  /\ timer'[t] \in TimerRecord
               /\ timer'[t].status = timer[t].status
               /\ timer'[t].mode = timer[t].mode
    <2> DEFINE r == [timer[t] EXCEPT !.remaining = Reduced(t)]
    <2>1. /\ timer[t] \in TimerRecord /\ r \in TimerRecord
          /\ r.status = timer[t].status /\ r.mode = timer[t].mode
      BY <1>1, TimerHasFields, WithRemaining DEF TimerInv
    <2>2. timer'[t] = IF timer[t].status = "active" THEN r ELSE timer[t]
      BY DEF HalTimerCallback
    <2> HIDE DEF r
    <2> QED BY <2>1, <2>2
  <1>5. timer' \in [Timers -> TimerRecord]
    BY <1>4 DEF HalTimerCallback
  <1>6. CountsExact' /\ counts' \in [BOOLEAN -> Nat]
    BY <1>4, OthersKeepCount DEF HalTimerCallback, TimerInv, SameOn
  <1>7. posted' \in 0 .. QueueSize
    BY PostedType DEF HalTimerCallback, TimerInv
  <1>8. TypeOK'
    BY <1>5, <1>6, <1>7
    DEF HalTimerCallback, TimerInv, TypeOK, TimerRecord, task
  <1>9. StartingIsOff' /\ Listed' /\ VisitsTimer'
    <2>1. StartingIsOff'
      BY <1>4 DEF HalTimerCallback, TimerInv, TypeOK, StartingIsOff
    <2>2. Listed'
      BY <1>4, StillListed DEF HalTimerCallback, TimerInv
    <2>3. VisitsTimer'
      BY DEF HalTimerCallback, TimerInv, VisitsTimer, task
    <2> QED BY <2>1, <2>2, <2>3
  <1> QED BY <1>6, <1>8, <1>9 DEF TimerInv

LEMMA OpenKeeps ==
  ASSUME TimerInv, NEW t \in Timers, Open(t) PROVE TimerInv'
  <1> DEFINE r == [timer[t] EXCEPT !.status = "inactive"]
  <1>1. r \in TimerRecord /\ r.status = "inactive" /\ r.mode = timer[t].mode
    BY TimerHasFields, WithStatus DEF TimerInv
  <1>2. timer' = [timer EXCEPT ![t] = r]
    BY DEF Open, TimerInv, TypeOK
  <1> HIDE DEF r
  <1>3. /\ timer' \in [Timers -> TimerRecord] /\ timer'[t] = r
        /\ \A u \in Timers \ {t} : timer'[u] = timer[u]
    BY <1>1, <1>2, SetTimer DEF TimerInv
  <1>4. SameOn(timer, timer', Timers)
    BY <1>1, <1>3 DEF SameOn, Open, On
  <1>5. CountsExact' /\ counts' \in [BOOLEAN -> Nat]
    BY <1>4, OthersKeepCount DEF TimerInv, Open
  <1>6. /\ list' \in Seq(Timers) /\ Len(list) \in Nat
        /\ DOMAIN list = 1 .. Len(list) /\ DOMAIN list' = 1 .. Len(list) + 1
        /\ \A i \in 1 .. Len(list) : list'[i] = list[i]
        /\ list'[Len(list) + 1] = t
    BY AppendProperties, LenProperties DEF Open, TimerInv, TypeOK
  <1>7. TypeOK'
    BY <1>3, <1>5, <1>6 DEF Open, TimerInv, TypeOK, TimerRecord, task
  <1>8. StartingIsOff'
    BY <1>1, <1>3 DEF Open, TimerInv, TypeOK, StartingIsOff
  <1>9. Listed'
    <2> SUFFICES ASSUME NEW u \in Timers, timer'[u].status # "free"
                 PROVE  \E i \in DOMAIN list' : list'[i] = u
      BY DEF Listed
    <2>1. CASE u = t
      BY <2>1, <1>6
    <2>2. CASE u # t
      <3>1. PICK i \in DOMAIN list : list[i] = u
        BY <2>2, <1>3 DEF TimerInv, Listed
      <3> QED BY <3>1, <1>6
    <2> QED BY <2>1, <2>2
  <1>10. VisitsTimer'
    BY DEF Open, TimerInv, VisitsTimer, task
  <1> QED BY <1>5, <1>7, <1>8, <1>9, <1>10 DEF TimerInv

\* TM_Stop, TM_Start up to TimerEnable, and a timer that expires for good: the
\* timer is off and its counter goes with it.
LEMMA StoppingKeeps ==
  ASSUME TypeOK, CountsExact, StartingIsOff, Listed,
         NEW t \in Timers, NEW r \in TimerRecord, r.status = "inactive",
         timer[t].status # "free", CounterWithout(t),
         timer' = [timer EXCEPT ![t] = r], list' = list,
         starting' \subseteq starting \cup {t}
  PROVE  /\ timer' \in [Timers -> TimerRecord] /\ CountsExact'
         /\ counts' \in [BOOLEAN -> Nat] /\ StartingIsOff' /\ Listed'
         /\ running' \in BOOLEAN /\ hw' \in HwRecord
  <1>1. /\ timer' \in [Timers -> TimerRecord] /\ timer'[t] = r
        /\ \A u \in Timers \ {t} : timer'[u] = timer[u]
        /\ SameOn(timer, timer', Timers \ {t})
    BY SetTimer
  <1>2. counts' = CountsWithout(t) /\ running' \in BOOLEAN /\ hw' \in HwRecord
    BY StopsCounter
  <1>3. CountsExact' /\ counts' \in [BOOLEAN -> Nat]
    BY <1>1, <1>2, StopKeepsCount DEF On
  <1>4. StartingIsOff'
    BY <1>1 DEF StartingIsOff, TypeOK
  <1>5. Listed'
    BY <1>1, StillListed
  <1> QED BY <1>1, <1>2, <1>3, <1>4, <1>5

LEMMA StopKeeps ==
  ASSUME TimerInv, NEW t \in Timers, Stop(t) PROVE TimerInv'
  <1> DEFINE r == [timer[t] EXCEPT !.status = "inactive"]
  <1>1. r \in TimerRecord /\ r.status = "inactive" /\ timer[t].status # "free"
    BY TimerHasFields, WithStatus DEF TimerInv, Stop, IsOn
  <1>2. timer' = [timer EXCEPT ![t] = r] /\ list' = list
        /\ starting' \subseteq starting \cup {t} /\ CounterWithout(t)
    BY DEF Stop, TimerInv, TypeOK
  <1> HIDE DEF r
  <1>3. /\ timer' \in [Timers -> TimerRecord] /\ CountsExact'
        /\ counts' \in [BOOLEAN -> Nat] /\ StartingIsOff' /\ Listed'
        /\ running' \in BOOLEAN /\ hw' \in HwRecord
    BY <1>1, <1>2, StoppingKeeps DEF TimerInv
  <1>4. TypeOK'
    BY <1>3 DEF Stop, TimerInv, TypeOK, TimerRecord, HwRecord, task
  <1>5. VisitsTimer'
    BY DEF Stop, TimerInv, VisitsTimer, task
  <1> QED BY <1>3, <1>4, <1>5 DEF TimerInv

LEMMA StartKeeps ==
  ASSUME TimerInv, NEW t \in Timers, NEW use \in Uses[t], Start(t, use)
  PROVE  TimerInv'
  <1> DEFINE r == [status |-> "inactive", mode |-> use.mode,
                   timeout |-> use.timeout, remaining |-> use.timeout]
  <1>1. r \in TimerRecord /\ r.status = "inactive"
    <2>1. use \in [mode : Modes, timeout : Nat \ {0}]
      BY TimerAssumption
    <2> QED BY <2>1, BoundIsNat DEF TimerRecord
  <1>2. /\ timer' = [timer EXCEPT ![t] = r] /\ list' = list
        /\ starting' \subseteq starting \cup {t} /\ CounterWithout(t)
        /\ timer[t].status # "free"
    BY DEF Start
  <1> HIDE DEF r
  <1>3. /\ timer' \in [Timers -> TimerRecord] /\ CountsExact'
        /\ counts' \in [BOOLEAN -> Nat] /\ StartingIsOff' /\ Listed'
        /\ running' \in BOOLEAN /\ hw' \in HwRecord
    BY <1>1, <1>2, StoppingKeeps DEF TimerInv
  <1>4. starting' \subseteq Timers
    BY DEF Start, TimerInv, TypeOK
  <1>5. TypeOK'
    BY <1>3, <1>4 DEF Start, TimerInv, TypeOK, TimerRecord, HwRecord, task
  <1>6. VisitsTimer'
    BY DEF Start, TimerInv, VisitsTimer, task
  <1> QED BY <1>3, <1>5, <1>6 DEF TimerInv

LEMMA TimerEnableKeeps ==
  ASSUME TimerInv, NEW t \in Timers, TimerEnable(t) PROVE TimerInv'
  <1> DEFINE r == [timer[t] EXCEPT !.status = "ready"]
  <1>1. r \in TimerRecord /\ r.status = "ready" /\ r.mode = timer[t].mode
    BY TimerHasFields, WithStatus DEF TimerInv
  <1>2. timer' = [timer EXCEPT ![t] = r] /\ timer[t].status = "inactive"
    BY DEF TimerEnable, TimerInv, TypeOK, StartingIsOff
  <1> HIDE DEF r
  <1>3. /\ timer' \in [Timers -> TimerRecord] /\ timer'[t] = r
        /\ \A u \in Timers \ {t} : timer'[u] = timer[u]
        /\ SameOn(timer, timer', Timers \ {t})
    BY <1>1, <1>2, SetTimer DEF TimerInv
  <1>4. CountsExact' /\ counts' \in [BOOLEAN -> Nat]
    <2>1. timer[t].status \notin On /\ timer'[t].status \in On
          /\ timer'[t].mode = timer[t].mode
      BY <1>1, <1>2, <1>3 DEF On
    <2>2. counts' = [counts EXCEPT ![timer[t].mode.lowPower] = @ + 1]
      BY DEF TimerEnable
    <2> QED BY <1>3, <2>1, <2>2, StartKeepsCount DEF TimerInv
  <1>5. posted' \in 0 .. QueueSize
    BY PostedType DEF TimerEnable, TimerInv
  <1>6. TypeOK'
    BY <1>3, <1>4, <1>5
    DEF TimerEnable, TimerInv, TypeOK, TimerRecord, task
  <1>7. StartingIsOff'
    BY <1>3 DEF TimerEnable, TimerInv, TypeOK, StartingIsOff
  <1>8. Listed'
    BY <1>1, <1>2, <1>3, StillListed DEF TimerEnable, TimerInv
  <1>9. VisitsTimer'
    BY DEF TimerEnable, TimerInv, VisitsTimer, task
  <1> QED BY <1>4, <1>6, <1>7, <1>8, <1>9 DEF TimerInv

LEMMA CloseKeeps ==
  ASSUME TimerInv, NEW t \in Timers, Close(t) PROVE TimerInv'
  <1> DEFINE r == [timer[t] EXCEPT !.status = "free", !.mode = Free.mode]
  <1>1. r \in TimerRecord /\ r.status = "free"
    <2>1. timer[t] \in TimerRecord /\ Free.mode \in Modes
      BY TimerHasFields DEF TimerInv, Free, Modes
    <2> QED BY <2>1 DEF TimerRecord
  <1>2. timer' = [timer EXCEPT ![t] = r] /\ timer[t].status # "free"
    BY DEF Close, TimerInv, TypeOK
  <1> HIDE DEF r
  <1>3. /\ timer' \in [Timers -> TimerRecord] /\ timer'[t] = r
        /\ \A u \in Timers \ {t} : timer'[u] = timer[u]
        /\ SameOn(timer, timer', Timers \ {t})
    BY <1>1, <1>2, SetTimer DEF TimerInv
  <1>4. counts' = CountsWithout(t) /\ running' \in BOOLEAN /\ hw' \in HwRecord
    BY StopsCounter DEF Close, TimerInv
  <1>5. CountsExact' /\ counts' \in [BOOLEAN -> Nat]
    BY <1>1, <1>3, <1>4, StopKeepsCount DEF TimerInv, On
  <1>6. \E i \in DOMAIN list : list[i] = t
    BY <1>2 DEF TimerInv, Listed
  <1>7. /\ list' \in Seq(Timers)
        /\ \A u : u # t /\ (\E i \in DOMAIN list : list[i] = u) =>
             \E i \in DOMAIN list' : list'[i] = u
    BY <1>6, RemoveOne DEF TimerInv, Close
  <1>8. left' \in [Timers -> Timers \cup {NoTimer}]
    BY AfterType DEF Close, TimerInv, TypeOK
  <1>9. TypeOK'
    BY <1>3, <1>4, <1>5, <1>7, <1>8
    DEF Close, TimerInv, TypeOK, TimerRecord, HwRecord, task
  <1>10. StartingIsOff'
    BY <1>3 DEF Close, Operates, TimerInv, TypeOK, StartingIsOff
  <1>11. Listed'
    BY <1>1, <1>3, <1>7 DEF TimerInv, Listed
  <1>12. VisitsTimer'
    BY DEF Close, TimerInv, VisitsTimer, task
  <1> QED BY <1>5, <1>9, <1>10, <1>11, <1>12 DEF TimerInv

-----------------------------------------------------------------------------
(* TimerManagerTask *)

\* A step that leaves the timers' states and counters alone.
LEMMA WalkKeeps ==
  ASSUME TimerInv, UNCHANGED <<list, left, timer, starting, counts, running>>,
         interval' \in 0 .. MaxTimeout, hw' \in HwRecord, irq' \in BOOLEAN,
         posted' \in 0 .. QueueSize, programmed' \in 0 .. MaxTimeout,
         wasActive' \in BOOLEAN, at' \in Timers \cup {NoTimer},
         taskPc' \in {"visit", "program"}, VisitsTimer'
  PROVE  TimerInv'
  <1>1. CountsExact'
    BY OthersKeepCount DEF TimerInv, SameOn
  <1>2. TypeOK' /\ StartingIsOff' /\ Listed'
    BY DEF TimerInv, TypeOK, StartingIsOff, Listed, HwRecord
  <1> QED BY <1>1, <1>2 DEF TimerInv

LEMMA BeginKeeps ==
  ASSUME TimerInv, Begin PROVE TimerInv'
  <1> DEFINE u == IF list = <<>> THEN NoTimer ELSE Head(list)
  <1>1. u \in Timers \cup {NoTimer}
    BY HeadTailProperties DEF TimerInv, TypeOK
  <1>2. Goes(u)
    BY DEF Begin
  <1> HIDE DEF u
  <1>3. at' \in Timers \cup {NoTimer} /\ taskPc' \in {"visit", "program"}
        /\ VisitsTimer'
    BY <1>1, <1>2, GoesOn
  <1>4. posted' \in 0 .. QueueSize /\ interval' \in 0 .. MaxTimeout
    BY TimerAssumption DEF Begin, TimerInv, TypeOK
  <1>5. hw' \in HwRecord /\ irq' \in BOOLEAN /\ wasActive' \in BOOLEAN
        /\ programmed' \in 0 .. MaxTimeout
    BY DEF Begin, TimerInv, TypeOK, HwRecord
  <1> QED BY <1>3, <1>4, <1>5, WalkKeeps DEF Begin

LEMMA PassKeeps ==
  ASSUME TimerInv, CallbackReturns \/ Pass PROVE TimerInv'
  <1>1. at \in Timers /\ timer[at].remaining \in Nat
    <2>1. at \in Timers
      BY DEF TimerInv, VisitsTimer, CallbackReturns, Pass
    <2> QED BY <2>1, TimerHasFields DEF TimerInv
  <1>2. interval' \in 0 .. MaxTimeout
    <2>1. interval \in 0 .. MaxTimeout
          /\ Lowered(timer[at].remaining) \in 0 .. MaxTimeout
      BY <1>1, LoweredType DEF TimerInv, TypeOK
    <2>2. interval' \in {interval, Lowered(timer[at].remaining)}
      BY DEF CallbackReturns, Pass
    <2> QED BY <2>1, <2>2
  <1>3. at' \in Timers \cup {NoTimer} /\ taskPc' \in {"visit", "program"}
        /\ VisitsTimer'
    BY <1>1, AfterType, GoesOn DEF TimerInv, CallbackReturns, Pass
  <1>4. /\ hw' \in HwRecord /\ irq' \in BOOLEAN /\ wasActive' \in BOOLEAN
        /\ programmed' \in 0 .. MaxTimeout /\ posted' \in 0 .. QueueSize
    BY DEF CallbackReturns, Pass, TimerInv, TypeOK, HwRecord
  <1> QED BY <1>2, <1>3, <1>4, WalkKeeps DEF CallbackReturns, Pass

LEMMA ActivateKeeps ==
  ASSUME TimerInv, Activate PROVE TimerInv'
  <1> DEFINE r == [timer[at] EXCEPT !.status = "active"]
  <1>1. at \in Timers /\ timer[at].timeout \in Nat
    <2>1. at \in Timers
      BY DEF TimerInv, VisitsTimer, Activate
    <2> QED BY <2>1, TimerHasFields DEF TimerInv
  <1>2. r \in TimerRecord /\ r.status = "active" /\ r.mode = timer[at].mode
    BY <1>1, TimerHasFields, WithStatus DEF TimerInv
  <1>3. timer' = [timer EXCEPT ![at] = r] /\ timer[at].status = "ready"
    BY <1>1 DEF Activate, TimerInv, TypeOK
  <1> HIDE DEF r
  <1>4. /\ timer' \in [Timers -> TimerRecord] /\ timer'[at] = r
        /\ \A u \in Timers \ {at} : timer'[u] = timer[u]
    BY <1>1, <1>2, <1>3, SetTimer DEF TimerInv
  <1>5. SameOn(timer, timer', Timers)
    BY <1>1, <1>2, <1>3, <1>4 DEF SameOn, On
  <1>6. CountsExact' /\ counts' \in [BOOLEAN -> Nat]
    BY <1>5, OthersKeepCount DEF TimerInv, Activate
  <1>7. interval' \in 0 .. MaxTimeout
    BY <1>1, LoweredType DEF TimerInv, Activate
  <1>8. at' \in Timers \cup {NoTimer} /\ taskPc' \in {"visit", "program"}
        /\ VisitsTimer'
    BY <1>1, AfterType, GoesOn DEF TimerInv, Activate
  <1>9. irq' \in BOOLEAN /\ wasActive' \in BOOLEAN
    BY DEF Activate, TimerInv, TypeOK
  <1>10. TypeOK'
    BY <1>4, <1>6, <1>7, <1>8, <1>9
    DEF Activate, TimerInv, TypeOK, TimerRecord
  <1>11. StartingIsOff'
    BY <1>1, <1>3, <1>4 DEF Activate, TimerInv, TypeOK, StartingIsOff
  <1>12. Listed'
    BY <1>1, <1>2, <1>3, <1>4, StillListed DEF Activate, TimerInv
  <1> QED BY <1>6, <1>8, <1>10, <1>11, <1>12 DEF TimerInv

LEMMA ExpireKeeps ==
  ASSUME TimerInv, Expire PROVE TimerInv'
  <1>1. at \in Timers /\ timer[at].mode.repeats \in BOOLEAN
        /\ timer[at].status = "active"
    <2>1. at \in Timers /\ timer[at].status = "active"
      BY DEF TimerInv, VisitsTimer, Expire
    <2> QED BY <2>1, TimerHasFields DEF TimerInv, Modes
  <1>2. /\ timer' \in [Timers -> TimerRecord] /\ CountsExact'
        /\ counts' \in [BOOLEAN -> Nat] /\ StartingIsOff' /\ Listed'
        /\ running' \in BOOLEAN /\ hw' \in HwRecord
    <2>1. CASE timer[at].mode.repeats
      <3> DEFINE r == [timer[at] EXCEPT !.remaining = timer[at].timeout]
      <3>1. r \in TimerRecord /\ r.status = "active" /\ r.mode = timer[at].mode
        BY <1>1, TimerHasFields, WithRemaining DEF TimerInv
      <3>2. timer' = [timer EXCEPT ![at] = r]
            /\ UNCHANGED <<counts, running, hw>>
        BY <1>1, <2>1 DEF Expire, TimerInv, TypeOK
      <3> HIDE DEF r
      <3>3. /\ timer' \in [Timers -> TimerRecord] /\ timer'[at] = r
            /\ \A u \in Timers \ {at} : timer'[u] = timer[u]
        BY <1>1, <3>1, <3>2, SetTimer DEF TimerInv
      <3>4. SameOn(timer, timer', Timers)
        BY <1>1, <3>1, <3>3 DEF SameOn, On
      <3>5. CountsExact' /\ counts' \in [BOOLEAN -> Nat]
        BY <3>2, <3>4, OthersKeepCount DEF TimerInv
      <3>6. StartingIsOff'
        BY <1>1, <3>3 DEF Expire, TimerInv, TypeOK, StartingIsOff
      <3>7. Listed'
        BY <1>1, <3>1, <3>3, StillListed DEF Expire, TimerInv
      <3>8. running' \in BOOLEAN /\ hw' \in HwRecord
        BY <3>2 DEF TimerInv, TypeOK, HwRecord
      <3> QED BY <3>3, <3>5, <3>6, <3>7, <3>8
    <2>2. CASE ~timer[at].mode.repeats
      <3> DEFINE r == [timer[at] EXCEPT !.status = "inactive"]
      <3>1. r \in TimerRecord /\ r.status = "inactive"
            /\ timer[at].status # "free"
        BY <1>1, TimerHasFields, WithStatus DEF TimerInv
      <3>2. /\ timer' = [timer EXCEPT ![at] = r] /\ CounterWithout(at)
            /\ list' = list /\ starting' \subseteq starting \cup {at}
        BY <1>1, <2>2 DEF Expire, TimerInv, TypeOK
      <3> HIDE DEF r
      <3> QED BY <1>1, <3>1, <3>2, StoppingKeeps DEF TimerInv
    <2> QED BY <1>1, <2>1, <2>2
  <1>3. irq' \in BOOLEAN /\ wasActive' \in BOOLEAN
    BY <1>1 DEF Expire, TimerInv, TypeOK
  <1>4. TypeOK'
    BY <1>1, <1>2, <1>3 DEF Expire, TimerInv, TypeOK, TimerRecord, HwRecord
  <1>5. VisitsTimer'
    BY <1>1 DEF Expire, VisitsTimer
  <1> QED BY <1>2, <1>4, <1>5 DEF TimerInv

LEMMA ProgramKeeps ==
  ASSUME TimerInv, Program PROVE TimerInv'
  <1>1. running' \in BOOLEAN /\ irq' \in BOOLEAN
    <2>1. irq \in BOOLEAN /\ IrqOutlivesReset \in BOOLEAN
      BY TimerAssumption DEF TimerInv, TypeOK
    <2>2. irq' = irq \/ irq' = (irq /\ IrqOutlivesReset)
      BY DEF Program
    <2>3. running' = ~NoneOn(counts) /\ NoneOn(counts) \in BOOLEAN
      BY DEF Program, NoneOn
    <2> QED BY <2>1, <2>2, <2>3
  <1>2. interval \in 0 .. MaxTimeout /\ hw \in HwRecord
        /\ programmed \in 0 .. MaxTimeout
    BY DEF TimerInv, TypeOK, HwRecord
  <1>3. Restarted(interval) \in HwRecord
        /\ [hw EXCEPT !.on = FALSE] \in HwRecord
    BY <1>2, BoundIsNat DEF Restarted, HwRecord
  <1>4. hw' \in HwRecord /\ programmed' \in 0 .. MaxTimeout
    BY <1>2, <1>3 DEF Program
  <1>5. interval' \in 0 .. MaxTimeout
    BY <1>2, BoundIsNat DEF Program
  <1>6. CountsExact' /\ counts' \in [BOOLEAN -> Nat]
    BY OthersKeepCount DEF Program, TimerInv, SameOn
  <1>7. TypeOK'
    BY <1>1, <1>4, <1>5, <1>6 DEF Program, TimerInv, TypeOK, HwRecord
  <1>8. StartingIsOff' /\ Listed' /\ VisitsTimer'
    BY DEF Program, TimerInv, StartingIsOff, Listed, VisitsTimer
  <1> QED BY <1>6, <1>7, <1>8 DEF TimerInv

-----------------------------------------------------------------------------
(* Types and counters *)

LEMMA TimerNext == TimerInv /\ [Next]_vars => TimerInv'
  <1> SUFFICES ASSUME TimerInv, [Next]_vars PROVE TimerInv'
    OBVIOUS
  <1>1. CASE Tick \/ HalTimerCallback
    BY <1>1, TickKeeps, InterruptKeeps
  <1>2. CASE Task
    BY <1>2, BeginKeeps, ActivateKeeps, ExpireKeeps, PassKeeps, ProgramKeeps
    DEF Task
  <1>3. ASSUME NEW t \in Timers, Open(t) \/ Stop(t) \/ TimerEnable(t) \/ Close(t)
        PROVE  TimerInv'
    BY <1>3, OpenKeeps, StopKeeps, TimerEnableKeeps, CloseKeeps
  <1>4. ASSUME NEW t \in Timers, NEW use \in Uses[t], Start(t, use)
        PROVE  TimerInv'
    BY <1>4, StartKeeps
  <1>5. CASE UNCHANGED vars
    <2>1. CountsExact'
      BY <1>5, OthersKeepCount DEF TimerInv, SameOn, vars
    <2> QED
      BY <1>5, <2>1 DEF TimerInv, TypeOK, StartingIsOff, Listed, VisitsTimer,
                        vars, task
  <1> QED BY <1>1, <1>2, <1>3, <1>4, <1>5 DEF Next

\* The manager's state keeps its types: no counter of timers goes below zero,
\* the counter is never given an interval it cannot hold, whatever timeouts
\* the timers have, and the task only looks at timers.
THEOREM TimerTypeCorrect == Spec => []TypeOK
  <1>1. TimerInv => TypeOK
    BY DEF TimerInv
  <1> QED BY <1>1, TimerInit, TimerNext, PTL DEF Spec

\* However tasks start, stop and close timers between the steps of the timer
\* task, the counters that decide whether the hardware runs are exact.
THEOREM CountersFollowTimers == Spec => []CountsExact
  <1>1. TimerInv => CountsExact
    BY DEF TimerInv
  <1> QED BY <1>1, TimerInit, TimerNext, PTL DEF Spec

-----------------------------------------------------------------------------
(* The timers that the walk still comes to *)

\* Opened timers are in the list once, and no others.
ListOfOpened ==
  /\ \A i, j \in 1 .. Len(list) : list[i] = list[j] => i = j
  /\ \A i \in 1 .. Len(list) : timer[list[i]].status # "free"

\* Where the walk goes from an element of S stays in S, and from an element of
\* the list it goes through the rest of it.
Closed(S) ==
  /\ \A t \in S \cap Timers : ~Contains(list, t) => left[t] \in S
  /\ \A i, j \in 1 .. Len(list) : i <= j /\ list[i] \in S => list[j] \in S
Ahead(t) ==
  \A S \in SUBSET (Timers \cup {NoTimer}) : at \in S /\ Closed(S) => t \in S

\* Nothing is ahead at the end of the walk.
LEMMA NothingBeyondEnd ==
  ASSUME TypeOK, at = NoTimer, NEW t \in Timers
  PROVE  ~Ahead(t)
  <1>1. Closed({NoTimer})
    BY ListFacts DEF Closed
  <1> QED BY <1>1, ListFacts DEF Ahead

\* At its begin everything in the list is.
LEMMA AllAheadAtBegin ==
  ASSUME TypeOK, list' = list, NEW t, Contains(list, t), at' = Head(list)
  PROVE  Ahead(t)'
  <1>1. PICK i \in 1 .. Len(list) : list[i] = t
    BY DEF Contains
  <1>2. at' = list[1] /\ 1 \in 1 .. Len(list) /\ 1 <= i
    BY <1>1, ListFacts DEF TypeOK
  <1> QED BY <1>1, <1>2 DEF Ahead, Closed

\* A step of the walk leaves nothing behind but the element it looked at.
LEMMA AheadAfter ==
  ASSUME TypeOK, ListOfOpened, UNCHANGED <<list, left>>, at \in Timers,
         at' = After(at), NEW t, t # at, Ahead(t)
  PROVE  Ahead(t)'
  <1> SUFFICES ASSUME NEW S \in SUBSET (Timers \cup {NoTimer}),
                      at' \in S, Closed(S)
               PROVE  t \in S
    BY DEF Ahead, Closed
  <1>1. Closed(S \cup {at})
    <2>1. ASSUME ~Contains(list, at) PROVE left[at] \in S
      BY <2>1 DEF After
    <2>2. ASSUME NEW i \in 1 .. Len(list), NEW j \in 1 .. Len(list), i <= j,
                 list[i] = at
          PROVE  list[j] \in S \cup {at}
      <3>1. Contains(list, at) /\ i = Where(at)
        BY <2>2, WhereInList DEF Contains, ListOfOpened
      <3>2. CASE j > i
        <4>1. i + 1 \in 1 .. Len(list) /\ i + 1 <= j /\ at' = list[i + 1]
          BY <2>2, <3>1, <3>2, ListFacts DEF After
        <4> QED BY <4>1 DEF Closed
      <3> QED BY <2>2, <3>2, ListFacts
    <2> QED BY <2>1, <2>2 DEF Closed
  <1>2. S \cup {at} \in SUBSET (Timers \cup {NoTimer})
    OBVIOUS
  <1> QED BY <1>1, <1>2 DEF Ahead

\* A callback starts from an element of the list: what left it before does not
\* matter any more.
LEMMA AheadInCallback ==
  ASSUME TypeOK, Contains(list, at), UNCHANGED <<list, at>>,
         left' \in [Timers -> Timers \cup {NoTimer}], NEW t, Ahead(t)
  PROVE  Ahead(t)'
  <1> SUFFICES ASSUME NEW S \in SUBSET (Timers \cup {NoTimer}),
                      at \in S, Closed(S)'
               PROVE  t \in S
    BY DEF Ahead
  <1> DEFINE L == {s \in S : Contains(list, s)}
  <1>1. Closed(L)
    BY DEF Closed, Contains
  <1>2. at \in L /\ L \in SUBSET (Timers \cup {NoTimer})
    OBVIOUS
  <1> QED BY <1>1, <1>2 DEF Ahead

\* TM_Open appends a timer that is not in the list.
LEMMA AheadWhenOpened ==
  ASSUME TypeOK, NEW x \in Timers, ~Contains(list, x), left[x] = NoTimer,
         list' = Append(list, x), UNCHANGED <<left, at>>,
         NEW t \in Timers, Ahead(t)
  PROVE  Ahead(t)'
  <1> SUFFICES ASSUME NEW S \in SUBSET (Timers \cup {NoTimer}),
                      at \in S, Closed(S)'
               PROVE  t \in S
    BY DEF Ahead
  <1>1. /\ Len(list') = Len(list) + 1
        /\ \A i \in 1 .. Len(list) : list'[i] = list[i]
    BY AppendProperties DEF TypeOK
  <1>2. ASSUME NEW y \in S \cap Timers, ~Contains(list, y), y # x
        PROVE  left[y] \in S
    <2>1. ~Contains(list', y)
      <3> SUFFICES ASSUME NEW i \in 1 .. Len(list'), list'[i] = y PROVE FALSE
        BY DEF Contains
      <3>1. i \in 1 .. Len(list) \/ i = Len(list) + 1
        BY <1>1, ListFacts
      <3>2. list'[Len(list) + 1] = x
        BY AppendProperties DEF TypeOK
      <3> QED BY <1>1, <1>2, <3>1, <3>2 DEF Contains
    <2> QED BY <1>2, <2>1 DEF Closed
  <1>3. Closed(S \cup {NoTimer})
    <2>1. ASSUME NEW i \in 1 .. Len(list), NEW j \in 1 .. Len(list), i <= j,
                 list[i] \in S
          PROVE  list[j] \in S
      <3>1. /\ i \in 1 .. Len(list') /\ j \in 1 .. Len(list')
            /\ list'[i] = list[i] /\ list'[j] = list[j]
        BY <1>1, ListFacts
      <3> QED BY <2>1, <3>1 DEF Closed
    <2>2. \A i \in 1 .. Len(list) : list[i] # NoTimer
      BY ListFacts
    <2>3. \A y \in (S \cup {NoTimer}) \cap Timers : y \in S
      BY ListFacts
    <2> QED BY <1>2, <2>1, <2>2, <2>3 DEF Closed
  <1>4. S \cup {NoTimer} \in SUBSET (Timers \cup {NoTimer}) /\ t # NoTimer
    BY ListFacts
  <1> QED BY <1>3, <1>4 DEF Ahead

\* TM_Close takes a timer out of the list; its next leads where it led.
LEMMA AheadWhenClosed ==
  ASSUME TypeOK, ListOfOpened, NEW x \in Timers, Contains(list, x),
         list' = RemoveAt(list, Where(x)), left' = [left EXCEPT ![x] = After(x)],
         at' = at, NEW t \in Timers \ {x}, Ahead(t)
  PROVE  Ahead(t)'
  <1> SUFFICES ASSUME NEW S \in SUBSET (Timers \cup {NoTimer}),
                      at \in S, Closed(S)'
               PROVE  t \in S
    BY DEF Ahead
  <1> DEFINE w == Where(x)
  <1>1. /\ w \in 1 .. Len(list) /\ list[w] = x /\ Len(list) \in Nat
        /\ Len(list') = Len(list) - 1
        /\ \A i \in 1 .. Len(list) - 1 :
             list'[i] = IF i < w THEN list[i] ELSE list[i + 1]
    BY RestOfList, ListFacts
  <1> HIDE DEF w
  <1>2. /\ \A i \in 1 .. Len(list) : i < w =>
             i \in 1 .. Len(list') /\ list'[i] = list[i]
        /\ \A i \in 1 .. Len(list) : i > w =>
             i - 1 \in 1 .. Len(list') /\ list'[i - 1] = list[i]
    BY <1>1
  <1>3. ASSUME NEW y, Contains(list', y) PROVE Contains(list, y) /\ y # x
    <2>1. PICK i \in 1 .. Len(list') : list'[i] = y
      BY <1>3 DEF Contains
    <2>2. CASE i < w
      <3>1. i \in 1 .. Len(list) /\ list[i] = y /\ i # w
        BY <1>1, <2>1, <2>2
      <3> QED BY <1>1, <3>1 DEF Contains, ListOfOpened
    <2>3. CASE i >= w
      <3>1. i + 1 \in 1 .. Len(list) /\ list[i + 1] = y /\ i + 1 # w
        BY <1>1, <2>1, <2>3
      <3> QED BY <1>1, <3>1 DEF Contains, ListOfOpened
    <2> QED BY <1>1, <2>1, <2>2, <2>3
  <1>4. left'[x] = After(x) /\ \A y \in Timers \ {x} : left'[y] = left[y]
    BY ListFacts
  \* Everything behind x is in S, if S has x or an element before it.
  <1>5. ASSUME x \in S \/ \E i \in 1 .. Len(list) : i < w /\ list[i] \in S,
               NEW j \in 1 .. Len(list), j > w
        PROVE  list[j] \in S
    <2>1. CASE x \in S
      <3>1. left'[x] \in S
        BY <1>3, <2>1 DEF Closed
      <3>2. After(x) = list[w + 1] /\ w + 1 \in 1 .. Len(list) /\ w + 1 <= j
        BY <1>1, <1>5 DEF After, w
      <3>3. /\ w \in 1 .. Len(list') /\ list'[w] \in S
            /\ w <= j - 1 /\ j - 1 \in 1 .. Len(list')
        BY <1>1, <1>2, <1>4, <1>5, <3>1, <3>2
      <3>4. list'[j - 1] \in S
        BY <3>3 DEF Closed
      <3> QED BY <1>2, <1>5, <3>4
    <2>2. ASSUME NEW i \in 1 .. Len(list), i < w, list[i] \in S
          PROVE  list[j] \in S
      <3>1. /\ i \in 1 .. Len(list') /\ list'[i] \in S
            /\ i <= j - 1 /\ j - 1 \in 1 .. Len(list')
        BY <1>1, <1>2, <1>5, <2>2
      <3>2. list'[j - 1] \in S
        BY <3>1 DEF Closed
      <3> QED BY <1>2, <1>5, <3>2
    <2> QED BY <1>5, <2>1, <2>2
  <1>6. ASSUME NEW i \in 1 .. Len(list), NEW j \in 1 .. Len(list), i <= j,
               i # w, j # w, list[i] \in S
        PROVE  list[j] \in S
    <2>1. CASE i < w /\ j < w
      <3>1. /\ i \in 1 .. Len(list') /\ list'[i] \in S
            /\ j \in 1 .. Len(list')
        BY <1>2, <1>6, <2>1
      <3>2. list'[j] \in S
        BY <1>6, <3>1 DEF Closed
      <3> QED BY <1>2, <1>6, <2>1, <3>2
    <2>2. CASE i < w /\ j > w
      BY <1>5, <1>6, <2>2
    <2>3. CASE i > w
      <3>1. /\ i - 1 \in 1 .. Len(list') /\ list'[i - 1] \in S
            /\ j - 1 \in 1 .. Len(list') /\ i - 1 <= j - 1 /\ j > w
        BY <1>1, <1>2, <1>6, <2>3
      <3>2. list'[j - 1] \in S
        BY <3>1 DEF Closed
      <3> QED BY <1>2, <1>6, <3>1, <3>2
    <2> QED BY <1>1, <1>6, <2>1, <2>2, <2>3
  <1>7. ASSUME NEW y \in S \cap Timers, ~Contains(list, y) PROVE left[y] \in S
    <2>1. y # x
      BY <1>7
    <2> QED BY <1>3, <1>4, <1>7, <2>1 DEF Closed
  <1>8. CASE x \in S \/ \E i \in 1 .. Len(list) : i < w /\ list[i] \in S
    <2>1. Closed(S \cup {x})
      <3>1. ASSUME NEW i \in 1 .. Len(list), NEW j \in 1 .. Len(list), i <= j,
                   list[i] \in S \cup {x}
            PROVE  list[j] \in S \cup {x}
        <4>1. CASE j = w
          BY <1>1, <4>1
        <4>2. CASE j # w /\ i = w
          BY <1>1, <1>5, <1>8, <3>1, <4>2
        <4>3. CASE j # w /\ i # w
          <5>1. list[i] # x
            BY <1>1, <4>3 DEF ListOfOpened
          <5> QED BY <1>6, <3>1, <4>3, <5>1
        <4> QED BY <4>1, <4>2, <4>3
      <3>2. \A y \in (S \cup {x}) \cap Timers :
              ~Contains(list, y) => left[y] \in S \cup {x}
        BY <1>7
      <3> QED BY <3>1, <3>2 DEF Closed
    <2> QED BY <2>1 DEF Ahead
  <1>9. CASE ~(x \in S \/ \E i \in 1 .. Len(list) : i < w /\ list[i] \in S)
    <2>1. Closed(S)
      <3>1. ASSUME NEW i \in 1 .. Len(list), NEW j \in 1 .. Len(list), i <= j,
                   list[i] \in S
            PROVE  list[j] \in S
        <4>1. i > w
          BY <1>1, <1>9, <3>1
        <4> QED BY <1>1, <1>6, <3>1, <4>1
      <3> QED BY <1>7, <3>1 DEF Closed
    <2> QED BY <2>1 DEF Ahead
  <1> QED BY <1>8, <1>9

-----------------------------------------------------------------------------
(* What each step does to the timers *)

Others(t) == \A u \in Timers \ {t} : timer'[u] = timer[u]
SameTimes(t) == timer'[t].timeout = timer[t].timeout
                /\ timer'[t].remaining = timer[t].remaining

\* A step that sets the status of one timer and nothing else of it.
Sets(t, status) == timer'[t].status = status /\ SameTimes(t) /\ Others(t)

LEMMA SetsStatus ==
  ASSUME TypeOK, NEW t \in Timers, NEW s,
         timer' = [timer EXCEPT ![t].status = s]
  PROVE  Sets(t, s) /\ timer'[t].mode = timer[t].mode
  BY TimerHasFields DEF TypeOK, TimerRecord, Sets, SameTimes, Others

LEMMA CallEffects ==
  ASSUME TypeOK, NEW t \in Timers
  PROVE  /\ Open(t) => Sets(t, "inactive")
         /\ Stop(t) => Sets(t, "inactive")
         /\ TimerEnable(t) => Sets(t, "ready")
         /\ Close(t) => Sets(t, "free")
  <1>1. Close(t) => Sets(t, "free")
    BY TimerHasFields DEF TypeOK, TimerRecord, Sets, SameTimes, Others, Close
  <1> QED BY <1>1, SetsStatus DEF Open, Stop, TimerEnable

LEMMA StartEffect ==
  ASSUME TypeOK, NEW t \in Timers, NEW use \in Uses[t], Start(t, use)
  PROVE  /\ timer'[t].status = "inactive" /\ Others(t)
         /\ timer'[t].timeout = use.timeout /\ timer'[t].remaining = use.timeout
         /\ use.timeout \in Nat \ {0}
  <1>1. use \in [mode : Modes, timeout : Nat \ {0}]
    BY TimerAssumption
  <1> QED BY <1>1 DEF TypeOK, Others, Start

LEMMA InterruptEffect ==
  ASSUME TypeOK, HalTimerCallback, NEW t \in Timers
  PROVE  /\ timer'[t].status = timer[t].status
         /\ timer'[t].timeout = timer[t].timeout
         /\ timer'[t].remaining = IF timer[t].status = "active" THEN Reduced(t)
                                  ELSE timer[t].remaining
  <1>1. timer[t] \in TimerRecord
    BY TimerHasFields
  <1>2. timer'[t] = IF timer[t].status = "active"
                    THEN [timer[t] EXCEPT !.remaining = Reduced(t)] ELSE timer[t]
    BY DEF HalTimerCallback
  <1> QED BY <1>1, <1>2 DEF TimerRecord

LEMMA TaskEffects ==
  ASSUME TypeOK, VisitsTimer
  PROVE  /\ Activate => Sets(at, "active")
         /\ Expire => /\ Others(at)
                      /\ timer'[at].timeout = timer[at].timeout
                      /\ IF timer[at].mode.repeats
                         THEN timer'[at].status = "active"
                              /\ timer'[at].remaining = timer[at].timeout
                         ELSE timer'[at].status = "inactive"
                              /\ timer'[at].remaining = timer[at].remaining
  <1>1. Activate => at \in Timers
    BY DEF Activate, VisitsTimer
  <1>2. Activate => Sets(at, "active")
    BY <1>1, SetsStatus DEF Activate
  <1>3. ASSUME Expire, timer[at].mode.repeats
        PROVE  /\ Others(at) /\ timer'[at].timeout = timer[at].timeout
               /\ timer'[at].status = "active"
               /\ timer'[at].remaining = timer[at].timeout
    <2>1. at \in Timers /\ timer[at].status = "active"
      BY <1>3 DEF Expire, VisitsTimer
    <2>2. timer[at] \in TimerRecord
      BY <2>1, TimerHasFields
    <2>3. timer' = [timer EXCEPT ![at].remaining = timer[at].timeout]
      BY <1>3 DEF Expire
    <2> QED BY <2>1, <2>2, <2>3 DEF TypeOK, TimerRecord, Others
  <1>4. ASSUME Expire, ~timer[at].mode.repeats
        PROVE  Sets(at, "inactive")
    <2>1. at \in Timers
      BY <1>4 DEF Expire, VisitsTimer
    <2> QED BY <1>4, <2>1, SetsStatus DEF Expire
  <1> QED BY <1>2, <1>3, <1>4 DEF Sets, SameTimes

Call(t) ==
  Open(t) \/ Stop(t) \/ TimerEnable(t) \/ Close(t)
  \/ \E use \in Uses[t] : Start(t, use)
Quiet == Tick \/ Begin \/ CallbackReturns \/ Pass \/ Program

LEMMA QuietEffect == Quiet => timer' = timer /\ starting' = starting /\ list' = list
  BY DEF Quiet, Tick, Begin, CallbackReturns, Pass, Program

LEMMA NextCases ==
  ASSUME [Next]_vars
  PROVE  \/ UNCHANGED vars \/ Quiet \/ HalTimerCallback \/ Activate \/ Expire
         \/ \E t \in Timers : Call(t)
  BY DEF Next, Task, Quiet, Call

-----------------------------------------------------------------------------
(* The list, the periods, and the counter *)

\* A timer that is started, or on, has a period, which remains until it is
\* active.
Periods ==
  \A t \in Timers :
    /\ t \in starting \/ IsOn(t) => timer[t].timeout >= 1
    /\ t \in starting \/ timer[t].status = "ready" =>
         timer[t].remaining = timer[t].timeout

\* The counter runs when the manager remembers that it does, which is only for
\* a timer, and to the match it remembers.
CounterFollows ==
  /\ hw.on = running
  /\ running => ~NoneOn(counts) /\ hw.match = programmed

AtEnd == taskPc = "program" => at = NoTimer

Setting == TimerInv /\ ListOfOpened /\ Periods /\ CounterFollows /\ AtEnd

LEMMA PeriodsKept ==
  ASSUME TimerInv, Periods, [Next]_vars PROVE Periods'
  <1> USE DEF TimerInv
  <1>1. CASE UNCHANGED vars
    BY <1>1 DEF Periods, IsOn, vars
  <1>2. CASE Quiet
    BY <1>2, QuietEffect DEF Periods, IsOn
  <1>3. CASE HalTimerCallback
    <2>1. starting' = starting
      BY <1>3 DEF HalTimerCallback
    <2>2. \A t \in starting : timer[t].status = "inactive"
      BY DEF StartingIsOff
    <2> QED BY <1>3, <2>1, <2>2, InterruptEffect DEF Periods, IsOn
  <1>4. CASE Activate
    <2>1. starting' = starting /\ at \in Timers /\ Sets(at, "active")
          /\ timer[at].status = "ready"
      BY <1>4, TaskEffects DEF Activate, VisitsTimer
    <2> QED BY <2>1 DEF Periods, IsOn, Sets, SameTimes, Others, StartingIsOff
  <1>5. CASE Expire
    <2>1. starting' = starting /\ at \in Timers /\ timer[at].status = "active"
      BY <1>5 DEF Expire, VisitsTimer
    <2>2. at \notin starting
      BY <2>1 DEF StartingIsOff
    <2> QED BY <1>5, <2>1, <2>2, TaskEffects DEF Periods, IsOn, Others
  <1>6. ASSUME NEW t \in Timers, Call(t) PROVE Periods'
    <2>1. CASE Open(t) \/ Stop(t) \/ Close(t)
      <3>1. /\ starting' = starting /\ t \notin starting /\ Others(t)
            /\ timer'[t].status \in {"inactive", "free"}
        BY <2>1, CallEffects DEF Open, Stop, Close, Operates, Sets
      <3> QED BY <3>1 DEF Periods, IsOn, Others
    <2>2. CASE TimerEnable(t)
      <3>1. /\ starting' = starting \ {t} /\ t \in starting
            /\ Sets(t, "ready")
        BY <2>2, CallEffects DEF TimerEnable
      <3> QED BY <3>1 DEF Periods, IsOn, Others, Sets, SameTimes
    <2>3. ASSUME NEW use \in Uses[t], Start(t, use) PROVE Periods'
      <3>1. starting' = starting \cup {t}
        BY <2>3 DEF Start
      <3> QED BY <2>3, <3>1, StartEffect DEF Periods, IsOn, Others
    <2> QED BY <1>6, <2>1, <2>2, <2>3 DEF Call
  <1> QED BY <1>1, <1>2, <1>3, <1>4, <1>5, <1>6, NextCases

LEMMA ListKept ==
  ASSUME TimerInv, ListOfOpened, [Next]_vars PROVE ListOfOpened'
  <1> USE DEF TimerInv
  <1>1. ASSUME list' = list,
               \A t \in Timers : timer'[t].status = "free" =>
                                   timer[t].status = "free"
        PROVE  ListOfOpened'
    BY <1>1, ListFacts DEF ListOfOpened
  <1>2. CASE UNCHANGED vars \/ Quiet
    BY <1>1, <1>2, QuietEffect DEF vars
  <1>3. CASE HalTimerCallback
    BY <1>1, <1>3, InterruptEffect DEF HalTimerCallback
  <1>4. CASE Activate \/ Expire
    <2>1. list' = list /\ Others(at) /\ timer'[at].status \in {"active", "inactive"}
      BY <1>4, TaskEffects DEF Activate, Expire, Sets
    <2> QED BY <1>1, <2>1 DEF Others
  <1>5. ASSUME NEW t \in Timers, Call(t) PROVE ListOfOpened'
    <2>1. CASE Stop(t) \/ TimerEnable(t)
      <3>1. list' = list /\ Others(t) /\ timer'[t].status \in {"inactive", "ready"}
        BY <2>1, CallEffects DEF Stop, TimerEnable, Sets
      <3> QED BY <1>1, <3>1 DEF Others
    <2>2. ASSUME NEW use \in Uses[t], Start(t, use) PROVE ListOfOpened'
      <3>1. list' = list /\ Others(t) /\ timer'[t].status = "inactive"
        BY <2>2, StartEffect DEF Start
      <3> QED BY <1>1, <3>1 DEF Others
    <2>3. CASE Open(t)
      <3>1. /\ Len(list') = Len(list) + 1 /\ list'[Len(list) + 1] = t
            /\ \A i \in 1 .. Len(list) : list'[i] = list[i]
        BY <2>3, AppendProperties DEF Open, TypeOK
      <3>2. Others(t) /\ timer'[t].status = "inactive" /\ timer[t].status = "free"
        BY <2>3, CallEffects DEF Open, Sets
      <3>3. \A i \in 1 .. Len(list) : list[i] # t
        BY <3>2 DEF ListOfOpened
      <3>4. \A i \in 1 .. Len(list') : i \in 1 .. Len(list) \/ i = Len(list) + 1
        BY <3>1, ListFacts
      <3>5. Len(list) + 1 \notin 1 .. Len(list)
        BY ListFacts
      <3> QED BY <3>1, <3>2, <3>3, <3>4, <3>5, ListFacts DEF ListOfOpened, Others
    <2>4. CASE Close(t)
      <3> DEFINE w == Where(t)
      <3>1. Contains(list, t)
        BY <2>4, ListFacts DEF Close, Listed, Contains
      <3>2. /\ w \in 1 .. Len(list) /\ list[w] = t /\ Len(list) \in Nat
            /\ Len(list') = Len(list) - 1
            /\ \A i \in 1 .. Len(list) - 1 :
                 list'[i] = IF i < w THEN list[i] ELSE list[i + 1]
        BY <2>4, <3>1, RestOfList, ListFacts DEF Close
      <3> HIDE DEF w
      <3> DEFINE old(i) == IF i < w THEN i ELSE i + 1
      <3>3. \A i \in 1 .. Len(list') :
              old(i) \in 1 .. Len(list) /\ list'[i] = list[old(i)] /\ old(i) # w
        BY <3>2
      <3>4. \A i, j \in 1 .. Len(list') : old(i) = old(j) => i = j
        BY <3>2
      <3> HIDE DEF old
      <3>5. Others(t)
        BY <2>4, CallEffects DEF Sets
      <3>6. \A i \in 1 .. Len(list') : list'[i] \in Timers \ {t}
        BY <3>2, <3>3, ListFacts DEF ListOfOpened
      <3>7. \A i, j \in 1 .. Len(list') : list'[i] = list'[j] => i = j
        BY <3>3, <3>4 DEF ListOfOpened
      <3>8. \A i \in 1 .. Len(list') : timer'[list'[i]].status # "free"
        BY <3>3, <3>5, <3>6 DEF Others, ListOfOpened
      <3> QED BY <3>7, <3>8 DEF ListOfOpened
    <2> QED BY <1>5, <2>1, <2>2, <2>3, <2>4 DEF Call
  <1> QED BY <1>2, <1>3, <1>4, <1>5, NextCases

\* TM_Stop stops the counter with the last timer that counts.
LEMMA StopFollows ==
  ASSUME TypeOK, CounterFollows, NEW t, CounterWithout(t),
         programmed' = programmed
  PROVE  CounterFollows'
  <1>1. CASE IsOn(t) /\ NoneOn(counts') /\ running
    <2>1. running' = FALSE /\ hw' = [hw EXCEPT !.on = FALSE]
      BY <1>1 DEF CounterWithout
    <2> QED BY <2>1 DEF CounterFollows, TypeOK
  <1>2. CASE ~(IsOn(t) /\ NoneOn(counts') /\ running)
    <2>1. running' = running /\ hw' = hw
      BY <1>2 DEF CounterWithout
    <2>2. ~IsOn(t) => counts' = counts
      BY DEF CounterWithout, CountsWithout
    <2>3. running' => ~NoneOn(counts')
      BY <1>2, <2>1, <2>2 DEF CounterFollows
    <2> QED BY <2>1, <2>3 DEF CounterFollows
  <1> QED BY <1>1, <1>2

LEMMA CounterKept ==
  ASSUME TimerInv, CounterFollows, [Next]_vars PROVE CounterFollows'
  <1> USE DEF TimerInv
  <1>1. ASSUME UNCHANGED <<hw, running, counts, programmed>>
        PROVE  CounterFollows'
    BY <1>1 DEF CounterFollows
  <1>2. CASE UNCHANGED vars \/ HalTimerCallback \/ Begin \/ CallbackReturns
             \/ Pass \/ Activate
    BY <1>1, <1>2
    DEF vars, HalTimerCallback, Begin, CallbackReturns, Pass, Activate
  <1>3. CASE Tick
    <2>1. UNCHANGED <<running, counts, programmed>> /\ hw' = Counted
      BY <1>3 DEF Tick
    <2>2. hw \in [on : BOOLEAN, count : 0 .. MaxTimeout, match : 0 .. MaxTimeout]
      BY DEF TypeOK
    <2>3. hw'.on = hw.on /\ hw'.match = hw.match
      BY <2>1, <2>2 DEF Counted
    <2> QED BY <2>1, <2>3 DEF CounterFollows
  <1>4. CASE Program
    <2>1. counts' = counts /\ running' = ~NoneOn(counts)
          /\ NoneOn(counts) \in BOOLEAN
      BY <1>4 DEF Program, NoneOn
    <2>2. CASE running' /\ MustProgram
      <3>1. hw' = Restarted(interval) /\ programmed' = interval
        BY <1>4, <2>2 DEF Program
      <3> QED BY <2>1, <2>2, <3>1 DEF CounterFollows, Restarted
    <2>3. CASE ~running' /\ running
      <3>1. hw' = [hw EXCEPT !.on = FALSE]
        BY <1>4, <2>3 DEF Program
      <3>2. hw'.on = FALSE
        BY <3>1 DEF TypeOK
      <3>3. running' = FALSE
        BY <2>1, <2>3
      <3> QED BY <3>2, <3>3 DEF CounterFollows
    <2>4. CASE ~(running' /\ MustProgram) /\ ~(~running' /\ running)
      <3>1. hw' = hw /\ programmed' = programmed
        BY <1>4, <2>4 DEF Program
      <3>2. running' => running
        BY <2>4 DEF MustProgram
      <3>3. running' = running
        BY <2>1, <2>4, <3>2 DEF TypeOK
      <3> QED BY <2>1, <3>1, <3>3 DEF CounterFollows
    <2> QED BY <2>2, <2>3, <2>4
  <1>5. CASE Expire
    <2>1. programmed' = programmed
      BY <1>5 DEF Expire
    <2> QED BY <1>1, <1>5, <2>1, StopFollows DEF Expire
  <1>6. ASSUME NEW t \in Timers, Call(t) PROVE CounterFollows'
    <2>1. CASE Open(t)
      BY <1>1, <2>1 DEF Open
    <2>2. CASE Stop(t) \/ Close(t) \/ \E use \in Uses[t] : Start(t, use)
      BY <2>2, StopFollows DEF Stop, Close, Start
    <2>3. CASE TimerEnable(t)
      <3> DEFINE m == timer[t].mode.lowPower
      <3>1. m \in BOOLEAN /\ counts[m] \in Nat
        BY TimerHasFields DEF TypeOK, Modes
      <3>2. counts' = [counts EXCEPT ![m] = @ + 1]
        BY <2>3 DEF TimerEnable
      <3> HIDE DEF m
      <3>3. counts'[m] # 0
        BY <3>1, <3>2 DEF TypeOK
      <3> QED BY <2>3, <3>1, <3>3 DEF TimerEnable, CounterFollows, NoneOn
    <2> QED BY <1>6, <2>1, <2>2, <2>3 DEF Call
  <1> QED BY <1>2, <1>3, <1>4, <1>5, <1>6, NextCases DEF Quiet

LEMMA EndKept ==
  ASSUME TimerInv, AtEnd, [Next]_vars PROVE AtEnd'
  <1>1. CASE Begin \/ CallbackReturns \/ Pass \/ Activate
    BY <1>1 DEF Begin, CallbackReturns, Pass, Activate, Goes, AtEnd
  <1>2. CASE Expire \/ Program
    BY <1>2 DEF Expire, Program, AtEnd
  <1>3. CASE UNCHANGED vars \/ HalTimerCallback \/ Tick
    BY <1>3 DEF vars, HalTimerCallback, Tick, task, AtEnd
  <1>4. CASE \E t \in Timers : Call(t)
    BY <1>4 DEF Call, Open, Stop, Close, Start, TimerEnable, task, AtEnd
  <1> QED BY <1>1, <1>2, <1>3, <1>4, NextCases DEF Quiet

LEMMA SettingInit == Init => Setting
  <1> SUFFICES ASSUME Init PROVE Setting
    OBVIOUS
  <1>1. ListOfOpened
    <2>1. Len(list) = 0
      BY DEF Init
    <2> QED BY <2>1 DEF ListOfOpened
  <1>2. Periods
    BY DEF Init, Periods, IsOn, Free
  <1>3. CounterFollows /\ AtEnd
    BY DEF Init, CounterFollows, AtEnd
  <1> QED BY <1>1, <1>2, <1>3, TimerInit DEF Setting

LEMMA SettingNext == Setting /\ [Next]_vars => Setting'
  BY TimerNext, PeriodsKept, ListKept, CounterKept, EndKept DEF Setting

\* Some timer is on just if one is counted.
LEMMA NoneCounted ==
  ASSUME NEW f, NEW c, \A t \in Timers : f[t].mode.lowPower \in BOOLEAN,
         \A b \in BOOLEAN : c[b] = Cardinality(Counting(f, b))
  PROVE  NoneOn(c) <=> \A t \in Timers : f[t].status \notin On
  <1>1. \A b \in BOOLEAN :
          Cardinality(Counting(f, b)) = 0 <=> Counting(f, b) = {}
    BY CountingIsFinite, FS_EmptySet
  <1>2. (\A b \in BOOLEAN : Counting(f, b) = {})
          <=> \A t \in Timers : f[t].status \notin On
    BY DEF Counting
  <1> QED BY <1>1, <1>2 DEF NoneOn

LEMMA CountedOn ==
  ASSUME TimerInv, NEW t \in Timers, IsOn(t) PROVE ~NoneOn(counts)
  <1>1. \A u \in Timers : timer[u].mode.lowPower \in BOOLEAN
    BY TimerHasFields DEF TimerInv, Modes
  <1> QED BY <1>1, NoneCounted, ExactCounts DEF TimerInv, IsOn, On

LEMMA CountedOnNext ==
  ASSUME TimerInv', NEW t \in Timers, timer'[t].status = "active"
  PROVE  ~NoneOn(counts')
  <1>1. \A u \in Timers : timer'[u].mode.lowPower \in BOOLEAN
    <2>1. \A u \in Timers : timer'[u] \in TimerRecord
      BY DEF TimerInv, TypeOK, TimerRecord
    <2> QED BY <2>1 DEF TimerRecord, Modes
  <1>2. \A b \in BOOLEAN : counts'[b] = Cardinality(Counting(timer', b))
    BY DEF TimerInv, CountsExact, Counting, IsOn, On
  <1> QED BY <1>1, <1>2, NoneCounted DEF On

-----------------------------------------------------------------------------
(* The walk covers every timer it leaves behind *)

\* The walk's interval is no longer than what remains of this timer.
Accounted(t) ==
  timer[t].status = "active" => interval \in 1 .. timer[t].remaining

\* While no message waits, a timer that the walk has passed is off, or active
\* and accounted for; the callback of a timer has not started it again.
Walking ==
  taskPc # "wait" /\ posted = 0 =>
    /\ interval >= 1
    /\ \A t \in Timers : Ahead(t) \/ (timer[t].status # "ready" /\ Accounted(t))
    /\ taskPc = "callback" =>
         /\ timer[at].status # "ready"
         /\ timer[at].status = "active" => wasActive
         /\ wasActive => timer[at].remaining >= 1

CoverInv == Setting /\ Walking /\ Covered

LEMMA AheadSame ==
  ASSUME UNCHANGED <<list, left, at>>, NEW t PROVE Ahead(t) => Ahead(t)'
  BY DEF Ahead, Closed

LEMMA SomethingPosted ==
  ASSUME TypeOK, posted' = Posted PROVE posted' # 0
  BY TimerAssumption DEF TypeOK, Posted

\* A step of the walk over an element that it accounts for.
LEMMA StepOfWalk ==
  ASSUME Setting, at \in Timers, UNCHANGED <<list, left>>, Goes(After(at)),
         interval' \in 1 .. interval, Others(at),
         timer'[at].status # "ready",
         timer'[at].status = "active" => interval' \in 1 .. timer'[at].remaining,
         \A t \in Timers : Ahead(t) \/ (timer[t].status # "ready" /\ Accounted(t))
  PROVE  Walking'
  <1>1. ASSUME NEW t \in Timers
        PROVE  Ahead(t)' \/ (timer'[t].status # "ready" /\ Accounted(t)')
    <2>1. CASE t = at
      BY <2>1 DEF Accounted
    <2>2. CASE t # at /\ Ahead(t)
      BY <2>2, AheadAfter DEF Setting, TimerInv, Goes
    <2>3. CASE t # at /\ timer[t].status # "ready" /\ Accounted(t)
      <3>1. timer'[t] = timer[t]
        BY <2>3 DEF Others
      <3>2. timer[t].remaining \in Nat /\ interval \in Nat
        BY TimerHasFields, TimerAssumption DEF Setting, TimerInv, TypeOK
      <3> QED BY <2>3, <3>1, <3>2 DEF Accounted
    <2> QED BY <1>1, <2>1, <2>2, <2>3
  <1>2. taskPc' # "callback"
    BY DEF Goes
  <1>3. interval' >= 1
    OBVIOUS
  <1> QED BY <1>1, <1>2, <1>3 DEF Walking

LEMMA BeginWalks ==
  ASSUME Setting, Begin PROVE Walking'
  <1>1. TypeOK /\ interval' = MaxTimeout /\ interval' >= 1 /\ timer' = timer
        /\ list' = list
    BY TimerAssumption DEF Setting, TimerInv, Begin
  <1>2. taskPc' # "callback"
    BY DEF Begin, Goes
  <1>3. ASSUME NEW t \in Timers
        PROVE  Ahead(t)' \/ (timer'[t].status # "ready" /\ Accounted(t)')
    <2>1. CASE timer[t].status = "free"
      BY <1>1, <2>1 DEF Accounted
    <2>2. CASE timer[t].status # "free"
      <3>1. Contains(list, t)
        BY <1>1, <2>2, ListFacts DEF Setting, TimerInv, Listed, Contains
      <3>2. list # <<>>
        BY <1>1, <3>1, ListFacts DEF Contains
      <3>3. at' = Head(list)
        BY <3>2 DEF Begin, Goes
      <3> QED BY <1>1, <3>1, <3>3, AllAheadAtBegin
    <2> QED BY <2>1, <2>2
  <1> QED BY <1>1, <1>2, <1>3 DEF Walking

LEMMA ActivateWalks ==
  ASSUME Setting, Walking, Activate PROVE Walking'
  <1> SUFFICES ASSUME posted' = 0 PROVE Walking'
    BY DEF Walking
  <1>1. /\ at \in Timers /\ TypeOK /\ interval >= 1
        /\ \A t \in Timers :
             Ahead(t) \/ (timer[t].status # "ready" /\ Accounted(t))
    BY DEF Walking, Activate, Setting, TimerInv, VisitsTimer
  <1>2. timer[at].timeout \in Nat \ {0}
        /\ timer[at].remaining = timer[at].timeout
    BY <1>1, TimerHasFields, TimerAssumption DEF Activate, Setting, Periods, IsOn
  <1>3. Others(at) /\ timer'[at].status = "active"
        /\ timer'[at].remaining = timer[at].timeout
    BY <1>1, <1>2, TaskEffects DEF Setting, TimerInv, Sets, SameTimes
  <1>4. interval' \in 1 .. interval /\ interval' \in 1 .. timer[at].timeout
    BY <1>1, <1>2 DEF Activate, Lowered, TypeOK
  <1> QED BY <1>1, <1>3, <1>4, StepOfWalk DEF Activate

LEMMA PassWalks ==
  ASSUME Setting, Walking, Pass PROVE Walking'
  <1> SUFFICES ASSUME posted' = 0 PROVE Walking'
    BY DEF Walking
  <1>1. /\ at \in Timers /\ TypeOK /\ interval >= 1
        /\ \A t \in Timers :
             Ahead(t) \/ (timer[t].status # "ready" /\ Accounted(t))
    BY DEF Walking, Pass, Setting, TimerInv, VisitsTimer
  <1>2. timer[at].remaining \in Nat /\ interval \in 0 .. MaxTimeout
    BY <1>1, TimerHasFields DEF TypeOK
  <1>3. Others(at) /\ timer' = timer
    BY DEF Pass, Others
  <1>4. interval' \in 1 .. interval
        /\ (timer[at].status = "active" =>
              interval' \in 1 .. timer[at].remaining)
    BY <1>1, <1>2, TimerAssumption DEF Pass, Lowered
  <1> QED BY <1>1, <1>3, <1>4, StepOfWalk DEF Pass

LEMMA CallbackReturnsWalks ==
  ASSUME Setting, Walking, CallbackReturns PROVE Walking'
  <1> SUFFICES ASSUME posted' = 0 PROVE Walking'
    BY DEF Walking
  <1>1. /\ at \in Timers /\ TypeOK /\ interval >= 1
        /\ \A t \in Timers :
             Ahead(t) \/ (timer[t].status # "ready" /\ Accounted(t))
        /\ timer[at].status # "ready"
        /\ timer[at].status = "active" => wasActive
        /\ wasActive => timer[at].remaining >= 1
    BY DEF Walking, CallbackReturns, Setting, TimerInv, VisitsTimer
  <1>2. timer[at].remaining \in Nat /\ interval \in 0 .. MaxTimeout
    BY <1>1, TimerHasFields DEF TypeOK
  <1>3. Others(at) /\ timer' = timer
    BY DEF CallbackReturns, Others
  <1>4. interval' \in 1 .. interval
        /\ (timer[at].status = "active" =>
              interval' \in 1 .. timer[at].remaining)
    BY <1>1, <1>2, TimerAssumption DEF CallbackReturns, Lowered
  <1> QED BY <1>1, <1>3, <1>4, StepOfWalk DEF CallbackReturns

LEMMA ExpireWalks ==
  ASSUME Setting, Walking, Expire PROVE Walking'
  <1> SUFFICES ASSUME posted' = 0 PROVE Walking'
    BY DEF Walking
  <1>1. /\ at \in Timers /\ TypeOK /\ interval >= 1
        /\ \A t \in Timers :
             Ahead(t) \/ (timer[t].status # "ready" /\ Accounted(t))
    BY DEF Walking, Expire, Setting, TimerInv, VisitsTimer
  <1>2. at' = at /\ list' = list /\ interval' = interval
        /\ left' = [t \in Timers |-> NoTimer]
        /\ wasActive' = timer[at].mode.repeats
    BY DEF Expire
  <1>3. Contains(list, at) /\ timer[at].timeout >= 1
    BY <1>1, ListFacts
    DEF Expire, Setting, TimerInv, Listed, Contains, Periods, IsOn
  <1>4. /\ Others(at)
        /\ IF timer[at].mode.repeats
           THEN timer'[at].status = "active"
                /\ timer'[at].remaining = timer[at].timeout
           ELSE timer'[at].status = "inactive"
    BY TaskEffects DEF Setting, TimerInv
  <1>5. ASSUME NEW t \in Timers
        PROVE  Ahead(t)' \/ (timer'[t].status # "ready" /\ Accounted(t)')
    <2>1. CASE t = at
      BY <1>2, <2>1 DEF Ahead
    <2>2. CASE Ahead(t)
      BY <1>1, <1>2, <1>3, <2>2, AheadInCallback
    <2>3. CASE t # at /\ timer[t].status # "ready" /\ Accounted(t)
      BY <1>2, <1>4, <2>3 DEF Others, Accounted
    <2> QED BY <1>1, <2>1, <2>2, <2>3
  <1>6. /\ timer'[at].status # "ready"
        /\ timer'[at].status = "active" => wasActive'
        /\ wasActive' => timer'[at].remaining >= 1
    BY <1>2, <1>3, <1>4
  <1> QED BY <1>1, <1>2, <1>5, <1>6 DEF Walking

\* What a callback does to its own timer and to the others; TimerEnable posts
\* a message, after which the list is walked again.
LEMMA CallWalks ==
  ASSUME ~ReopensInCallback, Setting, Walking, NEW t \in Timers, Call(t)
  PROVE  Walking'
  <1> SUFFICES ASSUME taskPc' # "wait", posted' = 0 PROVE Walking'
    BY DEF Walking
  <1>1. CASE TimerEnable(t)
    BY <1>1, SomethingPosted DEF TimerEnable, Setting, TimerInv
  <1>2. CASE ~TimerEnable(t)
    <2>1. /\ taskPc = "callback" /\ posted = 0 /\ UNCHANGED task
          /\ interval' = interval
      BY <1>2 DEF Call, Open, Stop, Close, Start, Operates, Interruptible,
                  InCriticalSection, task, Setting, TimerInv, TypeOK
    <2>2. /\ at \in Timers /\ TypeOK /\ at' = at /\ wasActive' = wasActive
          /\ interval >= 1
          /\ \A u \in Timers :
               Ahead(u) \/ (timer[u].status # "ready" /\ Accounted(u))
          /\ timer[at].status # "ready"
          /\ timer[at].status = "active" => wasActive
          /\ wasActive => timer[at].remaining >= 1
      BY <2>1 DEF Walking, Setting, TimerInv, VisitsTimer, task
    <2>3. /\ Others(t) /\ timer'[t].status \in {"inactive", "free"}
          /\ \/ timer'[t].remaining = timer[t].remaining
             \/ timer'[t].remaining >= 1
      <3>1. CASE Open(t) \/ Stop(t) \/ Close(t)
        BY <2>2, <3>1, CallEffects DEF Sets, SameTimes
      <3>2. ASSUME NEW use \in Uses[t], Start(t, use)
            PROVE  Others(t) /\ timer'[t].status = "inactive"
                   /\ timer'[t].remaining >= 1
        BY <2>2, <3>2, StartEffect
      <3> QED BY <1>2, <3>1, <3>2 DEF Call
    <2>4. ASSUME NEW u \in Timers \ {t}, Ahead(u) PROVE Ahead(u)'
      <3>1. CASE Stop(t) \/ \E use \in Uses[t] : Start(t, use)
        BY <2>2, <2>4, <3>1, AheadSame DEF Stop, Start
      <3>2. CASE Open(t)
        <4>1. ~Contains(list, t)
          BY <2>2, <3>2, ListFacts DEF Open, Setting, ListOfOpened, Contains
        <4>2. left[t] = NoTimer /\ list' = Append(list, t) /\ left' = left
          BY <3>2 DEF Open
        <4> QED BY <2>2, <2>4, <4>1, <4>2, AheadWhenOpened
      <3>3. CASE Close(t)
        <4>1. Contains(list, t)
          BY <2>2, <3>3, ListFacts
          DEF Close, Setting, TimerInv, Listed, Contains
        <4>2. list' = RemoveAt(list, Where(t))
              /\ left' = [left EXCEPT ![t] = After(t)]
          BY <2>1, <3>3 DEF Close
        <4> QED BY <2>2, <2>4, <4>1, <4>2, AheadWhenClosed DEF Setting
      <3> QED BY <1>2, <3>1, <3>2, <3>3 DEF Call
    <2>5. \A u \in Timers :
            Ahead(u)' \/ (timer'[u].status # "ready" /\ Accounted(u)')
      BY <2>1, <2>2, <2>3, <2>4 DEF Others, Accounted
    <2>6. /\ timer'[at].status # "ready"
          /\ timer'[at].status = "active" => wasActive
          /\ wasActive => timer'[at].remaining >= 1
      BY <2>2, <2>3 DEF Others
    <2> QED BY <2>1, <2>2, <2>5, <2>6 DEF Walking
  <1> QED BY <1>1, <1>2

LEMMA WalkingKept ==
  ASSUME ~ReopensInCallback, Setting, Walking, [Next]_vars PROVE Walking'
  <1>1. CASE UNCHANGED vars \/ Tick
    <2>1. UNCHANGED <<list, left, timer, interval, posted, taskPc, at, wasActive>>
      BY <1>1 DEF vars, task, Tick
    <2> QED BY <2>1, AheadSame DEF Walking, Accounted
  <1>2. CASE HalTimerCallback
    BY <1>2, SomethingPosted DEF HalTimerCallback, Setting, TimerInv, Walking
  <1>3. CASE Program
    BY <1>3 DEF Program, Walking
  <1> QED BY <1>1, <1>2, <1>3, BeginWalks, ActivateWalks, PassWalks, ExpireWalks,
             CallbackReturnsWalks, CallWalks, NextCases DEF Quiet

\* What the walk has put together is what the counter is set to.
LEMMA ProgramCovers ==
  ASSUME Setting, Walking, Program PROVE Covered'
  <1> SUFFICES ASSUME posted' = 0, NEW t \in Timers
               PROVE  /\ timer'[t].status # "ready"
                      /\ timer'[t].status = "active" =>
                           hw'.on /\ hw'.match \in 1 .. timer'[t].remaining
    BY DEF Covered
  <1>1. timer' = timer /\ counts' = counts /\ posted = 0
        /\ running' = ~NoneOn(counts)
    BY DEF Program
  <1>2. timer[t].status # "ready" /\ Accounted(t)
    BY <1>1, NothingBeyondEnd DEF Program, Walking, Setting, TimerInv, AtEnd
  <1>3. ASSUME timer[t].status = "active"
        PROVE  hw'.on /\ hw'.match = interval
    <2>1. running' = TRUE
      BY <1>1, <1>3, CountedOn DEF Setting, IsOn
    <2>2. CASE MustProgram
      <3>1. hw' = Restarted(interval)
        BY <2>1, <2>2 DEF Program
      <3> QED BY <3>1 DEF Restarted
    <2>3. CASE ~MustProgram
      <3>1. hw' = hw /\ running /\ interval = programmed
        BY <2>1, <2>3 DEF Program, MustProgram
      <3> QED BY <3>1 DEF Setting, CounterFollows
    <2> QED BY <2>2, <2>3
  <1> QED BY <1>1, <1>2, <1>3 DEF Accounted

\* A call between two walks leaves the counter alone, or stops it after the
\* last timer.
LEMMA CallCovers ==
  ASSUME Setting, Setting', Covered, NEW t \in Timers, Call(t) PROVE Covered'
  <1> SUFFICES ASSUME taskPc' = "wait", posted' = 0, NEW u \in Timers
               PROVE  /\ timer'[u].status # "ready"
                      /\ timer'[u].status = "active" =>
                           hw'.on /\ hw'.match \in 1 .. timer'[u].remaining
    BY DEF Covered
  <1>1. CASE TimerEnable(t)
    BY <1>1, SomethingPosted DEF TimerEnable, Setting, TimerInv
  <1>2. CASE ~TimerEnable(t)
    <2>1. taskPc = "wait" /\ posted = 0 /\ ~irq
      BY <1>2 DEF Call, Open, Stop, Close, Start, Operates, Interruptible, task
    <2>2. Others(t) /\ timer'[t].status \in {"inactive", "free"}
      BY <1>2, CallEffects, StartEffect DEF Call, Sets, Setting, TimerInv
    <2>3. ASSUME u # t, timer[u].status = "active" PROVE hw' = hw
      <3>1. ~NoneOn(counts')
        BY <2>2, <2>3, CountedOnNext DEF Others, Setting
      <3> QED BY <1>2, <3>1 DEF Call, Open, Stop, Close, Start, CounterWithout
    <2> QED BY <2>1, <2>2, <2>3 DEF Others, Covered
  <1> QED BY <1>1, <1>2

LEMMA CoveredKept ==
  ASSUME Setting, Setting', Walking, Covered, [Next]_vars PROVE Covered'
  <1>1. CASE UNCHANGED vars
    BY <1>1 DEF vars, task, Covered
  <1>2. CASE Tick
    <2>1. UNCHANGED <<timer, posted, taskPc>> /\ hw' = Counted /\ (irq => irq')
      BY <1>2 DEF Tick, task
    <2>2. hw'.on = hw.on /\ hw'.match = hw.match
      BY <2>1 DEF Counted, Setting, TimerInv, TypeOK
    <2> QED BY <2>1, <2>2 DEF Covered
  <1>3. CASE HalTimerCallback
    BY <1>3, SomethingPosted DEF HalTimerCallback, Setting, TimerInv, Covered
  <1>4. CASE Begin \/ CallbackReturns \/ Pass \/ Activate \/ Expire
    BY <1>4 DEF Begin, CallbackReturns, Pass, Activate, Expire, Goes, Covered
  <1> QED BY <1>1, <1>2, <1>3, <1>4, ProgramCovers, CallCovers, NextCases
          DEF Quiet

\* Where no timer is closed and opened again while the callback of another
\* runs ahead of it in the list, the counter at rest runs to no later than the
\* first of the active timers, and every timer that is on is active: the walk
\* passes over none, whatever is stopped, started, opened and closed around it.
THEOREM CounterCoversTimers ==
  ASSUME ~ReopensInCallback
  PROVE  Spec => []Covered
  <1>1. Init => CoverInv
    BY SettingInit DEF Init, CoverInv, Walking, Covered, Free
  <1>2. CoverInv /\ [Next]_vars => CoverInv'
    BY SettingNext, WalkingKept, CoveredKept DEF CoverInv
  <1>3. CoverInv => Covered
    BY DEF CoverInv
  <1> QED BY <1>1, <1>2, <1>3, PTL DEF Spec

-----------------------------------------------------------------------------
(* A timer that has the counter to itself *)

\* The ticks that a timer's state stands for: a period for a time that has run
\* out, one for a pending interrupt, and what the counter has counted of the
\* next.
Credit(t) ==
  (IF timer[t].remaining = 0 THEN timer[t].timeout ELSE 0)
  + (IF irq THEN timer[t].timeout ELSE 0)
  + (IF hw.on /\ hw.match # 0 THEN hw.count ELSE 0)

\* The timer is as old as its state says.
Served(t) ==
  /\ timer[t].remaining \in {0, timer[t].timeout}
  /\ taskPc = "callback" => wasActive
  /\ taskPc \in {"wait", "program"} => interval \in {0, timer[t].timeout}
  /\ running => \/ hw.match = 0
                \/ hw.match = timer[t].timeout /\ hw.count < timer[t].timeout
  /\ age[t] >= Credit(t)

Sole(t) ==
  /\ list = <<t>> /\ timer[t].timeout <= MaxTimeout
  /\ taskPc \in {"visit", "callback"} => at = t /\ interval = MaxTimeout
  /\ timer[t].status = "ready" =>
       ~running /\ ~irq /\ taskPc \in {"wait", "visit"}
  /\ timer[t].status = "active" => Served(t)

History == age \in [Timers -> Nat] /\ alone \in [Timers -> BOOLEAN]
AloneInv ==
  \A t \in Timers :
    alone[t] /\ IsOn(t) /\ timer[t].timeout <= MaxTimeout => Sole(t)

LEMMA HistoryKept ==
  ASSUME TimerInv, History, [Next]_vars PROVE History'
  <1>1. CASE UNCHANGED vars \/ HalTimerCallback \/ Begin \/ CallbackReturns
             \/ Pass \/ Program \/ Activate
    BY <1>1 DEF vars, history, HalTimerCallback, Begin, CallbackReturns, Pass,
                Program, Activate, History
  <1>2. CASE Tick
    <2>1. \A t \in Timers : Older(t) \in Nat
      BY DEF Older, History
    <2> QED BY <1>2, <2>1 DEF Tick, History
  <1>3. CASE Expire
    <2>1. at \in Timers /\ timer[at].timeout \in Nat
      BY <1>3, TimerHasFields, TimerAssumption
      DEF Expire, TimerInv, VisitsTimer
    <2>2. ~IsEarly(at) => age[at] - timer[at].timeout \in Nat
      BY <2>1 DEF IsEarly, History
    <2> QED BY <1>3, <2>1, <2>2 DEF Expire, History
  <1>4. ASSUME NEW t \in Timers, Call(t) PROVE History'
    <2>1. CASE TimerEnable(t)
      <3>1. (list = <<t>> /\ taskPc = "wait") \in BOOLEAN
        OBVIOUS
      <3> QED BY <2>1, <3>1 DEF TimerEnable, History
    <2>2. CASE Open(t)
      BY <2>2 DEF Open, History
    <2>3. CASE ~TimerEnable(t) /\ ~Open(t)
      <3>1. age' = [age EXCEPT ![t] = 0] /\ alone' = alone
        BY <1>4, <2>3 DEF Call, Stop, Start, Close
      <3> QED BY <3>1 DEF History
    <2> QED BY <2>1, <2>2, <2>3
  <1> QED BY <1>1, <1>2, <1>3, <1>4, NextCases DEF Quiet

LEMMA OnlyOne ==
  ASSUME TimerInv, NEW t, list = <<t>>,
         NEW u \in Timers, timer[u].status # "free"
  PROVE  u = t
  <1>1. PICK i \in DOMAIN list : list[i] = u
    BY DEF TimerInv, Listed
  <1> QED BY <1>1

LEMMA AfterSole ==
  ASSUME TimerInv, NEW t \in Timers, list = <<t>> PROVE After(t) = NoTimer
  <1>1. Contains(list, t) /\ Len(list) = 1
    BY DEF Contains
  <1> QED BY <1>1, WhereInList DEF TimerInv, After

LEMMA CreditBounds ==
  ASSUME TypeOK, NEW t \in Timers
  PROVE  /\ timer[t].timeout \in Nat /\ timer[t].remaining \in Nat
         /\ hw.count \in Nat /\ hw.match \in Nat /\ interval \in Nat
         /\ interval <= MaxTimeout
         /\ irq \in BOOLEAN /\ hw.on \in BOOLEAN /\ MaxTimeout \in Nat
  <1>1. timer[t].timeout \in Nat /\ timer[t].remaining \in Nat
    BY TimerHasFields
  <1>2. /\ interval \in 0 .. MaxTimeout /\ irq \in BOOLEAN
        /\ hw \in [on : BOOLEAN, count : 0 .. MaxTimeout, match : 0 .. MaxTimeout]
    BY DEF TypeOK
  <1>3. /\ hw.on \in BOOLEAN
        /\ hw.count \in 0 .. MaxTimeout /\ hw.match \in 0 .. MaxTimeout
    BY <1>2
  <1> QED BY <1>1, <1>2, <1>3, TimerAssumption

LEMMA TickServes ==
  ASSUME Setting, History, Tick, NEW t \in Timers, IsOn(t), Sole(t)
  PROVE  Sole(t)'
  <1>0. TypeOK /\ timer[t].timeout >= 1
    BY DEF Setting, TimerInv, Periods
  <1>1. /\ UNCHANGED <<list, timer, interval, running, task>> /\ hw' = Counted
        /\ irq' = (irq \/ (hw.on /\ hw.count + 1 = hw.match))
        /\ age'[t] = Older(t)
    BY DEF Tick
  <1>2. hw'.on = hw.on /\ hw'.match = hw.match
        /\ hw'.count = IF ~hw.on THEN hw.count
                       ELSE IF hw.count + 1 = hw.match THEN 0
                       ELSE IF hw.count < MaxTimeout THEN hw.count + 1
                       ELSE hw.count
    BY <1>0, <1>1 DEF Counted, TypeOK
  <1>3. hw.on = running
    BY DEF Setting, CounterFollows
  <1>4. CASE timer[t].status = "ready"
    BY <1>1, <1>3, <1>4 DEF Sole, task
  <1>5. CASE timer[t].status = "active"
    <2>1. Served(t)
      BY <1>5 DEF Sole
    <2>2. /\ running => \/ hw'.match = 0
                        \/ hw'.match = timer[t].timeout
                           /\ hw'.count < timer[t].timeout
      BY <1>0, <1>2, <1>3, <2>1, CreditBounds DEF Served
    <2>3. Credit(t)' <= Credit(t) + 1 /\ Credit(t)' < 3 * timer[t].timeout
          /\ Credit(t) \in Nat
      <3> DEFINE T == timer[t].timeout
                 due == IF timer[t].remaining = 0 THEN T ELSE 0
                 pending == IF irq THEN T ELSE 0
                 counted == IF hw.on /\ hw.match # 0 THEN hw.count ELSE 0
      <3>1. T \in Nat \ {0} /\ timer'[t] = timer[t] /\ hw.count \in Nat
        BY <1>0, <1>1, CreditBounds
      <3>2. /\ due \in 0 .. T /\ pending \in 0 .. T /\ pending' \in 0 .. T
            /\ counted \in Nat /\ due' = due
        BY <3>1
      <3>3. /\ pending' + counted' <= pending + counted + 1
            /\ counted' \in 0 .. T - 1
        <4>1. CASE hw.on /\ hw.match # 0
          <5>1. hw.match = T /\ hw.count < T
            BY <1>3, <2>1, <4>1 DEF Served
          <5> QED BY <1>0, <1>1, <1>2, <3>1, <4>1, <5>1, CreditBounds
        <4>2. CASE ~(hw.on /\ hw.match # 0)
          <5>1. hw.on => hw.match = 0 /\ hw.count + 1 # hw.match
            BY <3>1, <4>2
          <5>2. irq' = irq
            BY <1>0, <1>1, <5>1 DEF TypeOK
          <5>3. counted = 0 /\ counted' = 0
            BY <1>2, <4>2
          <5> QED BY <3>1, <3>2, <5>2, <5>3
        <4> QED BY <4>1, <4>2
      <3>4. /\ Credit(t) = due + pending + counted
            /\ Credit(t)' = due' + pending' + counted'
        BY DEF Credit
      <3>5. \A p \in Nat, c \in Nat, q \in 0 .. T, d \in 0 .. T - 1 :
              q + d <= p + c + 1 =>
                /\ due + q + d <= due + p + c + 1 /\ due + q + d < 3 * T
                /\ due + p + c \in Nat
        <4>1. due \in Nat /\ due <= T /\ T \in Nat
          BY <3>1, <3>2
        <4> HIDE DEF T, due
        <4> QED BY <4>1
      <3>6. /\ due + pending' + counted' <= due + pending + counted + 1
            /\ due + pending' + counted' < 3 * T /\ due + pending + counted \in Nat
        <4>1. pending \in Nat
          BY <3>1, <3>2
        <4> HIDE DEF T, due, pending, counted
        <4> QED BY <3>2, <3>3, <3>5, <4>1
      <3> QED BY <3>2, <3>4, <3>6
    <2>4. age'[t] >= Credit(t)'
      <3>1. age[t] \in Nat /\ age[t] >= Credit(t) /\ Credit(t)' \in Int
        BY <1>0, <1>1, <1>2, <2>1, CreditBounds DEF History, Served, Credit
      <3> QED BY <1>0, <1>1, <2>3, <3>1, CreditBounds DEF Older
    <2> QED BY <1>1, <1>5, <2>1, <2>2, <2>4 DEF Sole, Served, task
  <1> QED BY <1>4, <1>5 DEF IsOn

LEMMA InterruptServes ==
  ASSUME Setting, History, HalTimerCallback, NEW t \in Timers, IsOn(t), Sole(t)
  PROVE  Sole(t)'
  <1>0. TypeOK /\ timer[t].timeout >= 1 /\ age[t] \in Nat
    BY DEF Setting, TimerInv, Periods, History
  <1>1. /\ UNCHANGED <<list, interval, running, hw, task, age>>
        /\ irq /\ irq' = FALSE /\ taskPc \in {"wait", "callback"}
    BY <1>0 DEF HalTimerCallback, history, InCriticalSection, TypeOK
  <1>2. timer[t].status = "active" /\ Served(t)
    BY <1>1 DEF Sole, IsOn
  <1>3. /\ timer'[t].status = "active"
        /\ timer'[t].timeout = timer[t].timeout
        /\ timer'[t].remaining = Reduced(t)
    BY <1>0, <1>2, InterruptEffect
  <1>4. interval = 0 \/ interval >= timer[t].timeout
    BY <1>0, <1>1, <1>2, CreditBounds DEF Sole, Served
  <1>5. Reduced(t) \in {0, timer[t].timeout}
        /\ (Reduced(t) = 0 => timer[t].remaining = 0 \/ interval # 0)
    BY <1>0, <1>2, <1>4, CreditBounds DEF Served, Reduced
  <1>6. Credit(t)' <= Credit(t) /\ Credit(t) \in Nat /\ Credit(t)' \in Nat
    BY <1>0, <1>1, <1>3, <1>5, CreditBounds DEF Credit
  <1>7. age[t] >= Credit(t)'
    BY <1>0, <1>2, <1>6 DEF Served
  <1>8. Served(t)'
    BY <1>1, <1>2, <1>3, <1>5, <1>7 DEF Served, task
  <1> QED BY <1>1, <1>3, <1>8 DEF Sole, task

LEMMA BeginServes ==
  ASSUME Setting, Begin, NEW t \in Timers, IsOn(t), Sole(t) PROVE Sole(t)'
  <1>1. /\ UNCHANGED <<list, timer, running, hw, irq, wasActive, age>>
        /\ interval' = MaxTimeout /\ taskPc = "wait"
    BY DEF Begin, history
  <1>2. list = <<t>> /\ list # <<>> /\ Head(list) = t /\ t # NoTimer
    BY TimerAssumption DEF Sole
  <1>3. at' = t /\ taskPc' = "visit"
    BY <1>2 DEF Begin, Goes
  <1> QED BY <1>1, <1>2, <1>3 DEF Sole, Served, Credit

LEMMA ActivateServes ==
  ASSUME Setting, History, Activate, NEW t \in Timers, Sole(t) PROVE Sole(t)'
  <1>0. TypeOK /\ age[t] \in Nat
    BY DEF Setting, TimerInv, History
  <1>1. /\ UNCHANGED <<list, running, hw, irq, age>> /\ taskPc = "visit"
        /\ at = t /\ list = <<t>> /\ interval = MaxTimeout
        /\ timer[t].status = "ready" /\ interval' = Lowered(timer[t].timeout)
        /\ timer[t].timeout <= MaxTimeout
    BY DEF Activate, Sole, history
  <1>2. taskPc' = "program"
    BY <1>1, AfterSole DEF Activate, Goes, Setting
  <1>3. Sets(t, "active")
    BY <1>1, TaskEffects DEF Setting, TimerInv
  <1>4. timer[t].remaining = timer[t].timeout /\ timer[t].timeout >= 1
    BY <1>1 DEF Setting, Periods, IsOn
  <1>5. interval' = timer[t].timeout
    BY <1>0, <1>1, CreditBounds DEF Lowered
  <1>6. ~running /\ ~irq /\ hw.on = running
    BY <1>1 DEF Sole, Setting, CounterFollows
  <1>7. Credit(t)' = 0
    BY <1>1, <1>3, <1>4, <1>6 DEF Credit, Sets, SameTimes
  <1>8. Served(t)'
    BY <1>0, <1>1, <1>2, <1>3, <1>4, <1>5, <1>6, <1>7
    DEF Served, Sets, SameTimes
  <1> QED BY <1>1, <1>2, <1>3, <1>8 DEF Sole, Sets, SameTimes

\* The timer is not called back before its period has passed.
LEMMA ExpiresInTime ==
  ASSUME Setting, History, NEW t \in Timers, Sole(t), timer[t].status = "active",
         timer[t].remaining = 0
  PROVE  ~IsEarly(t)
  <1>1. age[t] >= Credit(t) /\ age[t] \in Nat
    BY DEF Sole, Served, History
  <1>2. Credit(t) >= timer[t].timeout /\ Credit(t) \in Nat
    BY CreditBounds DEF Credit, Setting, TimerInv
  <1> QED BY <1>1, <1>2, CreditBounds DEF IsEarly, Setting, TimerInv

LEMMA ExpireServes ==
  ASSUME Setting, History, Expire, NEW t \in Timers, Sole(t),
         timer'[t].status \in On
  PROVE  Sole(t)'
  <1>0. TypeOK /\ age[t] \in Nat /\ VisitsTimer
    BY DEF Setting, TimerInv, History
  <1>1. at = t /\ list = <<t>> /\ interval = MaxTimeout
        /\ timer[t].status = "active" /\ timer[t].remaining = 0
        /\ UNCHANGED <<list, interval, irq, at>> /\ taskPc' = "callback"
        /\ wasActive' = timer[t].mode.repeats
    BY DEF Expire, Sole
  <1>2. timer[t].mode.repeats /\ timer'[t].status = "active"
        /\ timer'[t].timeout = timer[t].timeout
        /\ timer'[t].remaining = timer[t].timeout
    BY <1>0, <1>1, TaskEffects DEF On
  <1>3. UNCHANGED <<running, hw>>
    BY <1>1, <1>2 DEF Expire
  <1>4. age'[t] = age[t] - timer[t].timeout
    BY <1>1, <1>2, ExpiresInTime DEF Expire, History
  <1>5. Served(t) /\ timer[t].timeout >= 1
    BY <1>1 DEF Sole, Setting, Periods, IsOn
  <1>6. age'[t] >= Credit(t)'
    <2>1. Credit(t)' = Credit(t) - timer[t].timeout /\ Credit(t) \in Nat
      BY <1>0, <1>1, <1>2, <1>3, <1>5, CreditBounds DEF Credit
    <2> QED BY <1>0, <1>4, <1>5, <2>1, CreditBounds DEF Served
  <1>7. Served(t)'
    BY <1>1, <1>2, <1>3, <1>5, <1>6 DEF Served
  <1> QED BY <1>1, <1>2, <1>7 DEF Sole

LEMMA PassServes ==
  ASSUME Setting, CallbackReturns \/ Pass, NEW t \in Timers, IsOn(t), Sole(t)
  PROVE  Sole(t)'
  <1>0. TypeOK
    BY DEF Setting, TimerInv
  <1>1. /\ UNCHANGED <<list, timer, running, hw, irq, age>>
        /\ at = t /\ list = <<t>> /\ interval = MaxTimeout
        /\ taskPc \in {"visit", "callback"} /\ timer[t].timeout <= MaxTimeout
        /\ taskPc = "callback" => interval' = IF wasActive
             THEN Lowered(timer[t].remaining) ELSE interval
        /\ taskPc = "visit" => timer[t].status # "ready"
             /\ interval' = IF timer[t].status = "active"
                            THEN Lowered(timer[t].remaining) ELSE interval
    BY DEF CallbackReturns, Pass, Sole, history
  <1>2. taskPc' = "program"
    BY <1>1, AfterSole DEF CallbackReturns, Pass, Goes, Setting
  <1>3. timer[t].status = "active" /\ Served(t)
    BY <1>1 DEF Sole, IsOn
  <1>4. interval' = Lowered(timer[t].remaining)
    BY <1>1, <1>3 DEF Served
  <1>5. interval' \in {0, timer[t].timeout}
    BY <1>0, <1>1, <1>3, <1>4, CreditBounds DEF Lowered, Served
  <1>6. Served(t)'
    BY <1>1, <1>2, <1>3, <1>5 DEF Served, Credit
  <1> QED BY <1>1, <1>2, <1>3, <1>6 DEF Sole

LEMMA ProgramServes ==
  ASSUME Setting, History, Program, NEW t \in Timers, IsOn(t), Sole(t)
  PROVE  Sole(t)'
  <1>0. TypeOK /\ timer[t].timeout >= 1 /\ age[t] \in Nat
    BY DEF Setting, TimerInv, Periods, History
  <1>1. /\ UNCHANGED <<list, timer, wasActive, age>> /\ taskPc = "program"
        /\ taskPc' = "wait"
    BY DEF Program, history
  <1>2. timer[t].status = "active" /\ Served(t)
    BY <1>1 DEF Sole, IsOn
  <1>3. running' = TRUE /\ interval' = interval
    BY CountedOn DEF Program, Setting
  <1>4. Credit(t) \in Nat /\ Credit(t)' \in Nat /\ Credit(t)' <= Credit(t)
        /\ (\/ hw'.match = 0
            \/ hw'.match = timer[t].timeout /\ hw'.count < timer[t].timeout)
    <2>1. CASE MustProgram
      <3>1. hw' = Restarted(interval) /\ irq' = (irq /\ IrqOutlivesReset)
        BY <1>3, <2>1 DEF Program
      <3>2. hw'.on /\ hw'.count = 0 /\ hw'.match = interval /\ (irq' => irq)
        BY <3>1 DEF Restarted
      <3>3. irq' \in BOOLEAN
        BY <1>0, <3>1, TimerAssumption DEF TypeOK
      <3> QED BY <1>0, <1>1, <1>2, <3>2, <3>3, CreditBounds DEF Credit, Served
    <2>2. CASE ~MustProgram
      <3>1. UNCHANGED <<hw, irq>> /\ running
        BY <1>3, <2>2 DEF Program, MustProgram
      <3> QED BY <1>0, <1>1, <1>2, <3>1, CreditBounds DEF Credit, Served
    <2> QED BY <2>1, <2>2
  <1>5. age'[t] >= Credit(t)'
    BY <1>0, <1>1, <1>2, <1>4 DEF Served
  <1>6. Served(t)'
    BY <1>1, <1>2, <1>3, <1>4, <1>5 DEF Served
  <1> QED BY <1>1, <1>2, <1>6 DEF Sole

\* Only the timer's own start leaves it on and alone.
LEMMA CallServes ==
  ASSUME Setting, History, AloneInv, NEW u \in Timers, Call(u),
         NEW t \in Timers, alone'[t], timer'[t].status \in On,
         timer'[t].timeout <= MaxTimeout
  PROVE  Sole(t)'
  <1>0. TimerInv /\ TypeOK
    BY DEF Setting, TimerInv
  <1>1. CASE Open(u)
    BY <1>1 DEF Open
  <1>2. ASSUME u # t, ~Open(u) PROVE FALSE
    <2>0. Others(u)
      BY <1>0, <1>2, CallEffects, StartEffect DEF Call, Sets
    <2>1. timer'[t] = timer[t] /\ alone'[t] = alone[t]
      BY <1>2, <2>0 DEF Call, Others, Stop, Start, TimerEnable, Close, History
    <2>2. list = <<t>>
      BY <2>1 DEF AloneInv, Sole, IsOn, On
    <2>3. timer[u].status # "free"
      BY <1>0, <1>2
      DEF Call, Stop, Start, TimerEnable, Close, IsOn, TimerInv, StartingIsOff
    <2> QED BY <1>0, <1>2, <2>2, <2>3, OnlyOne
  <1>3. CASE u = t /\ TimerEnable(t)
    <2>1. list = <<t>> /\ taskPc = "wait" /\ list' = list /\ taskPc' = "wait"
          /\ running' = running /\ irq' = FALSE
      <3>1. alone'[t] = (list = <<t>> /\ taskPc = "wait")
        BY <1>3 DEF TimerEnable, History
      <3> QED BY <1>0, <1>3, <3>1
              DEF TimerEnable, Interruptible, task, TypeOK
    <2>2. timer[t].status = "inactive" /\ timer'[t].status = "ready"
      BY <1>0, <1>3, CallEffects DEF TimerEnable, TimerInv, StartingIsOff, Sets
    <2>3. \A v \in Timers : timer[v].status \notin On
      BY <1>0, <2>1, <2>2, OnlyOne DEF On
    <2>4. ~running
      <3>1. \A v \in Timers : timer[v].mode.lowPower \in BOOLEAN
        BY <1>0, TimerHasFields DEF Modes
      <3>2. NoneOn(counts)
        BY <1>0, <2>3, <3>1, NoneCounted, ExactCounts DEF TimerInv
      <3> QED BY <3>2 DEF Setting, CounterFollows
    <2> QED BY <2>1, <2>2, <2>4 DEF Sole
  <1>4. CASE u = t /\ ~TimerEnable(t) /\ ~Open(t)
    BY <1>0, <1>4, CallEffects, StartEffect DEF Call, Sets, On
  <1> QED BY <1>1, <1>2, <1>3, <1>4

LEMMA AloneKept ==
  ASSUME Setting, History, AloneInv, [Next]_vars PROVE AloneInv'
  <1> SUFFICES ASSUME NEW t \in Timers, alone'[t], timer'[t].status \in On,
                      timer'[t].timeout <= MaxTimeout
               PROVE  Sole(t)'
    BY DEF AloneInv, IsOn, On
  <1>1. CASE UNCHANGED vars
    <2>1. Sole(t)
      BY <1>1 DEF AloneInv, IsOn, On, vars, history
    <2> QED BY <1>1, <2>1 DEF Sole, Served, Credit, vars, task, history
  <1>2. CASE Quiet \/ HalTimerCallback \/ Activate \/ Expire
    <2>1. alone'[t] = alone[t]
      BY <1>2 DEF Quiet, Tick, Begin, CallbackReturns, Pass, Program,
                  HalTimerCallback, Activate, Expire, history
    <2>2. IsOn(t) /\ timer'[t].timeout = timer[t].timeout
      <3>1. CASE Quiet
        BY <3>1, QuietEffect DEF IsOn, On
      <3>2. CASE HalTimerCallback
        BY <3>2, InterruptEffect DEF IsOn, On, Setting, TimerInv
      <3>3. CASE Activate
        BY <3>3, TaskEffects
        DEF IsOn, On, Setting, TimerInv, Sets, SameTimes, Others, Activate
      <3>4. CASE Expire
        BY <3>4, TaskEffects DEF IsOn, On, Setting, TimerInv, Others, Expire
      <3> QED BY <1>2, <3>1, <3>2, <3>3, <3>4
    <2>3. Sole(t)
      BY <2>1, <2>2 DEF AloneInv
    <2> QED BY <1>2, <2>2, <2>3, TickServes, InterruptServes, BeginServes,
               ActivateServes, ExpireServes, PassServes, ProgramServes DEF Quiet
  <1> QED BY <1>1, <1>2, CallServes, NextCases

\* A timer that has had the counter to itself since it was started, with a
\* timeout the counter can hold, is never called back before as many periods have passed as it has been called back
\* for, whatever the callbacks take and however late interrupts are served.
THEOREM NeverEarlyWhenAlone == Spec => NeverEarlyAlone
  <1> DEFINE Inv == Setting /\ History /\ AloneInv
             InTime ==
               \A t \in Timers :
                 Expires(t) /\ alone[t] /\ timer[t].timeout <= MaxTimeout
                   => ~IsEarly(t)
  <1>1. Init => Inv
    BY SettingInit DEF Init, History, AloneInv
  <1>2. Inv /\ [Next]_vars => Inv'
    BY SettingNext, HistoryKept, AloneKept DEF Setting
  <1>3. Inv /\ [Next]_vars => [InTime]_vars
    <2> SUFFICES ASSUME Inv, [Next]_vars, NEW t \in Timers, Expires(t),
                        alone[t], timer[t].timeout <= MaxTimeout
                 PROVE  ~IsEarly(t)
      OBVIOUS
    <2>1. Expire
      <3>1. taskPc = "visit" /\ taskPc' = "callback" /\ at = t
        BY DEF Expires
      <3>2. ~Quiet /\ ~HalTimerCallback /\ ~Activate /\ ~UNCHANGED vars
        BY <3>1 DEF Quiet, Tick, Begin, CallbackReturns, Pass, Program,
                    HalTimerCallback, Activate, Goes, vars, task
      <3>3. \A u \in Timers : ~Call(u)
        BY <3>1 DEF Call, Open, Stop, Start, TimerEnable, Close, task
      <3> QED BY <3>2, <3>3, NextCases
    <2>2. at = t /\ timer[t].status = "active" /\ timer[t].remaining = 0
      BY <2>1 DEF Expires, Expire
    <2>3. Sole(t)
      BY <2>2 DEF AloneInv, IsOn
    <2> QED BY <2>2, <2>3, ExpiresInTime
  <1> HIDE DEF Inv, InTime
  <1>4. Spec => [][InTime]_vars
    BY <1>1, <1>2, <1>3, PTL DEF Spec
  <1> QED BY <1>4 DEF InTime, NeverEarlyAlone
=============================================================================
