---------------------------- MODULE TimerManager ----------------------------
(***************************************************************************)
(* timer_manager.c with ctimer_adapter.c: software timers multiplexed on   *)
(* one hardware counter.  The counter's interrupt takes the interval off   *)
(* every active timer and posts a message; the timer task then walks the   *)
(* list of timers, calls back those that expired, and programs the counter *)
(* with the smallest time that remains.                                    *)
(*                                                                         *)
(* The task's walk is one critical section, left only around a callback:   *)
(* it is one step per timer, during which time passes and nothing else     *)
(* happens.  Each timer is operated by one task of the application at a    *)
(* time, or by a callback.                                                 *)
(***************************************************************************)
EXTENDS Integers, FiniteSets, SequencesExt

CONSTANTS Timers,
          Uses,              \* modes and periods, in ticks, that the application
                             \* starts each timer with
          MaxTimeout,        \* HAL_TimerGetMaxTimeout
          QueueSize,         \* messages the common task's queue holds
          ReopensInCallback, \* a timer that others follow in the list may be
                             \* closed and opened again during one callback
          IrqOutlivesReset,  \* a pending interrupt stays pending in the NVIC
                             \* when the counter is reset
          NoTimer,           \* the NULL element
          MaxStarts          \* bound: calls of TM_Start

\* kTimerModeSingleShot or not, kTimerModeLowPowerTimer or not.
Modes == [repeats : BOOLEAN, lowPower : BOOLEAN]

ASSUME TimerAssumption ==
  /\ IsFiniteSet(Timers) /\ Cardinality(Timers) < 256  \* counted in a uint8_t
  /\ NoTimer \notin Timers
  /\ {ReopensInCallback, IrqOutlivesReset} \subseteq BOOLEAN
  /\ MaxTimeout \in Nat \ {0}
  /\ Uses \in [Timers -> SUBSET [mode : Modes, timeout : Nat \ {0}]]
  /\ QueueSize \in Nat \ {0} /\ MaxStarts \in Nat

VARIABLES list,        \* timerHead
          left,        \* next of each element that left it during the last
                       \* callback
          timer,       \* tmrStatus, timeoutInUs, remainingUs
          starting,    \* timers inside TM_Start, before TimerEnable
          counts,      \* numberOfLowPowerActiveTimers, numberOfActiveTimers
          interval,    \* mUsInTimerInterval
          running,     \* timerHardwareIsRunning
          programmed,  \* mpevUsInTimerInterval
          hw,          \* the counter: runs, its value, its match (0: none)
          irq,         \* the counter's interrupt is pending
          posted,      \* messages in the common task's queue
          taskPc, at,  \* TimerManagerTask and the element it looks at
          wasActive,   \* its copy of that timer's state, across the callback
          age, alone,  \* history: ticks since a timer was started, less the
                       \* periods it was called back for; it was started
                       \* while the task waited, and alone in the list since
          starts       \* history: calls of TM_Start

task == <<taskPc, at, wasActive>>
history == <<age, alone, starts>>
vars == <<list, left, timer, starting, counts, interval, running, programmed, hw,
          irq, posted, task, history>>

\* A handle that is zero memory.
Free == [status |-> "free", mode |-> [repeats |-> TRUE, lowPower |-> FALSE],
         timeout |-> 0, remaining |-> 0]

\* After TM_Init: the counter is set to a millisecond and does not run.
Init ==
  /\ list = <<>> /\ left = [t \in Timers |-> NoTimer]
  /\ timer = [t \in Timers |-> Free] /\ starting = {}
  /\ counts = [lowPower \in BOOLEAN |-> 0] /\ interval = 1 /\ running = FALSE
  /\ programmed = 0 /\ hw = [on |-> FALSE, count |-> 0, match |-> 1]
  /\ irq = FALSE /\ posted = 0
  /\ taskPc = "wait" /\ at = NoTimer /\ wasActive = FALSE
  /\ age = [t \in Timers |-> 0] /\ alone = [t \in Timers |-> FALSE]
  /\ starts = 0

IsOn(t) == timer[t].status \in {"ready", "active"}
NoneOn(c) == \A lowPower \in BOOLEAN : c[lowPower] = 0
InCriticalSection == taskPc \in {"visit", "program"}

\* Code that runs with interrupts enabled runs after a pending interrupt.
Interruptible == ~InCriticalSection /\ ~irq

\* Wrong variants of operators below, used by no definition.
PostedUnbounded == posted + 1
PlainWithout(t) == IF IsOn(t) THEN [counts EXCEPT ![FALSE] = @ - 1] ELSE counts
IntervalChanged == interval # programmed
CounterStopped == ~running
Continued(n) == [hw EXCEPT !.on = TRUE, !.match = n]

\* COMMON_TASK_post_message; the failure on a full queue is ignored.
Posted == IF posted < QueueSize THEN posted + 1 ELSE posted

-----------------------------------------------------------------------------
(* The hardware counter and HAL_TIMER_Callback *)

\* The counter restarts at its match.
Counted ==
  IF ~hw.on THEN hw
  ELSE [hw EXCEPT !.count = IF @ + 1 = hw.match THEN 0
                            ELSE IF @ < MaxTimeout THEN @ + 1 ELSE @]

\* Bound: periods a timer is late are counted up to three.
Older(t) == IF age[t] < 3 * timer[t].timeout THEN age[t] + 1 ELSE age[t]

Tick ==
  /\ hw' = Counted
  /\ irq' = (irq \/ (hw.on /\ hw.count + 1 = hw.match))
  /\ age' = [t \in Timers |-> IF IsOn(t) THEN Older(t) ELSE age[t]]
  /\ UNCHANGED <<list, left, timer, starting, counts, interval, running,
                 programmed, posted, task, alone, starts>>

Reduced(t) ==
  IF timer[t].remaining > interval THEN timer[t].remaining - interval ELSE 0

HalTimerCallback ==
  /\ irq /\ ~InCriticalSection /\ irq' = FALSE
  /\ timer' = [t \in Timers |->
                 IF timer[t].status = "active"
                 THEN [timer[t] EXCEPT !.remaining = Reduced(t)] ELSE timer[t]]
  /\ posted' = Posted
  /\ UNCHANGED <<list, left, starting, counts, interval, running, programmed,
                 hw, task, history>>

-----------------------------------------------------------------------------
(* The application's calls *)

\* TM_Stop, but for the status: the last timer stops the counter.
CountsWithout(t) ==
  IF IsOn(t) THEN [counts EXCEPT ![timer[t].mode.lowPower] = @ - 1] ELSE counts

CounterWithout(t) ==
  /\ counts' = CountsWithout(t)
  /\ IF IsOn(t) /\ NoneOn(counts') /\ running
     THEN running' = FALSE /\ hw' = [hw EXCEPT !.on = FALSE]
     ELSE UNCHANGED <<running, hw>>

Operates(t) == Interruptible /\ t \notin starting

Open(t) ==
  /\ Operates(t) /\ timer[t].status = "free"
  /\ left[t] # NoTimer => ReopensInCallback
  /\ timer' = [timer EXCEPT ![t].status = "inactive"]
  /\ list' = Append(list, t) /\ alone' = [u \in Timers |-> FALSE]
  /\ UNCHANGED <<left, starting, counts, interval, running, programmed, hw,
                 irq, posted, task, age, starts>>

Stop(t) ==
  /\ Operates(t) /\ IsOn(t) /\ CounterWithout(t)
  /\ timer' = [timer EXCEPT ![t].status = "inactive"]
  /\ age' = [age EXCEPT ![t] = 0]
  /\ UNCHANGED <<list, left, starting, interval, programmed, irq, posted, task,
                 alone, starts>>

\* TM_Start up to TimerEnable: the timer is stopped and given its parameters.
Start(t, use) ==
  /\ Operates(t) /\ timer[t].status # "free" /\ starts < MaxStarts
  /\ CounterWithout(t) /\ starting' = starting \cup {t} /\ starts' = starts + 1
  /\ timer' = [timer EXCEPT ![t] = [status |-> "inactive", mode |-> use.mode,
                             timeout |-> use.timeout, remaining |-> use.timeout]]
  /\ age' = [age EXCEPT ![t] = 0]
  /\ UNCHANGED <<list, left, interval, programmed, irq, posted, task, alone>>

TimerEnable(t) ==
  /\ Interruptible /\ t \in starting /\ starting' = starting \ {t}
  /\ counts' = [counts EXCEPT ![timer[t].mode.lowPower] = @ + 1]
  /\ timer' = [timer EXCEPT ![t].status = "ready"]
  /\ posted' = Posted
  /\ alone' = [alone EXCEPT ![t] = list = <<t>> /\ taskPc = "wait"]
  /\ UNCHANGED <<list, left, interval, running, programmed, hw, irq, task,
                 age, starts>>

\* Where an element is in the list.
Where(t) == CHOOSE i \in DOMAIN list : list[i] = t

\* LIST_GetNext: LIST_RemoveElement leaves the next of its element as it was,
\* which the walk follows if the elements it comes from left in one callback.
After(t) ==
  IF ~Contains(list, t) THEN left[t]
  ELSE IF Where(t) = Len(list) THEN NoTimer ELSE list[Where(t) + 1]

Close(t) ==
  /\ Operates(t) /\ timer[t].status # "free"
  /\ CounterWithout(t)
  /\ timer' = [timer EXCEPT ![t].status = "free", ![t].mode = Free.mode]
  /\ list' = RemoveAt(list, Where(t))
  /\ left' = IF taskPc = "callback" THEN [left EXCEPT ![t] = After(t)] ELSE left
  /\ age' = [age EXCEPT ![t] = 0]
  /\ UNCHANGED <<starting, interval, programmed, irq, posted, task, alone,
                 starts>>

-----------------------------------------------------------------------------
(* TimerManagerTask *)

Goes(t) == at' = t /\ taskPc' = (IF t = NoTimer THEN "program" ELSE "visit")
Lowered(n) == IF interval > n THEN n ELSE interval

Begin ==
  /\ Interruptible /\ taskPc = "wait" /\ posted > 0 /\ posted' = posted - 1
  /\ interval' = MaxTimeout
  /\ Goes(IF list = <<>> THEN NoTimer ELSE Head(list))
  /\ UNCHANGED <<list, left, timer, starting, counts, running, programmed, hw,
                 irq, wasActive, history>>

Activate ==
  /\ taskPc = "visit" /\ timer[at].status = "ready"
  /\ timer' = [timer EXCEPT ![at].status = "active"]
  /\ interval' = Lowered(timer[at].timeout)
  /\ Goes(After(at))
  /\ UNCHANGED <<list, left, starting, counts, running, programmed, hw, irq,
                 posted, wasActive, history>>

IsEarly(t) == age[t] < timer[t].timeout

\* An expired timer restarts or stops, and is called back.
Expire ==
  /\ taskPc = "visit" /\ timer[at].status = "active" /\ timer[at].remaining = 0
  /\ IF timer[at].mode.repeats
     THEN /\ timer' = [timer EXCEPT ![at].remaining = timer[at].timeout]
          /\ UNCHANGED <<counts, running, hw>>
     ELSE /\ timer' = [timer EXCEPT ![at].status = "inactive"]
          /\ CounterWithout(at)
  /\ wasActive' = timer[at].mode.repeats
  /\ taskPc' = "callback" /\ left' = [t \in Timers |-> NoTimer]
  /\ age' = [age EXCEPT ![at] = IF IsEarly(at) \/ ~timer[at].mode.repeats THEN 0
                                ELSE @ - timer[at].timeout]
  /\ UNCHANGED <<list, starting, interval, programmed, irq, posted, at,
                 alone, starts>>

CallbackReturns ==
  /\ Interruptible /\ taskPc = "callback"
  /\ interval' = IF wasActive THEN Lowered(timer[at].remaining) ELSE interval
  /\ Goes(After(at)) /\ wasActive' = FALSE
  /\ UNCHANGED <<list, left, timer, starting, counts, running, programmed, hw,
                 irq, posted, history>>

Pass ==
  /\ taskPc = "visit" /\ timer[at].status # "ready"
  /\ timer[at].status = "active" => timer[at].remaining > 0
  /\ interval' = IF timer[at].status = "active"
                 THEN Lowered(timer[at].remaining) ELSE interval
  /\ Goes(After(at))
  /\ UNCHANGED <<list, left, timer, starting, counts, running, programmed, hw,
                 irq, posted, wasActive, history>>

MustProgram == interval # programmed \/ ~running

\* HAL_TimerUpdateTimeout resets the counter, and refuses a timeout of zero
\* after that.
Restarted(n) == [on |-> TRUE, count |-> 0, match |-> n]

Program ==
  /\ taskPc = "program" /\ taskPc' = "wait"
  /\ running' = ~NoneOn(counts)
  /\ CASE running' /\ MustProgram ->
            /\ hw' = Restarted(interval) /\ programmed' = interval
            /\ irq' = (irq /\ IrqOutlivesReset)
       [] ~running' /\ running ->
            hw' = [hw EXCEPT !.on = FALSE] /\ UNCHANGED <<programmed, irq>>
       [] OTHER -> UNCHANGED <<hw, programmed, irq>>
  /\ interval' = IF running /\ ~running' THEN 0 ELSE interval
  /\ left' = [t \in Timers |-> NoTimer] /\ at' = NoTimer
  /\ UNCHANGED <<list, timer, starting, counts, posted, wasActive, history>>

Task == Begin \/ Activate \/ Expire \/ CallbackReturns \/ Pass \/ Program

Next ==
  \/ Tick \/ HalTimerCallback \/ Task
  \/ \E t \in Timers :
       \/ Open(t) \/ Stop(t) \/ TimerEnable(t) \/ Close(t)
       \/ \E use \in Uses[t] : Start(t, use)

\* Time passes, the interrupt is served, the task and a call of TM_Start come
\* to run between interrupts; the application need not call anything.
Fairness ==
  /\ WF_vars(Tick) /\ WF_vars(HalTimerCallback) /\ SF_vars(Task)
  /\ \A t \in Timers : SF_vars(TimerEnable(t))

Spec == Init /\ [][Next]_vars /\ Fairness

-----------------------------------------------------------------------------
(* Properties *)

TypeOK ==
  /\ list \in Seq(Timers) /\ starting \subseteq Timers
  /\ left \in [Timers -> Timers \cup {NoTimer}]
  /\ timer \in [Timers -> [status : {"free", "inactive", "ready", "active"},
                           mode : Modes, timeout : Nat, remaining : Nat]]
  /\ counts \in [BOOLEAN -> Nat] /\ interval \in 0 .. MaxTimeout
  /\ running \in BOOLEAN /\ programmed \in 0 .. MaxTimeout
  /\ hw \in [on : BOOLEAN, count : 0 .. MaxTimeout, match : 0 .. MaxTimeout]
  /\ irq \in BOOLEAN /\ posted \in 0 .. QueueSize
  /\ taskPc \in {"wait", "visit", "callback", "program"}
  /\ at \in Timers \cup {NoTimer} /\ wasActive \in BOOLEAN

\* The counters that decide whether the hardware runs are the numbers of
\* timers that are on, whatever the task stops while the application starts.
CountsExact ==
  \A lowPower \in BOOLEAN :
    counts[lowPower] =
      Cardinality({t \in Timers : IsOn(t) /\ timer[t].mode.lowPower = lowPower})

\* At rest, the counter runs and interrupts no later than any active timer is
\* due (timer_manager.c, TimerManagerTask): none is forgotten.
Covered ==
  taskPc = "wait" /\ posted = 0 /\ ~irq =>
    \A t \in Timers :
      /\ timer[t].status # "ready"
      /\ timer[t].status = "active" =>
           hw.on /\ hw.match \in 1 .. timer[t].remaining

Expires(t) == taskPc = "visit" /\ taskPc' = "callback" /\ at = t

\* timer_manager.h: a timer expires after its timeout.
NeverEarly == [][\A t \in Timers : Expires(t) => ~IsEarly(t)]_vars

\* A timer that has had the counter to itself since it was started, and whose
\* timeout the counter can hold, is never called back early, even if it is
\* restarted, its callback takes longer than its period, or interrupts are
\* late.
NeverEarlyAlone ==
  [][\A t \in Timers :
       Expires(t) /\ alone[t] /\ timer[t].timeout <= MaxTimeout
         => ~IsEarly(t)]_vars

\* A timer that is on is called back, or the application stops it; starts of
\* other timers set the counter back, so their number must be finite.
Fires ==
  \A t \in Timers : IsOn(t) ~> ~IsOn(t) \/ (taskPc = "callback" /\ at = t)
=============================================================================
