------------------------ MODULE SerialManagerProofs ------------------------
(***************************************************************************)
(* Proofs about the writing half of the serial manager, for any number of  *)
(* handles and callers, of any priorities, blocking or not. Most assume    *)
(* that no write is cancelled; types hold for every usage, and the lists   *)
(* also when one caller below the task cancels what it wrote.              *)
(***************************************************************************)
EXTENDS SerialManager, FiniteSetTheorems, SequenceTheorems,
        WellFoundedInduction, TLAPS

Distinct(s) == \A i, j \in 1 .. Len(s) : s[i] = s[j] => i = j

\* The calls of a caller that only writes; it is about to start a transfer.
Starting == {"get", "test", "set", "send"}
Starter(c) == call[c].pc \in Starting

Calls == [pc : Starting \cup {"idle", "spin"}, handle : Handles \cup {None},
          then : {"write", "callback", "end"}, closing : BOOLEAN,
          start : Handles \cup {None}, victim : Handles \cup {None},
          wasBusy : BOOLEAN]

WriteType ==
  /\ usage \in Usages /\ opened \subseteq Handles
  /\ running \in Seq(Handles) /\ completed \in Seq(Handles)
  /\ buffer \in [Handles -> BOOLEAN] /\ soFar \in [Handles -> BOOLEAN]
  /\ status \in [Handles -> {"success", "canceled"}]
  /\ busy \in BOOLEAN /\ hal \in Handles \cup {None}
  /\ posted \in 0 .. QueueSize
  /\ call \in [Callers -> Calls]
  /\ taskPc \in {"wait", "drain", "remove", "free", "call"}
  /\ taskHandle \in Handles \cup {None}
  /\ sent \in [Handles -> BOOLEAN] /\ order \in Seq(Handles)

\* A caller inside a call works for a handle of its own.
CallsOwn ==
  \A c \in Callers :
    call[c].pc # "idle" =>
      /\ call[c].handle \in Handles /\ usage.owner[call[c].handle] = c
      /\ call[c].then = "write"

\* Each handle in use is in one place: it waits to be sent, it waits to be
\* called back, or the task has it.
Places ==
  /\ opened = Handles /\ usage.cancels = {}
  /\ Distinct(running) /\ Distinct(completed)
  /\ \A w \in Handles : Contains(running, w) =>
       /\ ~Contains(completed, w) /\ buffer[w] /\ ~soFar[w] /\ ~sent[w]
  /\ \A w \in Handles : Contains(completed, w) =>
       buffer[w] /\ sent[w] /\ w \notin usage.blocking
  /\ taskPc = "remove" => completed # <<>> /\ taskHandle = Head(completed)
  /\ taskPc = "free" =>
       /\ taskHandle \in Handles /\ buffer[taskHandle] /\ sent[taskHandle]
       /\ ~Contains(running, taskHandle) /\ ~Contains(completed, taskHandle)
  /\ taskPc = "call" => taskHandle \in Handles

\* A caller that is about to start a transfer is alone, and starts the first
\* handle on an idle port; without one the port sends the first handle.
Port ==
  /\ \A c \in Callers : Starter(c) =>
       /\ hal = None /\ running # <<>> /\ (busy <=> call[c].pc = "send")
       /\ call[c].handle = Head(running)
       /\ call[c].pc # "get" => call[c].start = Head(running)
       /\ \A d \in Callers : Starter(d) => d = c
  /\ (\A c \in Callers : ~Starter(c)) =>
       /\ busy <=> running # <<>>
       /\ hal = First(running)

\* A blocking writer that stops waiting sees its bytes out.
SpinEnds ==
  \A c \in Callers :
    call[c].pc = "spin" /\ soFar[call[c].handle] => sent[call[c].handle]

WriteInv == WriteType /\ CallsOwn /\ Places /\ Port /\ SpinEnds

\* The requests not yet called back: that of the handle the task has, those of
\* the completed list, and then those that wait to be sent, in their order.
Returned == taskPc \in {"free", "call"}
Before == Len(completed) + IF Returned THEN 1 ELSE 0
Waits(i) == i \in Before + 1 .. Len(order)

Orders ==
  /\ Before <= Len(order)
  /\ Returned => order[1] = taskHandle
  /\ \A i \in 1 .. Len(completed) :
       completed[i] = order[i + IF Returned THEN 1 ELSE 0]
  /\ \A i : Waits(i) =>
       order[i] \notin usage.blocking /\ Contains(running, order[i])
  /\ \A m \in 1 .. Len(running) : running[m] \notin usage.blocking =>
       \E i : Waits(i) /\ order[i] = running[m]
  /\ \A i, j : Waits(i) /\ Waits(j) /\ i < j =>
       \A m, n \in 1 .. Len(running) :
         running[m] = order[i] /\ running[n] = order[j] => m < n

-----------------------------------------------------------------------------
(* Lists as sequences without repetition *)

LEMMA AppendedTo ==
  ASSUME NEW S, NEW s \in Seq(S), NEW w \in S
  PROVE  /\ Append(s, w) \in Seq(S) /\ Append(s, w) # <<>>
         /\ Len(Append(s, w)) = Len(s) + 1
         /\ Head(Append(s, w)) = IF s = <<>> THEN w ELSE Head(s)
         /\ \A u : Contains(Append(s, w), u) <=> Contains(s, u) \/ u = w
         /\ Distinct(s) /\ ~Contains(s, w) => Distinct(Append(s, w))
  <1> DEFINE r == Append(s, w)
  <1>1. /\ r \in Seq(S) /\ Len(r) = Len(s) + 1 /\ Len(s) \in Nat
        /\ \A i \in 1 .. Len(s) : r[i] = s[i]
        /\ r[Len(s) + 1] = w
    BY AppendProperties, LenProperties
  <1>2. r # <<>>
    BY <1>1, EmptySeq
  <1>3. Head(r) = r[1]
    BY <1>1, <1>2
  <1>4. Head(r) = IF s = <<>> THEN w ELSE Head(s)
    <2>1. CASE s = <<>>
      BY <1>1, <1>3, <2>1
    <2>2. CASE s # <<>>
      <3>1. 1 \in 1 .. Len(s)
        BY <1>1, <2>2, EmptySeq
      <3> QED BY <1>1, <1>3, <2>2, <3>1
    <2> QED BY <2>1, <2>2
  <1>5. ASSUME NEW u PROVE Contains(r, u) <=> Contains(s, u) \/ u = w
    BY <1>1 DEF Contains
  <1>6. Distinct(s) /\ ~Contains(s, w) => Distinct(r)
    BY <1>1 DEF Distinct, Contains
  <1> QED BY <1>1, <1>2, <1>4, <1>5, <1>6

LEMMA TakenFrom ==
  ASSUME NEW S, NEW s \in Seq(S), s # <<>>, Distinct(s)
  PROVE  /\ Head(s) \in S /\ Contains(s, Head(s)) /\ Head(s) = s[1]
         /\ Tail(s) \in Seq(S) /\ Distinct(Tail(s))
         /\ \A u : Contains(Tail(s), u) <=> Contains(s, u) /\ u # Head(s)
  <1>1. /\ Head(s) \in S /\ Tail(s) \in Seq(S) /\ Len(Tail(s)) = Len(s) - 1
        /\ \A i \in 1 .. Len(Tail(s)) : Tail(s)[i] = s[i + 1]
        /\ Len(s) \in Nat \ {0} /\ Head(s) = s[1]
    BY HeadTailProperties, EmptySeq
  <1>2. 1 \in 1 .. Len(s)
    BY <1>1
  <1>3. Distinct(Tail(s))
    <2> SUFFICES ASSUME NEW i \in 1 .. Len(Tail(s)), NEW j \in 1 .. Len(Tail(s)),
                        Tail(s)[i] = Tail(s)[j]
                 PROVE  i = j
      BY DEF Distinct
    <2>1. i + 1 \in 1 .. Len(s) /\ j + 1 \in 1 .. Len(s) /\ s[i + 1] = s[j + 1]
      BY <1>1
    <2>2. i + 1 = j + 1
      BY <2>1 DEF Distinct
    <2> QED BY <2>2
  <1>4. ASSUME NEW u PROVE Contains(Tail(s), u) <=> Contains(s, u) /\ u # Head(s)
    <2>1. ASSUME NEW i \in 1 .. Len(Tail(s)), Tail(s)[i] = u
          PROVE  Contains(s, u) /\ u # Head(s)
      <3>1. i + 1 \in 1 .. Len(s) /\ s[i + 1] = u /\ i + 1 # 1
        BY <1>1, <2>1
      <3> QED BY <1>1, <1>2, <3>1 DEF Contains, Distinct
    <2>2. ASSUME NEW i \in 1 .. Len(s), s[i] = u, u # Head(s)
          PROVE  Contains(Tail(s), u)
      <3>1. i - 1 \in 1 .. Len(Tail(s)) /\ Tail(s)[i - 1] = s[(i - 1) + 1]
        BY <1>1, <2>2
      <3>2. Tail(s)[i - 1] = u
        BY <2>2, <3>1
      <3> QED BY <3>1, <3>2 DEF Contains
    <2> QED BY <2>1, <2>2 DEF Contains
  <1> QED BY <1>1, <1>2, <1>3, <1>4 DEF Contains

LEMMA NothingIn == \A u : ~Contains(<<>>, u)
  BY DEF Contains

LEMMA FirstFacts ==
  ASSUME NEW s \in Seq(Handles)
  PROVE  /\ s = <<>> => First(s) = None
         /\ s # <<>> => First(s) = Head(s) /\ First(s) \in Handles
                        /\ First(s) # None
  BY HeadTailProperties, SerialAssumption DEF First

LEMMA RemovingFirst ==
  ASSUME NEW S, NEW s \in Seq(S), s # <<>>
  PROVE  RemoveFirst(s, s[1]) = Tail(s)
  <1> DEFINE I == {i \in 1 .. Len(s) : s[i] = s[1]}
  <1>1. Len(s) \in Nat \ {0} /\ 1 \in I /\ \A i \in I : i \in Nat /\ 1 <= i
    BY EmptySeq, LenProperties
  <1>2. SelectInSeq(s, LAMBDA v : v = s[1]) = Min(I) /\ I # {}
    BY <1>1 DEF SelectInSeq
  <1>3. Min(I) = 1
    <2>1. \A x \in I : (\A y \in I : x <= y) => x = 1
      BY <1>1
    <2> QED BY <1>1, <2>1 DEF Min
  <1>4. RemoveFirst(s, s[1]) = SubSeq(s, 1, 0) \o SubSeq(s, 2, Len(s))
    <2>1. \E i \in 1 .. Len(s) : s[i] = s[1]
      BY <1>1
    <2>2. SelectInSeq(s, LAMBDA v : v = s[1]) = 1
      BY <1>2, <1>3
    <2>3. RemoveFirst(s, s[1]) = RemoveAt(s, 1)
      BY <2>1, <2>2 DEF RemoveFirst
    <2>4. 1 - 1 = 0 /\ 1 + 1 = 2
      OBVIOUS
    <2> QED BY <2>3, <2>4 DEF RemoveAt
  <1>5. SubSeq(s, 1, 0) = <<>> /\ SubSeq(s, 2, Len(s)) \in Seq(S)
        /\ Len(SubSeq(s, 2, Len(s))) = Len(s) - 1
        /\ \A i \in 1 .. Len(s) - 1 : SubSeq(s, 2, Len(s))[i] = s[i + 1]
    <2>1. \A i \in 2 .. Len(s) : s[i] \in S
      BY <1>1, ElementOfSeq
    <2>2. 1 \in Int /\ 0 \in Int /\ 0 < 1 /\ 2 \in Int /\ Len(s) \in Int
      BY <1>1
    <2>3. /\ SubSeq(s, 2, Len(s)) \in Seq(S)
          /\ Len(SubSeq(s, 2, Len(s))) =
               IF 2 <= Len(s) THEN Len(s) - 2 + 1 ELSE 0
          /\ \A i \in 1 .. Len(s) - 2 + 1 :
               SubSeq(s, 2, Len(s))[i] = s[2 + i - 1]
      BY <2>1, <2>2, SubSeqProperties
    <2>5. SubSeq(s, 1, 0) = <<>>
      BY <2>2, SubSeqEmpty
    <2>6. Len(SubSeq(s, 2, Len(s))) = Len(s) - 1
      <3>1. Len(s) \in Nat \ {0}
        BY <1>1
      <3>2. CASE 2 <= Len(s)
        <4>1. Len(SubSeq(s, 2, Len(s))) = Len(s) - 2 + 1
          BY <2>3, <3>2
        <4> QED BY <3>1, <4>1
      <3>3. CASE ~(2 <= Len(s))
        <4>1. Len(SubSeq(s, 2, Len(s))) = 0
          BY <2>3, <3>3
        <4>2. \A n \in Nat \ {0} : ~(2 <= n) => 0 = n - 1
          OBVIOUS
        <4> QED BY <3>1, <3>3, <4>1, <4>2
      <3> QED BY <3>2, <3>3
    <2>7. \A i \in 1 .. Len(s) - 1 : SubSeq(s, 2, Len(s))[i] = s[i + 1]
      <3> SUFFICES ASSUME NEW i \in 1 .. Len(s) - 1
                   PROVE  SubSeq(s, 2, Len(s))[i] = s[i + 1]
        OBVIOUS
      <3>1. i \in 1 .. Len(s) - 2 + 1
        BY <1>1
      <3>2. 2 + i - 1 = i + 1
        OBVIOUS
      <3> QED BY <2>3, <3>1, <3>2
    <2> QED BY <2>3, <2>5, <2>6, <2>7
  <1>6. /\ Tail(s) \in Seq(S) /\ Len(Tail(s)) = Len(s) - 1
        /\ \A i \in 1 .. Len(Tail(s)) : Tail(s)[i] = s[i + 1]
    BY HeadTailProperties
  <1>7. SubSeq(s, 2, Len(s)) = Tail(s)
    BY <1>1, <1>5, <1>6, SeqEqual
  <1>8. <<>> \o Tail(s) = Tail(s)
    BY <1>6, ConcatEmptySeq
  <1> QED BY <1>4, <1>5, <1>7, <1>8

-----------------------------------------------------------------------------
(* The queue of the common task *)

LEMMA EmptyQueue == 0 \in 0 .. QueueSize
  BY SerialAssumption

LEMMA Posting ==
  ASSUME posted \in 0 .. QueueSize, Post
  PROVE  /\ posted' \in 0 .. QueueSize
         /\ posted # 0 => posted' # 0
         /\ ~usage.crowded => posted' # 0
  BY SerialAssumption DEF Post

LEMMA Waking ==
  ASSUME posted \in 0 .. QueueSize, TaskWakes
  PROVE  posted' \in 0 .. QueueSize
  BY SerialAssumption DEF TaskWakes

-----------------------------------------------------------------------------
(* The steps of a caller that starts a transfer *)

\* Which steps there are when nobody cancels.
LEMMA StepsOfWriters ==
  ASSUME WriteInv, Next
  PROVE  \/ TxIdle \/ ReadPosts \/ Task
         \/ \E c \in Callers :
              \/ StartGet(c) \/ StartTest(c) \/ StartSet(c) \/ StartSend(c)
              \/ Spin(c)
              \/ \E w \in Handles : Write(c, w)
  <1>1. ASSUME NEW c \in Callers
        PROVE  ~(\/ CancelQueued(c) \/ CancelComplete(c) \/ CancelFirst(c)
                 \/ PortCancel(c) \/ PortAbort(c) \/ PortCallback(c)
                 \/ PortUnlink(c) \/ CallbackEnd(c) \/ Close(c))
    <2>1. call[c].pc \in Starting \cup {"idle", "spin"}
      BY DEF WriteInv, WriteType, Calls
    <2> QED
      BY <2>1 DEF CancelQueued, CancelComplete, CancelFirst, PortCancel,
         PortAbort, PortCallback, PortUnlink, CallbackEnd, Close, At, Starting
  <1>2. ASSUME NEW c \in Callers, NEW w \in Handles
        PROVE  /\ ~Open(c, w)
               /\ \A closing \in BOOLEAN : ~Cancel(c, w, closing)
    BY DEF WriteInv, Places, Open, Cancel
  <1> QED BY <1>1, <1>2 DEF Next, Proceed, Begin

\* A caller changes its own call only.
LEMMA OneCall ==
  ASSUME WriteType, NEW c \in Callers, NEW x \in Calls,
         call' = [call EXCEPT ![c] = x]
  PROVE  /\ call' \in [Callers -> Calls] /\ call'[c] = x
         /\ \A d \in Callers : d # c => call'[d] = call[d]
  BY DEF WriteType

LEMMA StartSteps ==
  ASSUME WriteInv, NEW c \in Callers,
         StartGet(c) \/ StartTest(c) \/ StartSet(c) \/ StartSend(c)
  PROVE  WriteInv'
  <1> USE DEF WriteInv, handleVars, portVars, taskVars, history
  <1>1. /\ call \in [Callers -> Calls] /\ c \in Callers
        /\ Starter(c) /\ hal = None /\ running # <<>>
        /\ (busy <=> call[c].pc = "send")
        /\ call[c].handle = Head(running) /\ call[c].handle \in Handles
        /\ call[c].pc # "get" => call[c].start = Head(running)
        /\ \A d \in Callers : Starter(d) => d = c
        /\ call[c].then = "write" /\ usage.owner[call[c].handle] = c
    BY DEF StartGet, StartTest, StartSet, StartSend, At, Starter, Starting,
           Port, CallsOwn, WriteType
  <1>2. UNCHANGED <<usage, opened, handleVars, posted, taskVars, history>>
    BY DEF StartGet, StartTest, StartSet, StartSend, OnlyCalls
  <1>3. Places'
    BY <1>2 DEF Places
  <1>4. Head(running) \in Handles /\ First(running) = Head(running)
    BY <1>1, FirstFacts DEF WriteType
  <1>5. CASE \/ StartGet(c) \/ StartTest(c) \/ StartSet(c)
    <2>1. PICK x \in Calls :
            /\ call' = [call EXCEPT ![c] = x]
            /\ x.pc \in {"test", "set", "send"}
            /\ x.handle = call[c].handle /\ x.then = "write"
            /\ x.start = Head(running)
            /\ hal' = hal /\ busy' \in BOOLEAN /\ (busy' <=> x.pc = "send")
      <3>1. CASE StartGet(c)
        <4>1. /\ call' = [call EXCEPT ![c] = [call[c] EXCEPT !.pc = "test",
                                              !.start = Head(running)]]
              /\ UNCHANGED <<hal, busy>> /\ call[c].pc = "get"
          BY <1>1, <3>1 DEF StartGet, OnlyCalls, At
        <4>2. [call[c] EXCEPT !.pc = "test", !.start = Head(running)] \in Calls
          BY <1>1, <1>4 DEF Calls, Starting
        <4> QED BY <1>1, <4>1, <4>2 DEF Calls, WriteType
      <3>2. CASE StartTest(c)
        <4>1. /\ call' = [call EXCEPT ![c] = [call[c] EXCEPT !.pc = "set"]]
              /\ UNCHANGED <<hal, busy>> /\ call[c].pc = "test"
          BY <1>1, <3>2 DEF StartTest, OnlyCalls, At, Goto
        <4>2. [call[c] EXCEPT !.pc = "set"] \in Calls
          BY <1>1 DEF Calls, Starting
        <4> QED BY <1>1, <4>1, <4>2 DEF Calls, WriteType
      <3>3. CASE StartSet(c)
        <4>1. /\ call' = [call EXCEPT ![c] = [call[c] EXCEPT !.pc = "send"]]
              /\ hal' = hal /\ busy' = TRUE /\ call[c].pc = "set"
          BY <1>1, <3>3 DEF StartSet, At, Goto
        <4>2. [call[c] EXCEPT !.pc = "send"] \in Calls
          BY <1>1 DEF Calls, Starting
        <4> QED BY <1>1, <4>1, <4>2 DEF Calls
      <3> QED BY <1>5, <3>1, <3>2, <3>3
    <2>2. /\ call' \in [Callers -> Calls] /\ call'[c] = x
          /\ \A d \in Callers : d # c => call'[d] = call[d]
      BY <2>1, OneCall
    <2>3. WriteType'
      BY <1>2, <2>1, <2>2 DEF WriteType
    <2>4. CallsOwn'
      BY <1>1, <1>2, <2>1, <2>2 DEF CallsOwn
    <2>5. \A d \in Callers : Starter(d)' <=> d = c
      BY <1>1, <2>1, <2>2 DEF Starter, Starting
    <2>6. Port'
      BY <1>1, <1>2, <2>1, <2>2, <2>5 DEF Port
    <2>7. SpinEnds'
      BY <1>2, <2>1, <2>2 DEF SpinEnds
    <2> QED BY <1>3, <2>3, <2>4, <2>6, <2>7
  <1>6. CASE StartSend(c)
    <2>1. /\ hal' = Head(running) /\ busy' = busy /\ busy
          /\ Continue(c, TRUE)
      BY <1>1, <1>6 DEF StartSend, At
    <2>2. PICK x \in Calls :
            /\ call' = [call EXCEPT ![c] = x]
            /\ x.pc = "spin" \/ x.pc = "idle"
            /\ x.pc = "spin" => x.handle = call[c].handle /\ x.then = "write"
      <3>1. /\ [call[c] EXCEPT !.pc = "spin"] \in Calls
            /\ [call[c] EXCEPT !.pc = "spin"].pc = "spin"
            /\ [call[c] EXCEPT !.pc = "spin"].handle = call[c].handle
            /\ [call[c] EXCEPT !.pc = "spin"].then = "write"
        BY <1>1 DEF Calls
      <3>2. NoCall \in Calls /\ NoCall.pc = "idle"
        BY DEF NoCall, Call, Calls
      <3>3. \/ call' = [call EXCEPT ![c] = [call[c] EXCEPT !.pc = "spin"]]
            \/ call' = [call EXCEPT ![c] = NoCall]
        BY <1>1, <2>1 DEF Continue, Goto, Leave
      <3> QED BY <3>1, <3>2, <3>3
    <2>3. /\ call' \in [Callers -> Calls] /\ call'[c] = x
          /\ \A d \in Callers : d # c => call'[d] = call[d]
      BY <2>2, OneCall
    <2>4. WriteType'
      BY <1>2, <1>4, <2>1, <2>3 DEF WriteType
    <2>5. CallsOwn'
      BY <1>1, <1>2, <2>2, <2>3 DEF CallsOwn
    <2>6. \A d \in Callers : ~Starter(d)'
      BY <1>1, <2>2, <2>3 DEF Starter, Starting
    <2>7. Port'
      BY <1>1, <1>2, <1>4, <2>1, <2>6 DEF Port, First
    <2>8. ~soFar[call[c].handle]
      <3>1. Contains(running, Head(running))
        BY <1>1, TakenFrom DEF WriteType, Places
      <3> QED BY <1>1, <3>1 DEF Places
    <2>9. SpinEnds'
      BY <1>2, <2>2, <2>3, <2>8 DEF SpinEnds
    <2> QED BY <1>3, <2>4, <2>5, <2>7, <2>9
  <1> QED BY <1>5, <1>6

LEMMA SpinStep ==
  ASSUME WriteInv, NEW c \in Callers, Spin(c) PROVE WriteInv'
  <1> USE DEF WriteInv, handleVars, portVars, taskVars, history
  <1>1. /\ UNCHANGED <<usage, opened, handleVars, portVars, posted, taskVars,
                       history>>
        /\ call' = [call EXCEPT ![c] = NoCall] /\ call[c].pc = "spin"
    BY DEF Spin, At, OnlyCalls, Leave
  <1>2. NoCall \in Calls /\ NoCall.pc = "idle"
    BY DEF NoCall, Call, Calls
  <1>3. /\ call' \in [Callers -> Calls] /\ call'[c] = NoCall
        /\ \A d \in Callers : d # c => call'[d] = call[d]
    BY <1>1, <1>2, OneCall
  <1>4. \A d \in Callers : Starter(d)' <=> Starter(d)
    BY <1>1, <1>2, <1>3 DEF Starter, Starting
  <1>5. WriteType' /\ CallsOwn' /\ Places' /\ SpinEnds'
    BY <1>1, <1>2, <1>3 DEF WriteType, CallsOwn, Places, SpinEnds
  <1>6. Port'
    BY <1>1, <1>3, <1>4, <1>2 DEF Port, Starter, Starting
  <1> QED BY <1>5, <1>6

-----------------------------------------------------------------------------
(* The critical section of a write *)

LEMMA WriteStep ==
  ASSUME WriteInv, NEW c \in Callers, NEW w \in Handles, Write(c, w)
  PROVE  WriteInv'
  <1> USE DEF WriteInv, handleVars, portVars, taskVars, history
  <1>1. /\ call[c].pc = "idle" /\ usage.owner[w] = c /\ ~buffer[w]
        /\ buffer' = [buffer EXCEPT ![w] = TRUE]
        /\ soFar' = [soFar EXCEPT ![w] = FALSE]
        /\ sent' = [sent EXCEPT ![w] = FALSE]
        /\ running' = Append(running, w)
        /\ UNCHANGED <<usage, opened, completed, status, portVars, posted,
                       taskVars>>
    BY DEF Write, At, Unused
  <1>2. /\ buffer'[w] /\ ~soFar'[w] /\ ~sent'[w]
        /\ \A u \in Handles : u # w => /\ buffer'[u] = buffer[u]
                                       /\ soFar'[u] = soFar[u]
                                       /\ sent'[u] = sent[u]
        /\ buffer' \in [Handles -> BOOLEAN] /\ soFar' \in [Handles -> BOOLEAN]
        /\ sent' \in [Handles -> BOOLEAN]
    BY <1>1 DEF WriteType
  <1>3. ~Contains(running, w) /\ ~Contains(completed, w)
    BY <1>1 DEF Places
  <1>4. /\ running' \in Seq(Handles) /\ running' # <<>> /\ Distinct(running')
        /\ Head(running') = IF running = <<>> THEN w ELSE Head(running)
        /\ \A u : Contains(running', u) <=> Contains(running, u) \/ u = w
    <2>1. running \in Seq(Handles) /\ Distinct(running)
      BY DEF WriteType, Places
    <2> QED BY <1>1, <1>3, <2>1, AppendedTo
  <1>5. order' \in Seq(Handles)
    BY AppendProperties DEF Write, WriteType
  <1>6. Places'
    BY <1>1, <1>2, <1>3, <1>4 DEF Places
  <1>7. /\ call' \in [Callers -> Calls]
        /\ \A d \in Callers : d # c => call'[d] = call[d]
        /\ call'[c].pc # "idle" => call'[c].handle = w /\ call'[c].then = "write"
        /\ call'[c].pc = IF running = <<>> THEN "get"
                         ELSE IF w \in usage.blocking THEN "spin" ELSE "idle"
    <2> DEFINE x == CASE IsEmpty(running) -> Call("get", w, "write", FALSE)
                      [] ~IsEmpty(running) /\ w \in usage.blocking ->
                           Call("spin", w, "write", FALSE)
                      [] OTHER -> call[c]
    <2>1. /\ Call("get", w, "write", FALSE) \in Calls
          /\ Call("spin", w, "write", FALSE) \in Calls
      BY DEF Call, Calls, Starting
    <2>2. x \in Calls
      BY <2>1 DEF WriteType
    <2>3. call' = [call EXCEPT ![c] = x]
      BY DEF Write
    <2>4. /\ call' \in [Callers -> Calls] /\ call'[c] = x
          /\ \A d \in Callers : d # c => call'[d] = call[d]
      BY <2>2, <2>3, OneCall
    <2>5. /\ x.pc # "idle" => x.handle = w /\ x.then = "write"
          /\ x.pc = IF running = <<>> THEN "get"
                    ELSE IF w \in usage.blocking THEN "spin" ELSE "idle"
      BY <1>1 DEF Call, IsEmpty
    <2> QED BY <2>4, <2>5
  <1>8. WriteType'
    BY <1>1, <1>2, <1>4, <1>5, <1>7 DEF WriteType
  <1>9. CallsOwn'
    BY <1>1, <1>7 DEF CallsOwn
  <1>10. SpinEnds'
    <2> SUFFICES ASSUME NEW d \in Callers, call'[d].pc = "spin",
                        soFar'[call'[d].handle]
                 PROVE  sent'[call'[d].handle]
      BY DEF SpinEnds
    <2>1. d # c
      BY <1>2, <1>7
    <2>2. call[d].handle # w /\ call[d].handle \in Handles
      BY <1>1, <1>7, <2>1 DEF CallsOwn
    <2> QED BY <1>2, <1>7, <2>1, <2>2 DEF SpinEnds
  <1>11. Port'
    <2>1. CASE running = <<>>
      <3>1. \A d \in Callers : ~Starter(d)
        BY <2>1 DEF Port
      <3>2. hal = None /\ ~busy
        BY <2>1, <3>1 DEF Port, First
      <3>3. \A d \in Callers : Starter(d)' <=> d = c
        BY <1>7, <2>1, <3>1 DEF Starter, Starting
      <3> QED BY <1>1, <1>4, <1>7, <2>1, <3>2, <3>3 DEF Port
    <2>2. CASE running # <<>>
      <3>1. \A d \in Callers : Starter(d)' <=> Starter(d)
        BY <1>1, <1>7, <2>2 DEF Starter, Starting
      <3>2. First(running') = First(running)
        BY <1>4, <2>2 DEF First
      <3>3. \A d \in Callers : Starter(d) => call'[d] = call[d]
        BY <1>1, <1>7 DEF Starter, Starting
      <3> QED BY <1>1, <1>4, <2>2, <3>1, <3>2, <3>3 DEF Port
    <2> QED BY <2>1, <2>2
  <1> QED BY <1>6, <1>8, <1>9, <1>10, <1>11

-----------------------------------------------------------------------------
(* The interrupt that ends a transfer *)

LEMMA TxIdleStep ==
  ASSUME WriteInv, TxIdle PROVE WriteInv'
  <1> USE DEF WriteInv, handleVars, portVars, taskVars, history
  <1>1. \A c \in Callers : ~Starter(c)
    BY DEF TxIdle, Port
  <1>2. running # <<>> /\ busy /\ hal = Head(running)
    BY <1>1, FirstFacts DEF TxIdle, Port, WriteType
  <1> DEFINE w == Head(running)
  <1>3. /\ w \in Handles /\ Contains(running, w)
        /\ Tail(running) \in Seq(Handles) /\ Distinct(Tail(running))
        /\ \A u : Contains(Tail(running), u) <=> Contains(running, u) /\ u # w
    BY <1>2, TakenFrom DEF WriteType, Places
  <1>4. /\ sent' = [sent EXCEPT ![w] = TRUE] /\ running' = Tail(running)
        /\ hal' = First(Tail(running)) /\ busy' = (hal' # None)
        /\ soFar' = [soFar EXCEPT ![w] = TRUE]
        /\ status' = [status EXCEPT ![w] = "success"]
        /\ w \in usage.blocking => /\ buffer' = [buffer EXCEPT ![w] = FALSE]
                                   /\ UNCHANGED <<completed, posted>>
        /\ w \notin usage.blocking => /\ completed' = Append(completed, w)
                                      /\ Post /\ UNCHANGED buffer
        /\ UNCHANGED <<usage, opened, call, taskVars, order>>
    BY <1>2 DEF TxIdle, NextStarted, Complete, Counted, Completed, Ended
  <1>5. /\ hal' \in Handles \cup {None} /\ (busy' <=> running' # <<>>)
        /\ hal' = First(running')
    BY <1>3, <1>4, FirstFacts
  <1>6. /\ sent'[w] /\ soFar'[w] /\ sent' \in [Handles -> BOOLEAN]
        /\ soFar' \in [Handles -> BOOLEAN]
        /\ status' \in [Handles -> {"success", "canceled"}]
        /\ \A u \in Handles : u # w => /\ sent'[u] = sent[u]
                                       /\ soFar'[u] = soFar[u]
    BY <1>3, <1>4 DEF WriteType
  <1>7. /\ buffer' \in [Handles -> BOOLEAN]
        /\ \A u \in Handles : u # w => buffer'[u] = buffer[u]
        /\ w \notin usage.blocking => buffer'[w]
    <2>1. buffer \in [Handles -> BOOLEAN] /\ buffer[w]
      BY <1>3 DEF WriteType, Places
    <2>2. CASE w \in usage.blocking
      BY <1>3, <1>4, <2>1, <2>2
    <2>3. CASE w \notin usage.blocking
      BY <1>4, <2>1, <2>3
    <2> QED BY <2>2, <2>3
  <1>8. ~Contains(completed, w)
    BY <1>3 DEF Places
  <1>9. /\ completed' \in Seq(Handles) /\ Distinct(completed')
        /\ \A u : Contains(completed', u) <=>
             Contains(completed, u) \/ (u = w /\ w \notin usage.blocking)
        /\ completed # <<>> =>
             completed' # <<>> /\ Head(completed') = Head(completed)
    <2>1. completed \in Seq(Handles) /\ Distinct(completed)
      BY DEF WriteType, Places
    <2>2. CASE w \in usage.blocking
      BY <1>4, <2>1, <2>2
    <2>3. CASE w \notin usage.blocking
      <3>1. completed' = Append(completed, w)
        BY <1>4, <2>3
      <3>2. /\ completed' \in Seq(Handles) /\ completed' # <<>>
            /\ Head(completed') =
                 IF completed = <<>> THEN w ELSE Head(completed)
            /\ \A u : Contains(completed', u) <=> Contains(completed, u) \/ u = w
            /\ Distinct(completed')
        BY <1>3, <1>8, <2>1, <3>1, AppendedTo
      <3> QED BY <2>3, <3>2
    <2> QED BY <2>2, <2>3
  <1>10. WriteType'
    <2>1. posted' \in 0 .. QueueSize
      BY <1>4, Posting DEF WriteType
    <2> QED BY <1>3, <1>4, <1>5, <1>6, <1>7, <1>9, <2>1 DEF WriteType
  <1>11. Places'
    <2>1. \A u \in Handles : Contains(running', u) =>
            /\ ~Contains(completed', u) /\ buffer'[u] /\ ~soFar'[u] /\ ~sent'[u]
      BY <1>3, <1>4, <1>6, <1>7, <1>9 DEF Places
    <2>2. \A u \in Handles : Contains(completed', u) =>
            buffer'[u] /\ sent'[u] /\ u \notin usage.blocking
      BY <1>6, <1>7, <1>9 DEF Places
    <2>3. taskPc = "free" =>
            /\ buffer'[taskHandle] /\ sent'[taskHandle]
            /\ ~Contains(running', taskHandle) /\ ~Contains(completed', taskHandle)
      BY <1>3, <1>4, <1>6, <1>7, <1>9 DEF Places
    <2>4. taskPc = "remove" => completed' # <<>> /\ taskHandle = Head(completed')
      BY <1>9 DEF Places
    <2> QED BY <1>3, <1>4, <1>9, <2>1, <2>2, <2>3, <2>4 DEF Places
  <1>12. CallsOwn'
    BY <1>4 DEF CallsOwn
  <1>13. SpinEnds'
    BY <1>4, <1>6 DEF SpinEnds, CallsOwn
  <1>14. Port'
    BY <1>1, <1>4, <1>5 DEF Port, Starter
  <1> QED BY <1>10, <1>11, <1>12, <1>13, <1>14

-----------------------------------------------------------------------------
(* The task *)

LEMMA TaskStep ==
  ASSUME WriteInv, Orders, Task PROVE WriteInv'
  <1> USE DEF WriteInv, handleVars, portVars, taskVars, history
  <1>1. UNCHANGED <<usage, opened, running, soFar, status, portVars, call, sent>>
    BY DEF Task, TaskWakes, TaskGet, TaskRemove, TaskFree, TaskCall
  <1>2. CallsOwn' /\ Port' /\ SpinEnds'
    BY <1>1 DEF CallsOwn, Port, SpinEnds, Starter
  <1>3. CASE TaskWakes
    <2>1. WriteType' /\ Places'
      BY <1>3, Waking DEF TaskWakes, WriteType, Places
    <2> QED BY <1>2, <2>1
  <1>4. CASE TaskGet
    <2>1. /\ taskHandle' = First(completed)
          /\ taskPc' = IF completed = <<>> THEN "wait" ELSE "remove"
          /\ UNCHANGED <<completed, buffer, posted, order>>
      BY <1>4 DEF TaskGet
    <2>2. /\ taskHandle' \in Handles \cup {None}
          /\ completed # <<>> => taskHandle' = Head(completed)
      BY <2>1, FirstFacts DEF WriteType
    <2>3. WriteType' /\ Places'
      BY <1>1, <2>1, <2>2 DEF WriteType, Places
    <2> QED BY <1>2, <2>3
  <1>5. CASE TaskRemove
    <2>1. /\ taskPc = "remove" /\ taskPc' = "free" /\ taskHandle' = taskHandle
          /\ completed # <<>> /\ taskHandle = Head(completed)
          /\ completed' = Tail(completed) /\ UNCHANGED <<buffer, posted, order>>
      BY <1>5 DEF TaskRemove, Places
    <2>2. /\ taskHandle \in Handles /\ Contains(completed, taskHandle)
          /\ Tail(completed) \in Seq(Handles) /\ Distinct(Tail(completed))
          /\ \A u : Contains(Tail(completed), u) <=>
                      Contains(completed, u) /\ u # taskHandle
      BY <2>1, TakenFrom DEF WriteType, Places
    <2>3. WriteType'
      BY <1>1, <2>1, <2>2 DEF WriteType
    <2>4. Places'
      BY <1>1, <2>1, <2>2 DEF Places
    <2> QED BY <1>2, <2>3, <2>4
  <1>6. CASE TaskFree
    <2>1. /\ taskPc = "free" /\ taskPc' = "call" /\ taskHandle' = taskHandle
          /\ taskHandle \in Handles
          /\ buffer' = [buffer EXCEPT ![taskHandle] = FALSE]
          /\ UNCHANGED <<completed, posted, order>>
      BY <1>6 DEF TaskFree, Places
    <2>2. WriteType' /\ Places'
      BY <1>1, <2>1 DEF WriteType, Places
    <2> QED BY <1>2, <2>2
  <1>7. CASE TaskCall
    <2>1. /\ taskPc = "call" /\ taskPc' = "drain" /\ taskHandle' = taskHandle
          /\ taskHandle \in Handles
          /\ UNCHANGED <<completed, buffer, posted>>
      BY <1>7 DEF TaskCall, AfterCallback, Places
    <2>2. order' \in Seq(Handles)
      <3>1. order # <<>> /\ order[1] = taskHandle
        BY <2>1 DEF Orders, Before, Returned, WriteType
      <3>2. order' = Tail(order)
        BY <1>7, <3>1, RemovingFirst DEF TaskCall, WriteType
      <3> QED BY <3>1, <3>2, HeadTailProperties DEF WriteType
    <2>3. WriteType' /\ Places'
      BY <1>1, <2>1, <2>2 DEF WriteType, Places
    <2> QED BY <1>2, <2>3
  <1> QED BY <1>3, <1>4, <1>5, <1>6, <1>7 DEF Task

LEMMA ReadPostsStep ==
  ASSUME WriteInv, ReadPosts
  PROVE  /\ WriteInv'
         /\ UNCHANGED <<usage, running, completed, order, taskPc, taskHandle>>
  <1>1. /\ UNCHANGED <<usage, opened, handleVars, portVars, call, taskVars,
                       history>>
        /\ posted' \in 0 .. QueueSize
    BY Posting DEF ReadPosts, WriteInv, WriteType
  <1> QED BY <1>1 DEF WriteInv, WriteType, CallsOwn, Places, Port, SpinEnds,
          Starter, handleVars, portVars, taskVars, history

-----------------------------------------------------------------------------
(* The order of the callbacks *)

\* A step that moves no handle.
LEMMA OrdersKept ==
  ASSUME Orders, UNCHANGED <<usage, running, completed, order>>,
         Returned' <=> Returned, Returned => taskHandle' = taskHandle
  PROVE  Orders'
  BY DEF Orders, Before, Waits, Returned

LEMMA OrdersWrite ==
  ASSUME WriteInv, Orders, NEW c \in Callers, NEW w \in Handles, Write(c, w)
  PROVE  Orders'
  <1> USE DEF WriteInv, Returned
  <1>1. /\ running' = Append(running, w) /\ ~buffer[w]
        /\ UNCHANGED <<usage, completed, taskPc, taskHandle>>
        /\ order' = IF w \in usage.blocking THEN order ELSE Append(order, w)
    BY DEF Write, Unused, taskVars
  <1>2. ~Contains(running, w)
    BY <1>1 DEF Places
  <1>3. /\ Len(running) \in Nat /\ Len(running') = Len(running) + 1
        /\ \A m \in 1 .. Len(running) : running'[m] = running[m]
        /\ running'[Len(running) + 1] = w
        /\ \A u : Contains(running', u) <=> Contains(running, u) \/ u = w
    BY <1>1, AppendProperties, LenProperties, AppendedTo DEF WriteType
  <1>4. /\ Len(order) \in Nat /\ Before \in Nat /\ Before' = Before
        /\ Before <= Len(order)
    BY <1>1, LenProperties DEF WriteType, Before, Orders
  <1>5. \A m \in 1 .. Len(running) : running[m] # w
    BY <1>2 DEF Contains
  <1>6. CASE w \in usage.blocking
    <2>1. order' = order /\ \A i : Waits(i)' <=> Waits(i)
      BY <1>1, <1>4, <1>6 DEF Waits
    <2>2. \A i : Waits(i) => order[i] # w
      BY <1>6 DEF Orders
    <2>3. \A m \in 1 .. Len(running') : running'[m] \notin usage.blocking =>
            \E i : Waits(i) /\ order[i] = running'[m]
      BY <1>3, <1>6 DEF Orders
    <2>4. \A m \in 1 .. Len(running') : running'[m] # w =>
            m \in 1 .. Len(running) /\ running[m] = running'[m]
      BY <1>3
    <2> QED BY <1>1, <1>3, <1>4, <2>1, <2>2, <2>3, <2>4 DEF Orders
  <1>7. CASE w \notin usage.blocking
    <2>1. /\ Len(order') = Len(order) + 1 /\ order'[Len(order) + 1] = w
          /\ \A i \in 1 .. Len(order) : order'[i] = order[i]
      BY <1>1, <1>7, AppendProperties DEF WriteType
    <2>2. \A i : Waits(i)' <=> Waits(i) \/ i = Len(order) + 1
      BY <1>4, <2>1 DEF Waits
    <2>3. \A i : Waits(i) => i \in 1 .. Len(order) /\ order'[i] = order[i]
                             /\ order[i] # w
      BY <1>2, <1>4, <2>1 DEF Waits, Orders
    <2>4. \A i : Waits(i)' =>
            order'[i] \notin usage.blocking /\ Contains(running', order'[i])
      BY <1>3, <1>7, <2>1, <2>2, <2>3 DEF Orders
    <2>5. \A m \in 1 .. Len(running') : running'[m] \notin usage.blocking =>
            \E i : Waits(i)' /\ order'[i] = running'[m]
      <3>1. ASSUME NEW m \in 1 .. Len(running), running[m] \notin usage.blocking
            PROVE  \E i : Waits(i)' /\ order'[i] = running'[m]
        BY <1>3, <2>2, <2>3, <3>1 DEF Orders
      <3> QED BY <1>3, <2>1, <2>2, <3>1
    <2>6. ASSUME NEW i, NEW j, Waits(i)', Waits(j)', i < j,
                 NEW m \in 1 .. Len(running'), NEW n \in 1 .. Len(running'),
                 running'[m] = order'[i], running'[n] = order'[j]
          PROVE  m < n
      <3>1. i \in Nat /\ j \in Nat /\ j <= Len(order) + 1
        BY <1>4, <2>1, <2>6 DEF Waits
      <3>2. Waits(i) /\ i # Len(order) + 1
        BY <1>4, <2>2, <2>6, <3>1
      <3>3. m \in 1 .. Len(running) /\ running[m] = order[i]
        BY <1>3, <2>3, <2>6, <3>2
      <3>4. CASE j = Len(order) + 1
        <4>1. n = Len(running) + 1
          BY <1>3, <1>5, <2>1, <2>6, <3>4
        <4> QED BY <1>3, <3>3, <4>1
      <3>5. CASE Waits(j)
        <4>1. n \in 1 .. Len(running) /\ running[n] = order[j]
          BY <1>3, <2>3, <2>6, <3>5
        <4> QED BY <2>6, <3>2, <3>3, <3>5, <4>1 DEF Orders
      <3> QED BY <2>2, <2>6, <3>4, <3>5
    <2>7. \A i \in 1 .. Len(completed) :
            completed[i] = order'[i + IF Returned THEN 1 ELSE 0]
      <3>1. ASSUME NEW i \in 1 .. Len(completed)
            PROVE  (i + IF Returned THEN 1 ELSE 0) \in 1 .. Len(order)
        BY <1>4, LenProperties DEF Before, WriteType
      <3> QED BY <2>1, <3>1 DEF Orders
    <2>8. Returned => order'[1] = taskHandle
      <3>1. Returned => 1 \in 1 .. Len(order)
        BY <1>4, LenProperties DEF Before, WriteType
      <3> QED BY <2>1, <3>1 DEF Orders
    <2>9. Before' <= Len(order')
      BY <1>4, <2>1
    <2>10. \A i, j : Waits(i)' /\ Waits(j)' /\ i < j =>
             \A m, n \in 1 .. Len(running') :
               running'[m] = order'[i] /\ running'[n] = order'[j] => m < n
      BY <2>6
    <2> QED BY <1>1, <2>4, <2>5, <2>7, <2>8, <2>9, <2>10 DEF Orders
  <1> QED BY <1>6, <1>7

LEMMA OrdersTxIdle ==
  ASSUME WriteInv, Orders, TxIdle PROVE Orders'
  <1> USE DEF WriteInv, Returned
  <1>1. \A c \in Callers : ~Starter(c)
    BY DEF TxIdle, Port
  <1>2. running # <<>> /\ busy
    BY <1>1, FirstFacts DEF TxIdle, Port, WriteType
  <1> DEFINE w == Head(running)
  <1>3. /\ running' = Tail(running)
        /\ w \in usage.blocking => UNCHANGED completed
        /\ w \notin usage.blocking => completed' = Append(completed, w)
        /\ UNCHANGED <<usage, taskPc, taskHandle, order>>
    BY <1>2 DEF TxIdle, Complete, Completed, Ended, taskVars
  <1>4. /\ Len(running) \in Nat \ {0} /\ Len(running') = Len(running) - 1
        /\ \A m \in 1 .. Len(running') : running'[m] = running[m + 1]
        /\ running[1] = w /\ w \in Handles
    BY <1>2, <1>3, HeadTailProperties, EmptySeq DEF WriteType
  <1>5. \A u : Contains(running', u) <=> Contains(running, u) /\ u # w
    BY <1>2, <1>3, TakenFrom DEF WriteType, Places
  <1>6. /\ Len(order) \in Nat /\ Before \in Nat /\ Before <= Len(order)
        /\ Len(completed) \in Nat
    BY LenProperties DEF WriteType, Before, Orders
  <1>7. ASSUME NEW i, Waits(i), w \in usage.blocking \/ i # Before + 1
        PROVE  order[i] # w
    <2>1. CASE w \in usage.blocking
      BY <1>7, <2>1 DEF Orders
    <2>2. CASE i # Before + 1
      <3>1. Before + 1 < i /\ Waits(Before + 1)
        BY <1>6, <1>7, <2>2 DEF Waits
      <3>2. PICK n \in 1 .. Len(running) : running[n] = order[Before + 1]
        BY <3>1 DEF Orders, Contains
      <3>3. 1 \in 1 .. Len(running) /\ ~(n < 1)
        BY <1>4
      <3> QED BY <1>4, <1>7, <3>1, <3>2, <3>3 DEF Orders
    <2> QED BY <1>7, <2>1, <2>2
  <1>8. w \notin usage.blocking => Waits(Before + 1) /\ order[Before + 1] = w
    <2> SUFFICES ASSUME w \notin usage.blocking
                 PROVE  Waits(Before + 1) /\ order[Before + 1] = w
      OBVIOUS
    <2>1. 1 \in 1 .. Len(running)
      BY <1>4
    <2>2. PICK i : Waits(i) /\ order[i] = w
      BY <1>4, <2>1 DEF Orders
    <2> QED BY <1>7, <2>2
  <1>9. Before' = Before + IF w \in usage.blocking THEN 0 ELSE 1
    <2>1. w \notin usage.blocking => Len(completed') = Len(completed) + 1
      BY <1>3, <1>4, AppendProperties DEF WriteType
    <2>2. Returned' <=> Returned
      BY <1>3
    <2> HIDE DEF Returned
    <2>3. CASE w \in usage.blocking
      BY <1>3, <1>6, <2>2, <2>3 DEF Before
    <2>4. CASE w \notin usage.blocking
      <3>1. CASE Returned
        BY <1>6, <2>1, <2>2, <2>4, <3>1 DEF Before
      <3>2. CASE ~Returned
        BY <1>6, <2>1, <2>2, <2>4, <3>2 DEF Before
      <3> QED BY <3>1, <3>2
    <2> QED BY <2>3, <2>4
  <1>10. \A i : Waits(i)' <=>
           Waits(i) /\ (w \in usage.blocking \/ i # Before + 1)
    BY <1>3, <1>6, <1>9 DEF Waits
  <1>11. Before' <= Len(order)
    BY <1>6, <1>8, <1>9 DEF Waits
  <1>12. \A i \in 1 .. Len(completed') :
           completed'[i] = order[i + IF Returned THEN 1 ELSE 0]
    <2>1. CASE w \in usage.blocking
      BY <1>3, <2>1 DEF Orders
    <2>2. CASE w \notin usage.blocking
      <3>1. /\ Len(completed') = Len(completed) + 1
            /\ completed'[Len(completed) + 1] = w
            /\ \A i \in 1 .. Len(completed) : completed'[i] = completed[i]
        <4>1. completed \in Seq(Handles)
          BY DEF WriteType
        <4> QED BY <1>3, <1>4, <2>2, <4>1, AppendProperties
      <3>2. Before + 1 = Len(completed) + 1 + IF Returned THEN 1 ELSE 0
        BY <1>6 DEF Before
      <3>3. completed'[Len(completed) + 1] =
              order[Len(completed) + 1 + IF Returned THEN 1 ELSE 0]
        BY <1>8, <2>2, <3>1, <3>2
      <3>4. \A i \in 1 .. Len(completed') :
              i \in 1 .. Len(completed) \/ i = Len(completed) + 1
        BY <1>6, <3>1
      <3> QED BY <3>1, <3>3, <3>4 DEF Orders
    <2> QED BY <2>1, <2>2
  <1>13. \A i : Waits(i)' =>
           order[i] \notin usage.blocking /\ Contains(running', order[i])
    BY <1>5, <1>7, <1>10 DEF Orders
  <1>14. \A m \in 1 .. Len(running') :
           m + 1 \in 1 .. Len(running) /\ running'[m] = running[m + 1]
           /\ running[m + 1] # w
    <2> SUFFICES ASSUME NEW m \in 1 .. Len(running')
                 PROVE  m + 1 \in 1 .. Len(running) /\ running[m + 1] # w
      BY <1>4
    <2>1. m + 1 \in 1 .. Len(running) /\ m + 1 # 1 /\ 1 \in 1 .. Len(running)
      BY <1>4
    <2> QED BY <1>4, <2>1 DEF Places, Distinct
  <1>15. \A m \in 1 .. Len(running') : running'[m] \notin usage.blocking =>
           \E i : Waits(i)' /\ order[i] = running'[m]
    <2> SUFFICES ASSUME NEW m \in 1 .. Len(running'),
                        running'[m] \notin usage.blocking
                 PROVE  \E i : Waits(i)' /\ order[i] = running'[m]
      OBVIOUS
    <2>1. PICK i : Waits(i) /\ order[i] = running'[m]
      BY <1>14 DEF Orders
    <2> QED BY <1>8, <1>10, <1>14, <2>1
  <1>16. ASSUME NEW i, NEW j, Waits(i)', Waits(j)', i < j,
                NEW m \in 1 .. Len(running'), NEW n \in 1 .. Len(running'),
                running'[m] = order'[i], running'[n] = order'[j]
         PROVE  m < n
    <2>1. /\ running[m + 1] = order[i] /\ running[n + 1] = order[j]
          /\ m + 1 \in 1 .. Len(running) /\ n + 1 \in 1 .. Len(running)
      BY <1>3, <1>14, <1>16
    <2> HIDE DEF Returned
    <2>2. Waits(i) /\ Waits(j)
      BY <1>10, <1>16
    <2>3. \A p, q \in 1 .. Len(running) :
            running[p] = order[i] /\ running[q] = order[j] => p < q
      BY <1>16, <2>2 DEF Orders
    <2>4. m + 1 < n + 1
      BY <2>1, <2>3
    <2> QED BY <2>4
  <1>17. (Returned => order[1] = taskHandle) /\ (Returned' <=> Returned)
    BY <1>3 DEF Orders
  <1> HIDE DEF Returned
  <1>18. /\ Before' <= Len(order')
         /\ Returned' => order'[1] = taskHandle'
         /\ \A i \in 1 .. Len(completed') :
              completed'[i] = order'[i + IF Returned' THEN 1 ELSE 0]
         /\ \A i : Waits(i)' => /\ order'[i] \notin usage.blocking'
                                /\ Contains(running', order'[i])
    BY <1>3, <1>11, <1>12, <1>13, <1>17
  <1>19. \A m \in 1 .. Len(running') : running'[m] \notin usage'.blocking =>
           \E i : Waits(i)' /\ order'[i] = running'[m]
    BY <1>3, <1>15
  <1>20. \A i, j : Waits(i)' /\ Waits(j)' /\ i < j =>
           \A m, n \in 1 .. Len(running') :
             running'[m] = order'[i] /\ running'[n] = order'[j] => m < n
    BY <1>16
  <1> QED BY <1>18, <1>19, <1>20 DEF Orders

LEMMA OrdersTask ==
  ASSUME WriteInv, Orders, Task PROVE Orders'
  <1> USE DEF WriteInv, handleVars, taskVars, history
  <1>1. UNCHANGED <<usage, running>>
    BY DEF Task, TaskWakes, TaskGet, TaskRemove, TaskFree, TaskCall
  <1>2. /\ Len(completed) \in Nat /\ Len(order) \in Nat /\ Before \in Nat
        /\ Before <= Len(order)
    BY LenProperties DEF WriteType, Before, Orders
  <1>3. CASE TaskWakes \/ TaskGet \/ TaskFree
    <2>1. /\ UNCHANGED <<completed, order>> /\ (Returned' <=> Returned)
          /\ Returned => taskHandle' = taskHandle
      BY <1>3 DEF TaskWakes, TaskGet, TaskFree, Returned
    <2> QED BY <1>1, <2>1, OrdersKept
  <1>4. CASE TaskRemove
    <2>1. /\ ~Returned /\ Returned' /\ taskHandle' = taskHandle /\ order' = order
          /\ completed # <<>> /\ taskHandle = Head(completed)
          /\ completed' = Tail(completed)
      BY <1>4 DEF TaskRemove, Places, Returned
    <2>2. /\ Len(completed) \in Nat \ {0} /\ Len(completed') = Len(completed) - 1
          /\ \A i \in 1 .. Len(completed') : completed'[i] = completed[i + 1]
          /\ taskHandle = completed[1]
      BY <2>1, HeadTailProperties, EmptySeq DEF WriteType
    <2>3. Before' = Before
      BY <2>1, <2>2 DEF Before
    <2>4. \A i : Waits(i)' <=> Waits(i)
      BY <2>1, <2>3 DEF Waits
    <2>5. \A i \in 1 .. Len(completed) : completed[i] = order[i]
      <3> SUFFICES ASSUME NEW i \in 1 .. Len(completed)
                   PROVE  completed[i] = order[i]
        OBVIOUS
      <3>1. completed[i] = order[i + 0] /\ i + 0 = i
        BY <2>1 DEF Orders
      <3> QED BY <3>1
    <2>6. order[1] = taskHandle
      BY <2>2, <2>5
    <2>7. \A i \in 1 .. Len(completed') : completed'[i] = order[i + 1]
      <3> SUFFICES ASSUME NEW i \in 1 .. Len(completed')
                   PROVE  completed'[i] = order[i + 1]
        OBVIOUS
      <3>1. i + 1 \in 1 .. Len(completed) /\ completed'[i] = completed[i + 1]
        BY <2>2
      <3> QED BY <2>5, <3>1
    <2> QED BY <1>1, <2>1, <2>3, <2>4, <2>6, <2>7 DEF Orders
  <1>5. CASE TaskCall
    <2>1. /\ Returned /\ ~Returned' /\ UNCHANGED completed
          /\ order' = RemoveFirst(order, taskHandle)
      BY <1>5 DEF TaskCall, AfterCallback, Returned
    <2>2. order # <<>> /\ order[1] = taskHandle
      BY <1>2, <2>1, EmptySeq DEF Orders, Before, WriteType
    <2>3. order' = Tail(order)
      BY <2>1, <2>2, RemovingFirst DEF WriteType
    <2>4. /\ Len(order') = Len(order) - 1
          /\ \A i \in 1 .. Len(order') : order'[i] = order[i + 1]
      BY <2>2, <2>3, HeadTailProperties DEF WriteType
    <2>5. Before' = Before - 1 /\ Before = Len(completed) + 1
      BY <1>2, <2>1 DEF Before
    <2>6. \A i : Waits(i)' => Waits(i + 1) /\ order'[i] = order[i + 1] /\ i \in Nat
      BY <1>2, <2>4, <2>5 DEF Waits
    <2>7. \A i : Waits(i) => Waits(i - 1)' /\ order'[i - 1] = order[i]
      BY <1>2, <2>4, <2>5 DEF Waits
    <2>8. Before' <= Len(order')
      BY <1>2, <2>4, <2>5
    <2>9. \A i \in 1 .. Len(completed) : completed[i] = order'[i + 0]
      BY <1>2, <2>1, <2>4, <2>5 DEF Orders
    <2>10. \A i : Waits(i)' =>
             order'[i] \notin usage.blocking /\ Contains(running, order'[i])
      BY <2>6 DEF Orders
    <2>11. \A m \in 1 .. Len(running) : running[m] \notin usage.blocking =>
             \E i : Waits(i)' /\ order'[i] = running[m]
      <3> SUFFICES ASSUME NEW m \in 1 .. Len(running),
                          running[m] \notin usage.blocking
                   PROVE  \E i : Waits(i)' /\ order'[i] = running[m]
        OBVIOUS
      <3>1. PICK i : Waits(i) /\ order[i] = running[m]
        BY DEF Orders
      <3> QED BY <2>7, <3>1
    <2>12. \A i, j : Waits(i)' /\ Waits(j)' /\ i < j =>
             \A m, n \in 1 .. Len(running) :
               running[m] = order'[i] /\ running[n] = order'[j] => m < n
      <3> SUFFICES ASSUME NEW i, NEW j, Waits(i)', Waits(j)', i < j,
                          NEW m \in 1 .. Len(running), NEW n \in 1 .. Len(running),
                          running[m] = order'[i], running[n] = order'[j]
                   PROVE  m < n
        OBVIOUS
      <3>1. i + 1 < j + 1 /\ Waits(i + 1) /\ Waits(j + 1)
        BY <2>6
      <3> QED BY <2>6, <3>1 DEF Orders
    <2> QED BY <1>1, <2>1, <2>8, <2>9, <2>10, <2>11, <2>12 DEF Orders
  <1> QED BY <1>3, <1>4, <1>5 DEF Task

-----------------------------------------------------------------------------
(* The invariant *)

LEMMA InitInv == Init /\ usage.cancels = {} => WriteInv /\ Orders
  <1> SUFFICES ASSUME Init, usage.cancels = {} PROVE WriteInv /\ Orders
    OBVIOUS
  <1> USE DEF Init
  <1>1. NoCall \in Calls /\ NoCall.pc = "idle"
    BY DEF NoCall, Call, Calls
  <1>2. /\ <<>> \in Seq(Handles) /\ Len(<<>>) = 0 /\ 1 .. 0 = {}
    BY EmptySeq
  <1>3. WriteType
    BY <1>1, <1>2, EmptyQueue DEF WriteType
  <1>4. \A c \in Callers : call[c].pc = "idle"
    BY <1>1
  <1>5. CallsOwn /\ SpinEnds
    BY <1>4 DEF CallsOwn, SpinEnds
  <1>6. Places
    BY <1>2, NothingIn DEF Places, Distinct
  <1>7. Port
    BY <1>4 DEF Port, Starter, Starting, First
  <1>8. Orders
    BY <1>2 DEF Orders, Before, Returned, Waits
  <1> QED BY <1>3, <1>5, <1>6, <1>7, <1>8 DEF WriteInv

LEMMA NextInv ==
  ASSUME WriteInv, Orders, [Next]_vars PROVE WriteInv' /\ Orders'
  <1>1. CASE UNCHANGED vars
    BY <1>1 DEF vars, handleVars, portVars, taskVars, history, WriteInv,
       WriteType, CallsOwn, Places, Port, SpinEnds, Starter, Orders, Before,
       Waits, Returned
  <1>2. CASE TxIdle
    BY <1>2, TxIdleStep, OrdersTxIdle
  <1>3. CASE Task
    BY <1>3, TaskStep, OrdersTask
  <1>4. ASSUME NEW c \in Callers,
               StartGet(c) \/ StartTest(c) \/ StartSet(c) \/ StartSend(c)
        PROVE  WriteInv' /\ Orders'
    <2>1. UNCHANGED <<usage, handleVars, taskVars, history>>
      BY <1>4 DEF StartGet, StartTest, StartSet, StartSend, OnlyCalls
    <2>2. Orders'
      BY <2>1, OrdersKept DEF handleVars, taskVars, history, Returned
    <2> QED BY <1>4, <2>2, StartSteps
  <1>5. ASSUME NEW c \in Callers, Spin(c) PROVE WriteInv' /\ Orders'
    <2>1. UNCHANGED <<usage, handleVars, taskVars, history>>
      BY <1>5 DEF Spin, OnlyCalls
    <2>2. Orders'
      BY <2>1, OrdersKept DEF handleVars, taskVars, history, Returned
    <2> QED BY <1>5, <2>2, SpinStep
  <1>6. ASSUME NEW c \in Callers, NEW w \in Handles, Write(c, w)
        PROVE  WriteInv' /\ Orders'
    BY <1>6, WriteStep, OrdersWrite
  <1>7. CASE ReadPosts
    BY <1>7, ReadPostsStep, OrdersKept DEF Returned
  <1> QED BY <1>1, <1>2, <1>3, <1>4, <1>5, <1>6, <1>7, StepsOfWriters

\* Who uses the module, and how, is settled before the first step.
LEMMA UsageFixed == ASSUME [Next]_vars PROVE usage' = usage
  <1>1. TxIdle \/ ReadPosts \/ UNCHANGED vars => usage' = usage
    BY DEF TxIdle, ReadPosts, vars
  <1>2. Task => usage' = usage
    BY DEF Task, TaskWakes, TaskGet, TaskRemove, TaskFree, TaskCall
  <1>3. ASSUME NEW c \in Callers, Proceed(c) PROVE usage' = usage
    <2>1. CASE StartGet(c) \/ StartTest(c) \/ StartSet(c) \/ StartSend(c)
      BY <2>1 DEF StartGet, StartTest, StartSet, StartSend, OnlyCalls
    <2>2. CASE Spin(c) \/ CancelQueued(c) \/ CancelComplete(c) \/ CancelFirst(c)
      BY <2>2 DEF Spin, CancelQueued, CancelComplete, CancelFirst, OnlyCalls
    <2>3. CASE PortCancel(c) \/ PortAbort(c) \/ PortCallback(c)
      BY <2>3 DEF PortCancel, PortAbort, PortCallback, OnlyCalls
    <2>4. CASE PortUnlink(c) \/ CallbackEnd(c) \/ Close(c)
      BY <2>4 DEF PortUnlink, CallbackEnd, Close
    <2> QED BY <1>3, <2>1, <2>2, <2>3, <2>4 DEF Proceed
  <1>4. ASSUME NEW c \in Callers, NEW w \in Handles, Begin(c, w)
        PROVE  usage' = usage
    <2>1. Write(c, w) => usage' = usage
      BY DEF Write
    <2>2. Open(c, w) => usage' = usage
      BY DEF Open
    <2>3. (\E closing \in BOOLEAN : Cancel(c, w, closing)) => usage' = usage
      BY DEF Cancel, OnlyCalls
    <2> QED BY <1>4, <2>1, <2>2, <2>3 DEF Begin
  <1> QED BY <1>1, <1>2, <1>3, <1>4 DEF Next

\* The invariant holds whenever nobody cancels.
WritersOnly == usage.cancels = {} => WriteInv /\ Orders

LEMMA Writers == Spec => []WritersOnly
  <1>1. Init => WritersOnly
    BY InitInv DEF WritersOnly
  <1>2. WritersOnly /\ [Next]_vars => WritersOnly'
    BY NextInv, UsageFixed DEF WritersOnly
  <1> QED BY <1>1, <1>2, PTL DEF Spec

-----------------------------------------------------------------------------
(* The theorems *)

\* Two lists without repetition and without a common element.
LEMMA OncePerHandle ==
  ASSUME running \in Seq(Handles), completed \in Seq(Handles),
         Distinct(running), Distinct(completed),
         \A w \in Handles : Contains(running, w) => ~Contains(completed, w)
  PROVE  \A w \in Handles :
           Cardinality({i \in DOMAIN (running \o completed) :
                          (running \o completed)[i] = w}) <= 1
  <1> DEFINE s == running \o completed
  <1>1. /\ running \in Seq(Handles) /\ completed \in Seq(Handles)
        /\ Len(running) \in Nat /\ Len(completed) \in Nat
    BY LenProperties
  <1>2. /\ s \in Seq(Handles) /\ Len(s) = Len(running) + Len(completed)
        /\ \A i \in 1 .. Len(s) :
             s[i] = IF i <= Len(running) THEN running[i]
                    ELSE completed[i - Len(running)]
    BY <1>1, ConcatProperties
  <1>3. DOMAIN s = 1 .. Len(s)
    BY <1>2, LenProperties
  <1>4. ASSUME NEW i \in 1 .. Len(s), NEW j \in 1 .. Len(s), s[i] = s[j]
        PROVE  i = j
    <2>1. ASSUME NEW k \in 1 .. Len(s)
          PROVE  \/ k \in 1 .. Len(running) /\ s[k] = running[k]
                 \/ /\ k - Len(running) \in 1 .. Len(completed)
                    /\ s[k] = completed[k - Len(running)]
      BY <1>1, <1>2
    <2>2. \A m \in 1 .. Len(running), n \in 1 .. Len(completed) :
            running[m] # completed[n]
      <3> SUFFICES ASSUME NEW m \in 1 .. Len(running),
                          NEW n \in 1 .. Len(completed)
                   PROVE  running[m] # completed[n]
        OBVIOUS
      <3>1. running[m] \in Handles /\ Contains(running, running[m])
        BY <1>1, ElementOfSeq DEF Contains
      <3>2. ~Contains(completed, running[m])
        BY <3>1
      <3> QED BY <3>2 DEF Contains
    <2>3. CASE i \in 1 .. Len(running) /\ s[i] = running[i]
      <3>1. j \in 1 .. Len(running) /\ s[j] = running[j]
        BY <1>4, <2>1, <2>2, <2>3
      <3> QED BY <1>4, <2>3, <3>1 DEF Distinct
    <2>4. CASE /\ i - Len(running) \in 1 .. Len(completed)
               /\ s[i] = completed[i - Len(running)]
      <3>1. /\ j - Len(running) \in 1 .. Len(completed)
            /\ s[j] = completed[j - Len(running)]
        BY <1>4, <2>1, <2>2, <2>4
      <3>2. i - Len(running) = j - Len(running)
        BY <1>4, <2>4, <3>1 DEF Distinct
      <3> QED BY <1>1, <3>2
    <2> QED BY <2>1, <2>3, <2>4
  <1>5. ASSUME NEW w \in Handles
        PROVE  Cardinality({i \in DOMAIN s : s[i] = w}) <= 1
    <2> DEFINE I == {i \in DOMAIN s : s[i] = w}
    <2>1. ASSUME NEW i \in I PROVE I = {i}
      BY <1>3, <1>4
    <2>2. Cardinality(I) = 0 \/ Cardinality(I) = 1
      <3>1. CASE I = {}
        BY <3>1, FS_EmptySet
      <3>2. CASE I # {}
        BY <2>1, <3>2, FS_Singleton
      <3> QED BY <3>1, <3>2
    <2> HIDE DEF I
    <2>3. Cardinality(I) <= 1
      BY <2>2
    <2> QED BY <2>3 DEF I
  <1> QED BY <1>5

\* However many callers write, at whatever priorities and however they are
\* interrupted, LIST_AddTail never adds a handle that is in a list already.
THEOREM HandlesStayApart == Spec => [](usage.cancels = {} => HandlesInOneList)
  <1>1. ASSUME WriteInv PROVE HandlesInOneList
    BY <1>1, OncePerHandle DEF WriteInv, WriteType, Places, HandlesInOneList
  <1> QED BY <1>1, Writers, PTL DEF WritersOnly

\* The test of the running list, which a writer makes after its critical
\* section, lets exactly one caller start the port: once the callers are past
\* it the port sends the first handle, and is idle only when there is none.
THEOREM PortKeepsServing == Spec => [](usage.cancels = {} => PortServesFirst)
  <1>1. ASSUME WriteInv PROVE PortServesFirst
    BY <1>1 DEF WriteInv, Port, PortServesFirst, Starter, Starting
  <1> QED BY <1>1, Writers, PTL DEF WritersOnly

\* A callback with success, and the end of WriteBlocking's wait, mean that the
\* bytes of the request are out.
THEOREM SuccessIsSent == Spec => [](usage.cancels = {} => SuccessMeansSent)
  <1>1. ASSUME WriteInv PROVE SuccessMeansSent
    BY <1>1 DEF WriteInv, Places, SpinEnds, SuccessMeansSent
  <1> QED BY <1>1, Writers, PTL DEF WritersOnly

\* Nothing is sent twice, and the callbacks come in the order of the writes.
THEOREM CallbacksInOrder == Spec => [](usage.cancels = {} => OnceInOrder)
  <1>1. ASSUME WriteInv, Orders PROVE OnceInOrder
    <2>1. ASSUME hal # None PROVE ~sent[hal]
      <3>1. \A c \in Callers : ~Starter(c)
        BY <1>1, <2>1 DEF WriteInv, Port
      <3>2. running # <<>> /\ hal = Head(running)
        BY <1>1, <2>1, <3>1 DEF WriteInv, Port, First
      <3>3. hal \in Handles /\ Contains(running, hal)
        BY <1>1, <3>2, TakenFrom DEF WriteInv, WriteType, Places
      <3> QED BY <1>1, <3>3 DEF WriteInv, Places
    <2>2. ASSUME taskPc = "free" PROVE taskHandle = First(order)
      <3>1. Returned /\ order \in Seq(Handles) /\ Len(completed) \in Nat
        BY <1>1, <2>2, LenProperties DEF WriteInv, WriteType, Returned
      <3>2. order[1] = taskHandle /\ Len(completed) + 1 <= Len(order)
        BY <1>1, <3>1 DEF Orders, Before
      <3>3. order # <<>>
        BY <3>1, <3>2, EmptySeq
      <3> QED BY <3>1, <3>2, <3>3, HeadTailProperties DEF First
    <2> QED BY <2>1, <2>2 DEF OnceInOrder
  <1> QED BY <1>1, Writers, PTL DEF WritersOnly
-----------------------------------------------------------------------------
(* Types, whoever cancels *)

\* Numbers have a least: what an argument by induction rests on.
LEMMA LeastNumber ==
  ASSUME NEW T \in SUBSET Nat, T # {}
  PROVE  \E n \in T : \A m \in T : n <= m
  <1>1. PICK n \in T : \A m \in T : ~(<<m, n>> \in OpToRel(<, Nat))
    BY NatLessThanWellFounded, WFMin
  <1>2. \A m \in T : ~(<<m, n>> \in OpToRel(<, Nat)) => n <= m
    BY DEF OpToRel
  <1> QED BY <1>1, <1>2

\* A sequence without the first of the places of an element.
LEMMA Removing ==
  ASSUME NEW S, NEW s \in Seq(S), NEW e, Contains(s, e)
  PROVE  /\ RemoveFirst(s, e) \in Seq(S)
         /\ Len(RemoveFirst(s, e)) = Len(s) - 1
         /\ \E k \in 1 .. Len(s) :
              /\ s[k] = e
              /\ \A i \in 1 .. Len(s) - 1 :
                   RemoveFirst(s, e)[i] = IF i < k THEN s[i] ELSE s[i + 1]
  <1> DEFINE I == {i \in 1 .. Len(s) : s[i] = e}
  <1>1. I # {} /\ I \in SUBSET Nat
    BY LenProperties DEF Contains
  <1>2. PICK n \in I : \A m \in I : n <= m
    <2> HIDE DEF I
    <2> QED BY <1>1, LeastNumber
  <1>3. Min(I) \in I /\ SelectInSeq(s, LAMBDA v : v = e) = Min(I)
    BY <1>1, <1>2 DEF Min, SelectInSeq
  <1>4. PICK k \in 1 .. Len(s) :
          s[k] = e /\ k = SelectInSeq(s, LAMBDA v : v = e)
    BY <1>3
  <1> DEFINE before == SubSeq(s, 1, k - 1)
             after == SubSeq(s, k + 1, Len(s))
  <1>5. RemoveFirst(s, e) = before \o after
    BY <1>4 DEF RemoveFirst, RemoveAt, Contains
  <1>6. /\ k \in Int /\ k - 1 \in Int /\ k + 1 \in Int /\ 1 \in Int
        /\ Len(s) \in Nat /\ Len(s) \in Int /\ \A i \in 1 .. Len(s) : s[i] \in S
    BY LenProperties, ElementOfSeq
  <1>7. /\ before \in Seq(S) /\ Len(before) = k - 1
        /\ \A i \in 1 .. k - 1 : before[i] = s[i]
    <2>1. \A i \in 1 .. k - 1 : s[i] \in S
      BY <1>6
    <2>2. /\ before \in Seq(S)
          /\ Len(before) = IF 1 <= k - 1 THEN k - 1 - 1 + 1 ELSE 0
          /\ \A i \in 1 .. k - 1 - 1 + 1 : before[i] = s[1 + i - 1]
      BY <1>6, <2>1, SubSeqProperties
    <2> HIDE DEF before
    <2> QED BY <1>6, <2>2
  <1>8. /\ after \in Seq(S) /\ Len(after) = Len(s) - k
        /\ \A i \in 1 .. Len(s) - k : after[i] = s[k + i]
    <2>1. \A i \in k + 1 .. Len(s) : s[i] \in S
      BY <1>6
    <2>2. /\ after \in Seq(S)
          /\ Len(after) = IF k + 1 <= Len(s) THEN Len(s) - (k + 1) + 1 ELSE 0
          /\ \A i \in 1 .. Len(s) - (k + 1) + 1 : after[i] = s[k + 1 + i - 1]
      BY <1>6, <2>1, SubSeqProperties
    <2> HIDE DEF after
    <2> QED BY <1>6, <2>2
  <1> HIDE DEF before, after
  <1>9. /\ before \o after \in Seq(S)
        /\ Len(before \o after) = Len(before) + Len(after)
        /\ \A i \in 1 .. Len(before) + Len(after) :
             (before \o after)[i] =
               IF i <= Len(before) THEN before[i] ELSE after[i - Len(before)]
    BY <1>7, <1>8, ConcatProperties
  <1>10. ASSUME NEW i \in 1 .. Len(s) - 1
         PROVE  (before \o after)[i] = IF i < k THEN s[i] ELSE s[i + 1]
    <2>1. i \in 1 .. Len(before) + Len(after)
      <3>1. Len(before) = k - 1 /\ Len(after) = Len(s) - k
        BY <1>7, <1>8
      <3> QED BY <1>6, <3>1
    <2>2. CASE i < k
      <3>1. i <= Len(before) /\ i \in 1 .. k - 1
        BY <1>6, <1>7, <2>2
      <3> QED BY <1>7, <1>9, <2>1, <2>2, <3>1
    <2>3. CASE ~(i < k)
      <3>1. /\ ~(i <= Len(before)) /\ i - Len(before) \in 1 .. Len(s) - k
            /\ k + (i - Len(before)) = i + 1
        BY <1>6, <1>7, <2>3
      <3>2. /\ (before \o after)[i] = after[i - Len(before)]
            /\ after[i - Len(before)] = s[k + (i - Len(before))]
        BY <1>8, <1>9, <2>1, <3>1
      <3> QED BY <2>3, <3>1, <3>2
    <2> QED BY <2>2, <2>3
  <1>11. Len(before \o after) = Len(s) - 1
    <2>1. Len(before) = k - 1 /\ Len(after) = Len(s) - k
      BY <1>7, <1>8
    <2>2. Len(before \o after) = Len(before) + Len(after)
      BY <1>9
    <2> QED BY <1>6, <2>1, <2>2
  <1> QED BY <1>4, <1>5, <1>9, <1>10, <1>11

LEMMA RemovingKeepsType ==
  ASSUME NEW S, NEW s \in Seq(S), NEW e
  PROVE  RemoveFirst(s, e) \in Seq(S)
  <1>1. CASE Contains(s, e)
    BY <1>1, Removing
  <1>2. CASE ~Contains(s, e)
    BY <1>2 DEF RemoveFirst, Contains
  <1> QED BY <1>1, <1>2

\* Of a list without repetition it leaves one, without the element.
LEMMA RemovedFrom ==
  ASSUME NEW S, NEW s \in Seq(S), Distinct(s), NEW e
  PROVE  /\ Distinct(RemoveFirst(s, e))
         /\ \A u : Contains(RemoveFirst(s, e), u) => Contains(s, u) /\ u # e
  <1>1. CASE Contains(s, e)
    <2> DEFINE r == RemoveFirst(s, e)
    <2>1. PICK k \in 1 .. Len(s) :
            /\ s[k] = e
            /\ \A i \in 1 .. Len(s) - 1 :
                 r[i] = IF i < k THEN s[i] ELSE s[i + 1]
      BY <1>1, Removing
    <2>2. Len(r) = Len(s) - 1 /\ Len(s) \in Nat
      BY <1>1, Removing, LenProperties
    <2> HIDE DEF r
    <2> DEFINE place(i) == IF i < k THEN i ELSE i + 1
    <2>3. ASSUME NEW i \in 1 .. Len(r)
          PROVE  /\ place(i) \in 1 .. Len(s) /\ r[i] = s[place(i)]
                 /\ place(i) # k
      BY <2>1, <2>2
    <2>4. \A i, j \in 1 .. Len(r) : place(i) = place(j) => i = j
      BY <2>2
    <2> HIDE DEF place
    <2>5. Distinct(r)
      BY <2>3, <2>4 DEF Distinct
    <2>6. \A u : Contains(r, u) => Contains(s, u) /\ u # e
      BY <2>1, <2>3 DEF Contains, Distinct
    <2> QED BY <2>5, <2>6 DEF r
  <1>2. CASE ~Contains(s, e)
    <2>1. RemoveFirst(s, e) = s
      BY <1>2 DEF RemoveFirst, Contains
    <2> QED BY <1>2, <2>1
  <1> QED BY <1>1, <1>2

\* A caller inside a call works for one of the handles, and one that ends the
\* request it canceled at the port has taken it from the list.
CallHandles ==
  \A c \in Callers :
    /\ call[c].pc # "idle" => call[c].handle \in Handles
    /\ call[c].then = "callback" \/ call[c].pc \in {"unlink", "callback_end"}
         => call[c].victim \in Handles

CallSet == [pc : Pcs, handle : Handles \cup {None},
            then : {"write", "callback", "end"}, closing : BOOLEAN,
            start : Handles \cup {None}, victim : Handles \cup {None},
            wasBusy : BOOLEAN]

TypesKept == TypeOK /\ CallHandles

\* A step that changes the locals of one caller.
LEMMA LocalsTypes ==
  ASSUME TypeOK, CallHandles, NEW c \in Callers, NEW r \in CallSet,
         r.pc # "idle" => r.handle \in Handles,
         r.then = "callback" \/ r.pc \in {"unlink", "callback_end"}
           => r.victim \in Handles,
         call' = [call EXCEPT ![c] = r]
  PROVE  CallHandles' /\ call' \in [Callers -> CallSet]
  <1>1. call \in [Callers -> CallSet]
    BY DEF TypeOK, CallSet
  <1>2. call'[c] = r /\ \A d \in Callers : d # c => call'[d] = call[d]
    BY <1>1
  <1>3. call' \in [Callers -> CallSet]
    BY <1>1
  <1> QED BY <1>2, <1>3 DEF CallHandles

LEMMA GotoTypes ==
  ASSUME TypeOK, CallHandles, NEW c \in Callers, NEW pc \in Pcs, Goto(c, pc),
         call[c].pc # "idle",
         pc \notin {"unlink", "callback_end"} \/ call[c].then = "callback"
  PROVE  CallHandles' /\ call' \in [Callers -> CallSet]
  <1> DEFINE r == [call[c] EXCEPT !.pc = pc]
  <1>1. call[c] \in CallSet
    BY DEF TypeOK, CallSet
  <1>2. /\ r \in CallSet /\ r.handle = call[c].handle
        /\ r.then = call[c].then /\ r.victim = call[c].victim /\ r.pc = pc
    BY <1>1 DEF CallSet
  <1>3. call' = [call EXCEPT ![c] = r]
    BY DEF Goto
  <1> HIDE DEF r
  <1> QED BY <1>2, <1>3, LocalsTypes DEF CallHandles

LEMMA LeaveTypes ==
  ASSUME TypeOK, CallHandles, NEW c \in Callers, Leave(c)
  PROVE  CallHandles' /\ call' \in [Callers -> CallSet]
  <1>1. NoCall \in CallSet /\ NoCall.pc = "idle" /\ NoCall.then = "end"
    BY DEF NoCall, Call, CallSet, Pcs
  <1> QED BY <1>1, LocalsTypes DEF Leave

LEMMA ContinueTypes ==
  ASSUME TypeOK, CallHandles, NEW c \in Callers, NEW started \in BOOLEAN,
         Continue(c, started), call[c].pc # "idle"
  PROVE  CallHandles' /\ call' \in [Callers -> CallSet]
  BY GotoTypes, LeaveTypes DEF Continue, Pcs

LEMMA RestartTypes ==
  ASSUME TypeOK, CallHandles, NEW c \in Callers, Restart(c),
         call[c].pc # "idle"
  PROVE  CallHandles' /\ call' \in [Callers -> CallSet]
  <1> DEFINE r == [call[c] EXCEPT !.pc = "get", !.then = "end"]
  <1>1. call[c] \in CallSet
    BY DEF TypeOK, CallSet
  <1>2. /\ r \in CallSet /\ r.handle = call[c].handle
        /\ r.then = "end" /\ r.pc = "get"
    BY <1>1 DEF CallSet, Pcs
  <1>3. call' = [call EXCEPT ![c] = r]
    BY DEF Restart
  <1> HIDE DEF r
  <1> QED BY <1>2, <1>3, LocalsTypes DEF CallHandles

LEMMA NewCallTypes ==
  ASSUME TypeOK, CallHandles, NEW c \in Callers, NEW w \in Handles,
         NEW pc \in Pcs, NEW then \in {"write", "end"},
         NEW closing \in BOOLEAN, pc \notin {"unlink", "callback_end"},
         call' = [call EXCEPT ![c] = Call(pc, w, then, closing)]
  PROVE  CallHandles' /\ call' \in [Callers -> CallSet]
  <1>1. /\ Call(pc, w, then, closing) \in CallSet
        /\ Call(pc, w, then, closing).pc = pc
        /\ Call(pc, w, then, closing).handle = w
        /\ Call(pc, w, then, closing).then = then
    BY DEF Call, CallSet
  <1> QED BY <1>1, LocalsTypes

\* The steps that begin, and those that start a transfer.
LEMMA BeginTypes ==
  ASSUME TypeOK, CallHandles, NEW c \in Callers, NEW w \in Handles,
         Begin(c, w)
  PROVE  TypesKept'
  <1>1. CASE Write(c, w)
    <2>1. CallHandles' /\ call' \in [Callers -> CallSet]
      <3>1. CASE IsEmpty(running)
        <4>1. call' = [call EXCEPT ![c] = Call("get", w, "write", FALSE)]
          BY <1>1, <3>1 DEF Write
        <4> QED BY <4>1, NewCallTypes DEF Pcs
      <3>2. CASE ~IsEmpty(running) /\ w \in usage.blocking
        <4>1. call' = [call EXCEPT ![c] = Call("spin", w, "write", FALSE)]
          BY <1>1, <3>2 DEF Write
        <4> QED BY <4>1, NewCallTypes DEF Pcs
      <3>3. CASE ~IsEmpty(running) /\ w \notin usage.blocking
        <4>1. call' = [call EXCEPT ![c] = call[c]]
          BY <1>1, <3>3 DEF Write
        <4>2. call' = call
          BY <4>1 DEF TypeOK
        <4> QED BY <4>2 DEF CallHandles, TypeOK, CallSet
      <3> QED BY <3>1, <3>2, <3>3
    <2>2. Append(running, w) \in Seq(Handles) /\ Append(order, w) \in Seq(Handles)
      BY AppendProperties DEF TypeOK
    <2> QED BY <1>1, <2>1, <2>2
            DEF Write, TypeOK, TypesKept, CallSet, portVars, taskVars
  <1>2. CASE Open(c, w)
    BY <1>2 DEF Open, TypeOK, CallHandles, TypesKept, handleVars, portVars,
                taskVars, history
  <1>3. ASSUME NEW closing \in BOOLEAN, Cancel(c, w, closing)
        PROVE  TypesKept'
    <2>1. CallHandles' /\ call' \in [Callers -> CallSet]
      BY <1>3, NewCallTypes DEF Cancel, Pcs
    <2> QED BY <1>3, <2>1 DEF Cancel, OnlyCalls, TypeOK, TypesKept, CallSet,
               handleVars, portVars, taskVars, history
  <1> QED BY <1>1, <1>2, <1>3 DEF Begin

LEMMA StartTypes ==
  ASSUME TypeOK, CallHandles, NEW c \in Callers,
         StartGet(c) \/ StartTest(c) \/ StartSet(c) \/ StartSend(c) \/ Spin(c)
  PROVE  TypesKept'
  <1> USE DEF At
  <1>1. CallHandles' /\ call' \in [Callers -> CallSet]
    <2>1. CASE StartGet(c) /\ running # <<>>
      <3> DEFINE r == [call[c] EXCEPT !.pc = "test", !.start = Head(running)]
      <3>1. call[c] \in CallSet /\ Head(running) \in Handles
        BY <2>1, HeadTailProperties DEF TypeOK, CallSet
      <3>2. /\ r \in CallSet /\ r.handle = call[c].handle /\ r.pc = "test"
            /\ r.then = call[c].then /\ r.victim = call[c].victim
        BY <3>1 DEF CallSet, Pcs
      <3>3. call' = [call EXCEPT ![c] = r]
        BY <2>1 DEF StartGet
      <3>4. call[c].pc = "get"
        BY <2>1 DEF StartGet
      <3> HIDE DEF r
      <3> QED BY <3>2, <3>3, <3>4, LocalsTypes DEF CallHandles
    <2>2. CASE StartGet(c) /\ running = <<>>
      BY <2>2, ContinueTypes DEF StartGet
    <2>3. CASE StartTest(c)
      BY <2>3, ContinueTypes, GotoTypes DEF StartTest, Pcs
    <2>4. CASE StartSet(c)
      BY <2>4, GotoTypes DEF StartSet, Pcs
    <2>5. CASE StartSend(c)
      BY <2>5, ContinueTypes DEF StartSend
    <2>6. CASE Spin(c)
      BY <2>6, LeaveTypes DEF Spin
    <2> QED BY <2>1, <2>2, <2>3, <2>4, <2>5, <2>6
  <1>2. call[c].start \in Handles \cup {None}
    BY DEF TypeOK
  <1> QED BY <1>1, <1>2
          DEF StartGet, StartTest, StartSet, StartSend, Spin, OnlyCalls, TypeOK,
              TypesKept, CallSet, handleVars, portVars, taskVars, history

\* The steps of a cancellation.
LEMMA CompleteTypes ==
  ASSUME TypeOK, NEW w \in Handles, NEW result \in {"success", "canceled"},
         Complete(w, result)
  PROVE  /\ soFar' \in [Handles -> BOOLEAN] /\ buffer' \in [Handles -> BOOLEAN]
         /\ status' \in [Handles -> {"success", "canceled"}]
         /\ completed' \in Seq(Handles) /\ posted' \in 0 .. QueueSize
  <1>1. soFar' \in [Handles -> BOOLEAN]
        /\ status' \in [Handles -> {"success", "canceled"}]
    BY DEF TypeOK, Complete, Counted
  <1>2. Append(completed, w) \in Seq(Handles)
    BY AppendProperties DEF TypeOK
  <1>3. CASE w \in usage.blocking
    <2>1. buffer' = [buffer EXCEPT ![w] = FALSE] /\ UNCHANGED <<completed, posted>>
      BY <1>3 DEF Complete
    <2> QED BY <1>1, <2>1 DEF TypeOK
  <1>4. CASE w \notin usage.blocking
    <2>1. completed' = Append(completed, w) /\ Post /\ UNCHANGED buffer
      BY <1>4 DEF Complete, Completed
    <2> QED BY <1>1, <1>2, <2>1, Posting DEF TypeOK
  <1> QED BY <1>3, <1>4

LEMMA CancelTypes ==
  ASSUME TypeOK, CallHandles, NEW c \in Callers,
         \/ CancelQueued(c) \/ CancelComplete(c) \/ CancelFirst(c)
         \/ PortCancel(c) \/ PortAbort(c) \/ PortCallback(c) \/ PortUnlink(c)
         \/ CallbackEnd(c) \/ Close(c)
  PROVE  TypesKept'
  <1> USE DEF At
  <1>0. call[c].pc # "idle" => call[c].handle \in Handles
    BY DEF CallHandles
  <1>1. CASE CancelQueued(c)
    <2>1. CallHandles' /\ call' \in [Callers -> CallSet]
      BY <1>1, GotoTypes DEF CancelQueued, Pcs
    <2>2. running' \in Seq(Handles) /\ completed' \in Seq(Handles)
      BY <1>1, RemovingKeepsType DEF CancelQueued, TypeOK
    <2> QED BY <1>1, <2>1, <2>2 DEF CancelQueued, TypeOK, TypesKept, CallSet,
               portVars, taskVars, history
  <1>2. CASE CancelComplete(c)
    <2>1. CallHandles' /\ call' \in [Callers -> CallSet]
      BY <1>2, RestartTypes DEF CancelComplete
    <2>2. completed' \in Seq(Handles)
      BY <1>0, <1>2, AppendProperties DEF CancelComplete, TypeOK
    <2>3. posted' \in 0 .. QueueSize
      BY <1>2, Posting DEF CancelComplete, TypeOK
    <2> QED BY <1>2, <2>1, <2>2, <2>3 DEF CancelComplete, TypeOK, TypesKept,
               CallSet, portVars, taskVars, history
  <1>3. CASE CancelFirst(c)
    <2>1. CallHandles' /\ call' \in [Callers -> CallSet]
      BY <1>3, GotoTypes DEF CancelFirst, Pcs
    <2> QED BY <1>3, <2>1 DEF CancelFirst, OnlyCalls, TypeOK, TypesKept, CallSet,
               handleVars, portVars, taskVars, history
  <1>4. CASE PortCancel(c)
    <2>1. CallHandles' /\ call' \in [Callers -> CallSet]
      <3> DEFINE r == [call[c] EXCEPT !.pc = "abort", !.wasBusy = busy]
      <3>1. call[c] \in CallSet /\ busy \in BOOLEAN
        BY DEF TypeOK, CallSet
      <3>2. /\ r \in CallSet /\ r.handle = call[c].handle /\ r.pc = "abort"
            /\ r.then = call[c].then /\ r.victim = call[c].victim
        BY <3>1 DEF CallSet, Pcs
      <3>3. call' = [call EXCEPT ![c] = r] /\ call[c].pc = "port_cancel"
        BY <1>4 DEF PortCancel
      <3> HIDE DEF r
      <3> QED BY <3>2, <3>3, LocalsTypes DEF CallHandles
    <2> QED BY <1>4, <2>1 DEF PortCancel, TypeOK, TypesKept, CallSet,
               handleVars, taskVars, history
  <1>5. CASE PortAbort(c)
    <2>1. CallHandles' /\ call' \in [Callers -> CallSet]
      BY <1>5, GotoTypes, RestartTypes DEF PortAbort, Pcs
    <2> QED BY <1>5, <2>1 DEF PortAbort, TypeOK, TypesKept, CallSet,
               handleVars, taskVars, history
  <1>6. CASE PortCallback(c)
    <2>1. CallHandles' /\ call' \in [Callers -> CallSet]
      <3>1. CASE running = <<>>
        BY <1>6, <3>1, RestartTypes DEF PortCallback
      <3>2. CASE running # <<>>
        <4> DEFINE r == [call[c] EXCEPT !.pc = "unlink", !.victim = Head(running)]
        <4>1. call[c] \in CallSet /\ Head(running) \in Handles
          BY <3>2, HeadTailProperties DEF TypeOK, CallSet
        <4>2. /\ r \in CallSet /\ r.handle = call[c].handle
              /\ r.pc = "unlink" /\ r.victim \in Handles
          BY <4>1 DEF CallSet, Pcs
        <4>3. call' = [call EXCEPT ![c] = r] /\ call[c].pc = "callback"
          BY <1>6, <3>2 DEF PortCallback
        <4> HIDE DEF r
        <4> QED BY <4>2, <4>3, LocalsTypes DEF CallHandles
      <3> QED BY <3>1, <3>2
    <2> QED BY <1>6, <2>1 DEF PortCallback, OnlyCalls, TypeOK, TypesKept, CallSet,
               handleVars, portVars, taskVars, history
  <1>9. CASE PortUnlink(c)
    <2>1. CallHandles' /\ call' \in [Callers -> CallSet]
      <3> DEFINE r == [call[c] EXCEPT !.pc = "get", !.then = "callback"]
      <3>1. call[c] \in CallSet
        BY DEF TypeOK, CallSet
      <3>2. /\ r \in CallSet /\ r.handle = call[c].handle
            /\ r.pc = "get" /\ r.victim = call[c].victim
        BY <3>1 DEF CallSet, Pcs
      <3>3. call' = [call EXCEPT ![c] = r] /\ call[c].pc = "unlink"
        BY <1>9 DEF PortUnlink
      <3> HIDE DEF r
      <3> QED BY <3>2, <3>3, LocalsTypes DEF CallHandles
    <2>2. running' \in Seq(Handles)
      <3>1. running # <<>> => Tail(running) \in Seq(Handles)
        BY HeadTailProperties DEF TypeOK
      <3> QED BY <1>9, <3>1 DEF PortUnlink, TypeOK
    <2> QED BY <1>9, <2>1, <2>2 DEF PortUnlink, TypeOK, TypesKept, CallSet,
               portVars, taskVars, history
  <1>7. CASE CallbackEnd(c)
    <2>1. CallHandles' /\ call' \in [Callers -> CallSet]
      BY <1>7, RestartTypes DEF CallbackEnd
    <2>2. call[c].victim \in Handles /\ Complete(call[c].victim, "canceled")
      BY <1>7 DEF CallbackEnd, CallHandles
    <2>3. /\ soFar' \in [Handles -> BOOLEAN] /\ buffer' \in [Handles -> BOOLEAN]
          /\ status' \in [Handles -> {"success", "canceled"}]
          /\ completed' \in Seq(Handles) /\ posted' \in 0 .. QueueSize
      BY <2>2, CompleteTypes
    <2> QED BY <1>7, <2>1, <2>3 DEF CallbackEnd, TypeOK, TypesKept, CallSet,
               portVars, taskVars, history
  <1>8. CASE Close(c)
    <2>1. CallHandles' /\ call' \in [Callers -> CallSet]
      BY <1>8, LeaveTypes DEF Close
    <2> QED BY <1>8, <2>1 DEF Close, TypeOK, TypesKept, CallSet,
               portVars, taskVars, history
  <1> QED BY <1>1, <1>2, <1>3, <1>4, <1>5, <1>6, <1>7, <1>8, <1>9

LEMMA OtherTypes ==
  ASSUME TypeOK, CallHandles, TxIdle \/ ReadPosts \/ Task \/ UNCHANGED vars
  PROVE  TypesKept'
  <1>1. UNCHANGED call => CallHandles' /\ call' \in [Callers -> CallSet]
    BY DEF CallHandles, TypeOK, CallSet
  <1>2. CASE TxIdle
    <2>1. CASE busy /\ running # <<>>
      <3>1. Head(running) \in Handles /\ Tail(running) \in Seq(Handles)
        BY <2>1, HeadTailProperties DEF TypeOK
      <3>2. First(Tail(running)) \in Handles \cup {None}
        BY <3>1, FirstFacts
      <3>3. /\ soFar' \in [Handles -> BOOLEAN]
            /\ buffer' \in [Handles -> BOOLEAN]
            /\ status' \in [Handles -> {"success", "canceled"}]
            /\ completed' \in Seq(Handles) /\ posted' \in 0 .. QueueSize
        BY <1>2, <2>1, <3>1, CompleteTypes DEF TxIdle, Ended
      <3> QED BY <1>1, <1>2, <2>1, <3>1, <3>2, <3>3
              DEF TxIdle, TypeOK, TypesKept, CallSet, NextStarted, taskVars
    <2>2. CASE ~(busy /\ running # <<>>)
      BY <1>1, <1>2, <2>2
      DEF TxIdle, TypeOK, TypesKept, CallSet, handleVars, taskVars
    <2> QED BY <2>1, <2>2
  <1>3. CASE Task
    <2>1. First(completed) \in Handles \cup {None}
      BY FirstFacts DEF TypeOK
    <2>2. completed # <<>> => Tail(completed) \in Seq(Handles)
      BY HeadTailProperties DEF TypeOK
    <2>3. RemoveFirst(order, taskHandle) \in Seq(Handles)
      BY RemovingKeepsType DEF TypeOK
    <2>4. posted' \in 0 .. QueueSize
      BY <1>3, Waking
      DEF Task, TaskGet, TaskRemove, TaskFree, TaskCall, TypeOK
    <2> QED BY <1>1, <1>3, <2>1, <2>2, <2>3, <2>4
            DEF Task, TaskWakes, TaskGet, TaskRemove, TaskFree, TaskCall,
                AfterCallback, TypeOK, TypesKept, CallSet, handleVars, portVars,
                taskVars, history
  <1>4. CASE UNCHANGED vars
    BY <1>1, <1>4 DEF vars, TypeOK, TypesKept, CallSet, handleVars, portVars,
                      taskVars, history
  <1>5. CASE ReadPosts
    <2>1. posted' \in 0 .. QueueSize
      BY <1>5, Posting DEF ReadPosts, TypeOK
    <2> QED BY <1>1, <1>5, <2>1 DEF ReadPosts, TypeOK, TypesKept, CallSet,
               handleVars, portVars, taskVars, history
  <1> QED BY <1>2, <1>3, <1>4, <1>5

LEMMA TypesAlways == Spec => []TypesKept
  <1>1. Init => TypesKept
    <2> SUFFICES ASSUME Init PROVE TypesKept
      OBVIOUS
    <2>1. NoCall \in CallSet /\ NoCall.pc = "idle" /\ NoCall.then = "end"
      BY DEF NoCall, Call, CallSet, Pcs
    <2>2. call = [c \in Callers |-> NoCall]
      BY DEF Init
    <2>3. CallHandles
      BY <2>1, <2>2 DEF CallHandles
    <2>4. call \in [Callers -> CallSet]
      BY <2>1, <2>2
    <2>5. running \in Seq(Handles) /\ completed \in Seq(Handles)
          /\ order \in Seq(Handles)
      BY EmptySeq DEF Init
    <2> QED BY <2>3, <2>4, <2>5, EmptyQueue
            DEF Init, TypeOK, TypesKept, CallSet
  <1>2. TypesKept /\ [Next]_vars => TypesKept'
    BY BeginTypes, StartTypes, CancelTypes, OtherTypes
    DEF Next, Proceed, TypesKept
  <1> QED BY <1>1, <1>2, PTL DEF Spec

\* Whoever cancels what, and at any priority, the task included: the lists hold
\* handles, and a call that ends another's request has one to end.
THEOREM SerialTypeCorrect == Spec => []TypeOK
  BY TypesAlways, PTL DEF TypesKept

-----------------------------------------------------------------------------
(* One caller below the task, which cancels and closes what it likes *)

\* All handles in use belong to c, the task runs before it, and the task's queue
\* is not filled by others.
Alone(c) ==
  /\ usage.taskFirst /\ ~usage.crowded
  /\ \A w \in Handles : usage.owner[w] \in {c, None}

\* A handle waits to be sent, waits for the task, or is in the task's hands.
\* The task leaves nothing to do when it lets the caller run.
Lists ==
  /\ Distinct(running) /\ Distinct(completed)
  /\ \A w \in Handles : Contains(running, w) =>
       ~Contains(completed, w) /\ buffer[w] /\ w \in opened
  /\ \A w \in Handles : Contains(completed, w) => w \in opened
  /\ taskPc = "wait" /\ posted = 0 => completed = <<>>
  /\ taskPc = "remove" => completed # <<>> /\ taskHandle = Head(completed)
  /\ taskPc \in {"free", "call"} =>
       /\ taskHandle \in opened
       /\ ~Contains(running, taskHandle) /\ ~Contains(completed, taskHandle)

\* The handle that a call cancels has left the running list from its critical
\* section or from its part of the interrupt on, and TxCallback's victim is in
\* no list until the call puts it into one.
Claims(r) ==
  /\ r.pc # "idle" => r.handle \in opened
  /\ r.pc \in {"cancel", "canceled", "port_cancel", "abort", "callback",
              "unlink"} => r.then = "end"
  /\ r.pc = "callback_end" => r.then = "callback"
  /\ r.then = "callback" =>
       /\ r.pc \in Starting \cup {"callback_end"}
       /\ r.victim \in opened /\ ~Contains(running, r.victim)
  /\ \/ r.pc \in {"canceled", "callback_end", "close"}
     \/ r.pc \in Starting /\ r.then # "write"
     => ~Contains(running, r.handle)
  /\ r.pc = "unlink" =>
       running # <<>> /\ r.victim = Head(running) /\ r.victim \in opened
  /\ r.pc \in {"port_cancel", "abort", "callback", "unlink"}
     /\ Contains(running, r.handle) => r.handle = Head(running)
  /\ r.pc = "abort" /\ ~r.wasBusy => running = <<>>
  /\ r.pc \in {"test", "set", "send"} => r.start # None

\* The port is busy with what the HAL sends but for the middle of a start or
\* of a cancel; out of these a handle that waits has it busy.
PortAt(pc) ==
  /\ pc \in {"set", "send", "callback", "unlink"} => hal = None
  /\ pc = "send" => busy
  /\ pc = "abort" => ~busy
  /\ pc \notin {"send", "abort"} => (busy <=> hal # None)
  /\ pc \notin Starting \cup {"abort", "callback", "unlink"} => (running # <<>> => busy)

Mine(c) ==
  /\ Lists /\ Claims(call[c]) /\ PortAt(call[c].pc)
  /\ \A d \in Callers : d # c => call[d].pc = "idle"

\* What the caller's step leaves of the calls.
LEMMA GotoFields ==
  ASSUME TypeOK, NEW c \in Callers, NEW pc, Goto(c, pc)
  PROVE  /\ call'[c].pc = pc /\ call'[c].handle = call[c].handle
         /\ call'[c].then = call[c].then /\ call'[c].victim = call[c].victim
         /\ call'[c].wasBusy = call[c].wasBusy
         /\ call'[c].start = call[c].start
         /\ \A d \in Callers : d # c => call'[d] = call[d]
  <1>1. call[c] \in CallSet /\ call \in [Callers -> CallSet]
    BY DEF TypeOK, CallSet
  <1>2. call'[c] = [call[c] EXCEPT !.pc = pc]
        /\ \A d \in Callers : d # c => call'[d] = call[d]
    BY <1>1 DEF Goto
  <1> QED BY <1>1, <1>2 DEF CallSet

LEMMA LeaveFields ==
  ASSUME TypeOK, NEW c \in Callers, Leave(c)
  PROVE  /\ call'[c].pc = "idle" /\ call'[c].then = "end"
         /\ \A d \in Callers : d # c => call'[d] = call[d]
  <1>1. call \in [Callers -> CallSet]
    BY DEF TypeOK, CallSet
  <1>2. call'[c] = NoCall /\ \A d \in Callers : d # c => call'[d] = call[d]
    BY <1>1 DEF Leave
  <1> QED BY <1>2 DEF NoCall, Call

LEMMA RestartFields ==
  ASSUME TypeOK, NEW c \in Callers, Restart(c)
  PROVE  /\ call'[c].pc = "get" /\ call'[c].handle = call[c].handle
         /\ call'[c].then = "end"
         /\ \A d \in Callers : d # c => call'[d] = call[d]
  <1>1. call[c] \in CallSet /\ call \in [Callers -> CallSet]
    BY DEF TypeOK, CallSet
  <1>2. call'[c] = [call[c] EXCEPT !.pc = "get", !.then = "end"]
        /\ \A d \in Callers : d # c => call'[d] = call[d]
    BY <1>1 DEF Restart
  <1> QED BY <1>1, <1>2 DEF CallSet

LEMMA NewCall ==
  ASSUME TypeOK, NEW c \in Callers, NEW r, call' = [call EXCEPT ![c] = r]
  PROVE  call'[c] = r /\ \A d \in Callers : d # c => call'[d] = call[d]
  <1>1. call \in [Callers -> CallSet]
    BY DEF TypeOK, CallSet
  <1> QED BY <1>1

\* A step that leaves lists, handles and task alone.
LEMMA ListsKept ==
  ASSUME Lists,
         UNCHANGED <<running, completed, buffer, posted, taskPc, taskHandle>>,
         opened \subseteq opened'
  PROVE  Lists'
  BY DEF Lists

\* The return of StartWriting.
LEMMA ContinueMine ==
  ASSUME TypeOK, NEW c \in Callers, NEW started \in BOOLEAN,
         Continue(c, started), call[c].pc \in Starting, Claims(call[c]),
         UNCHANGED <<running, opened>>
  PROVE  /\ Claims(call[c])'
         /\ call'[c].pc \in {"idle", "close", "callback_end", "spin"}
         /\ \A d \in Callers : d # c => call'[d] = call[d]
  <1>1. CASE Goto(c, "callback_end") /\ call[c].then = "callback"
    BY <1>1, GotoFields DEF Claims, Starting
  <1>2. CASE Goto(c, "close") /\ call[c].then = "end"
    BY <1>2, GotoFields DEF Claims, Starting
  <1>3. CASE Goto(c, "spin") /\ call[c].then = "write"
    BY <1>3, GotoFields DEF Claims, Starting
  <1>4. CASE Leave(c)
    BY <1>4, LeaveFields DEF Claims, Starting
  <1>5. \/ Goto(c, "callback_end") /\ call[c].then = "callback"
        \/ Goto(c, "close") /\ call[c].then = "end"
        \/ Goto(c, "spin") /\ call[c].then = "write"
        \/ Leave(c)
    BY DEF Continue
  <1> QED BY <1>1, <1>2, <1>3, <1>4, <1>5

LEMMA StartMine ==
  ASSUME TypesKept, NEW c \in Callers, Mine(c),
         StartGet(c) \/ StartTest(c) \/ StartSet(c) \/ StartSend(c) \/ Spin(c)
  PROVE  Mine(c)'
  <1> USE DEF TypesKept, At, Starting
  <1>1. Lists'
    BY ListsKept DEF Mine, StartGet, StartTest, StartSet, StartSend, Spin,
          OnlyCalls, handleVars, portVars, taskVars, history
  <1>2. CASE StartGet(c)
    <2>1. /\ call[c].pc = "get" /\ Claims(call[c]) /\ PortAt("get")
          /\ UNCHANGED <<running, opened, busy, hal>>
      BY <1>2 DEF StartGet, Mine, OnlyCalls, handleVars, portVars
    <2>2. CASE running = <<>>
      <3>1. Continue(c, FALSE)
        BY <1>2, <2>2 DEF StartGet
      <3>2. /\ Claims(call[c])'
            /\ call'[c].pc \in {"idle", "close", "callback_end", "spin"}
            /\ \A d \in Callers : d # c => call'[d] = call[d]
        BY <2>1, <3>1, ContinueMine
      <3> QED BY <1>1, <2>1, <2>2, <3>2 DEF Mine, PortAt
    <2>3. CASE running # <<>>
      <3>1. call[c] \in CallSet /\ call \in [Callers -> CallSet]
        BY DEF TypeOK, CallSet
      <3>2. /\ call'[c] = [call[c] EXCEPT !.pc = "test",
                                          !.start = Head(running)]
            /\ \A d \in Callers : d # c => call'[d] = call[d]
        BY <1>2, <2>3, <3>1 DEF StartGet
      <3>3. /\ call'[c].pc = "test" /\ call'[c].handle = call[c].handle
            /\ call'[c].then = call[c].then
            /\ call'[c].victim = call[c].victim
            /\ call'[c].start = Head(running)
        BY <3>1, <3>2 DEF CallSet
      <3>4. Head(running) # None
        BY <2>3, FirstFacts DEF TypeOK
      <3>5. Claims(call[c])'
        BY <2>1, <3>3, <3>4 DEF Claims
      <3> QED BY <1>1, <2>1, <3>2, <3>3, <3>5 DEF Mine, PortAt
    <2> QED BY <2>2, <2>3
  <1>3. CASE StartTest(c)
    <2>1. /\ call[c].pc = "test" /\ Claims(call[c]) /\ PortAt("test")
          /\ UNCHANGED <<running, opened, busy, hal>>
      BY <1>3 DEF StartTest, Mine, OnlyCalls, handleVars, portVars
    <2>2. CASE busy
      <3>1. Continue(c, FALSE)
        BY <1>3, <2>2 DEF StartTest
      <3>2. /\ Claims(call[c])'
            /\ call'[c].pc \in {"idle", "close", "callback_end", "spin"}
            /\ \A d \in Callers : d # c => call'[d] = call[d]
        BY <2>1, <3>1, ContinueMine
      <3> QED BY <1>1, <2>1, <2>2, <3>2 DEF Mine, PortAt
    <2>3. CASE ~busy
      <3>1. Goto(c, "set")
        BY <1>3, <2>3 DEF StartTest
      <3>2. /\ call'[c].pc = "set" /\ call'[c].handle = call[c].handle
            /\ call'[c].then = call[c].then
            /\ call'[c].victim = call[c].victim
            /\ call'[c].start = call[c].start
            /\ \A d \in Callers : d # c => call'[d] = call[d]
        BY <3>1, GotoFields
      <3>3. Claims(call[c])'
        BY <2>1, <3>2 DEF Claims
      <3> QED BY <1>1, <2>1, <2>3, <3>2, <3>3 DEF Mine, PortAt
    <2> QED BY <2>2, <2>3
  <1>4. CASE StartSet(c)
    <2>1. /\ call[c].pc = "set" /\ Claims(call[c]) /\ PortAt("set")
          /\ UNCHANGED <<running, opened, hal>> /\ busy' = TRUE
      BY <1>4 DEF StartSet, Mine, handleVars
    <2>2. /\ call'[c].pc = "send" /\ call'[c].handle = call[c].handle
          /\ call'[c].then = call[c].then
          /\ call'[c].victim = call[c].victim
          /\ call'[c].start = call[c].start
          /\ \A d \in Callers : d # c => call'[d] = call[d]
      BY <1>4, GotoFields DEF StartSet
    <2>3. Claims(call[c])'
      BY <2>1, <2>2 DEF Claims
    <2> QED BY <1>1, <2>1, <2>2, <2>3 DEF Mine, PortAt
  <1>5. CASE StartSend(c)
    <2>1. /\ call[c].pc = "send" /\ Claims(call[c])
          /\ busy /\ hal = None
      BY <1>5 DEF StartSend, Mine, PortAt
    <2>2. /\ UNCHANGED <<running, opened, busy>> /\ Continue(c, TRUE)
          /\ hal' = call[c].start
      BY <1>5, <2>1 DEF StartSend, handleVars
    <2>3. /\ Claims(call[c])'
          /\ call'[c].pc \in {"idle", "close", "callback_end", "spin"}
          /\ \A d \in Callers : d # c => call'[d] = call[d]
      BY <2>1, <2>2, ContinueMine
    <2>4. hal' # None
      BY <2>1, <2>2 DEF Claims
    <2> QED BY <1>1, <2>1, <2>2, <2>3, <2>4 DEF Mine, PortAt
  <1>6. CASE Spin(c)
    <2>1. /\ call[c].pc = "spin" /\ Claims(call[c]) /\ PortAt("spin")
          /\ UNCHANGED <<running, opened, busy, hal>>
      BY <1>6 DEF Spin, Mine, OnlyCalls, handleVars, portVars
    <2>2. /\ call'[c].pc = "idle" /\ call'[c].then = "end"
          /\ \A d \in Callers : d # c => call'[d] = call[d]
      BY <1>6, LeaveFields DEF Spin
    <2>3. Claims(call[c])'
      BY <2>2 DEF Claims
    <2> QED BY <1>1, <2>1, <2>2, <2>3 DEF Mine, PortAt
  <1> QED BY <1>2, <1>3, <1>4, <1>5, <1>6

\* The steps of a caller that begin a call.  Here and below completed is empty.
LEMMA BeginMine ==
  ASSUME TypesKept, NEW c \in Callers, Alone(c), Mine(c), NEW w \in Handles,
         Begin(c, w)
  PROVE  Mine(c)'
  <1> USE DEF TypesKept, At, Starting
  <1>1. CASE Write(c, w)
    <2>1. /\ call[c].pc = "idle" /\ ~buffer[w] /\ w \in opened
          /\ running' = Append(running, w)
          /\ buffer' = [buffer EXCEPT ![w] = TRUE]
          /\ UNCHANGED <<opened, completed, busy, hal, posted, taskPc,
                         taskHandle>>
          /\ completed = <<>> /\ taskPc = "wait"
      BY <1>1 DEF Write, Unused, portVars, taskVars, Alone, Mine, Lists
    <2>2. /\ Lists /\ Claims(call[c]) /\ PortAt("idle") /\ ~Contains(running, w)
          /\ \A d \in Callers : d # c => call[d].pc = "idle"
      BY <2>1 DEF Mine, Lists
    <2>3. /\ running' # <<>> /\ Distinct(running')
          /\ \A u : Contains(running', u) <=> Contains(running, u) \/ u = w
      BY <2>1, <2>2, AppendedTo DEF TypeOK, Lists
    <2>4. Lists'
      BY <2>1, <2>2, <2>3, NothingIn DEF Lists, TypeOK
    <2>5. CASE running = <<>>
      <3>1. call' = [call EXCEPT ![c] = Call("get", w, "write", FALSE)]
        BY <1>1, <2>5 DEF Write, IsEmpty
      <3>2. /\ call'[c].pc = "get" /\ call'[c].handle = w
            /\ call'[c].then = "write"
            /\ \A d \in Callers : d # c => call'[d] = call[d]
        <4>1. /\ call'[c] = Call("get", w, "write", FALSE)
              /\ \A d \in Callers : d # c => call'[d] = call[d]
          BY <3>1, NewCall
        <4> QED BY <4>1 DEF Call
      <3>3. Claims(call[c])'
        BY <2>1, <3>2 DEF Claims
      <3> QED BY <2>1, <2>2, <2>4, <3>2, <3>3 DEF Mine, PortAt
    <2>6. CASE running # <<>> /\ w \in usage.blocking
      <3>1. call' = [call EXCEPT ![c] = Call("spin", w, "write", FALSE)]
        BY <1>1, <2>6 DEF Write, IsEmpty
      <3>2. /\ call'[c].pc = "spin" /\ call'[c].handle = w
            /\ call'[c].then = "write"
            /\ \A d \in Callers : d # c => call'[d] = call[d]
        <4>1. /\ call'[c] = Call("spin", w, "write", FALSE)
              /\ \A d \in Callers : d # c => call'[d] = call[d]
          BY <3>1, NewCall
        <4> QED BY <4>1 DEF Call
      <3>3. Claims(call[c])'
        BY <2>1, <3>2 DEF Claims
      <3> QED BY <2>1, <2>2, <2>4, <2>6, <3>2, <3>3 DEF Mine, PortAt
    <2>7. CASE running # <<>> /\ w \notin usage.blocking
      <3>1. call' = [call EXCEPT ![c] = call[c]]
        BY <1>1, <2>7 DEF Write, IsEmpty
      <3>2. call' = call
        BY <3>1 DEF TypeOK
      <3>3. Claims(call[c])'
        BY <2>1, <2>2, <3>2 DEF Claims
      <3> QED BY <2>1, <2>2, <2>4, <2>7, <3>2, <3>3 DEF Mine, PortAt
    <2> QED BY <2>5, <2>6, <2>7
  <1>2. CASE Open(c, w)
    <2>1. /\ UNCHANGED <<running, completed, buffer, posted, taskPc, taskHandle,
                         busy, hal, call>>
          /\ opened \subseteq opened'
      BY <1>2 DEF Open, handleVars, portVars, taskVars
    <2>2. Lists' /\ Claims(call[c])'
      BY <2>1, ListsKept DEF Mine, Claims
    <2> QED BY <2>1, <2>2 DEF Mine, PortAt
  <1>3. ASSUME NEW closing \in BOOLEAN, Cancel(c, w, closing) PROVE Mine(c)'
    <2>1. /\ UNCHANGED <<running, completed, buffer, posted, taskPc, taskHandle,
                         busy, hal, opened>>
          /\ call[c].pc = "idle" /\ w \in opened
      BY <1>3 DEF Cancel, OnlyCalls, handleVars, portVars, taskVars
    <2>2. /\ call'[c].pc = "cancel" /\ call'[c].handle = w
          /\ call'[c].then = "end"
          /\ \A d \in Callers : d # c => call'[d] = call[d]
      <3>1. call' = [call EXCEPT ![c] = Call("cancel", w, "end", closing)]
        BY <1>3 DEF Cancel
      <3>2. /\ call'[c] = Call("cancel", w, "end", closing)
            /\ \A d \in Callers : d # c => call'[d] = call[d]
        BY <3>1, NewCall
      <3> QED BY <3>2 DEF Call
    <2>3. Lists' /\ Claims(call[c])'
      BY <2>1, <2>2, ListsKept DEF Mine, Claims
    <2> QED BY <2>1, <2>2, <2>3 DEF Mine, PortAt
  <1> QED BY <1>1, <1>2, <1>3 DEF Begin

\* The end of a request, for a handle that is in no list: it joins the
\* completed list, or is free.
LEMMA CompleteLists ==
  ASSUME TypeOK, Distinct(completed), NEW w \in Handles, NEW result,
         ~Contains(completed, w), Complete(w, result), ~usage.crowded
  PROVE  /\ Distinct(completed')
         /\ \A u : Contains(completed', u) => Contains(completed, u) \/ u = w
         /\ posted # 0 => posted' # 0
         /\ completed' # completed => posted' # 0
         /\ completed # <<>> => completed' # <<>> /\ Head(completed') =
                                                      Head(completed)
         /\ \A u \in Handles : u # w => buffer'[u] = buffer[u]
  <1>1. CASE w \in usage.blocking
    <2>1. buffer' = [buffer EXCEPT ![w] = FALSE] /\ UNCHANGED <<completed, posted>>
      BY <1>1 DEF Complete
    <2> QED BY <2>1 DEF TypeOK
  <1>2. CASE w \notin usage.blocking
    <2>1. completed' = Append(completed, w) /\ Post /\ UNCHANGED buffer
      BY <1>2 DEF Complete, Completed
    <2>2. /\ Distinct(completed') /\ completed' # <<>>
          /\ Head(completed') = IF completed = <<>> THEN w ELSE Head(completed)
          /\ \A u : Contains(completed', u) <=> Contains(completed, u) \/ u = w
      BY <2>1, AppendedTo DEF TypeOK
    <2> QED BY <2>1, <2>2, Posting DEF TypeOK
  <1> QED BY <1>1, <1>2

LEMMA CancelMine ==
  ASSUME TypesKept, NEW c \in Callers, Alone(c), Mine(c),
         \/ CancelQueued(c) \/ CancelComplete(c) \/ CancelFirst(c)
         \/ PortCancel(c) \/ PortAbort(c)
  PROVE  Mine(c)'
  <1> USE DEF TypesKept, At, Starting
  <1> DEFINE w == call[c].handle
  <1>1. /\ completed = <<>> /\ taskPc = "wait"
        /\ Lists /\ Claims(call[c]) /\ PortAt(call[c].pc)
        /\ \A d \in Callers : d # c => call[d].pc = "idle"
    BY DEF CancelQueued, CancelComplete, CancelFirst, PortCancel, PortAbort,
           Alone, Mine, Lists
  <1>2. CASE CancelQueued(c)
    <2>1. /\ call[c].pc = "cancel" /\ w # First(running)
          /\ running' = RemoveFirst(running, w)
          /\ completed' = RemoveFirst(completed, w)
          /\ UNCHANGED <<opened, buffer, posted, taskPc, taskHandle, busy, hal>>
      BY <1>2 DEF CancelQueued, portVars, taskVars
    <2>2. /\ Distinct(running')
          /\ \A u : Contains(running', u) => Contains(running, u) /\ u # w
      BY <1>1, <2>1, RemovedFrom DEF TypeOK, Lists
    <2>3. completed' = <<>>
      BY <1>1, <2>1 DEF RemoveFirst
    <2>4. Lists'
      BY <1>1, <2>1, <2>2, <2>3, NothingIn DEF Lists
    <2>5. /\ call'[c].pc = "canceled" /\ call'[c].handle = w
          /\ call'[c].then = call[c].then
          /\ \A d \in Callers : d # c => call'[d] = call[d]
      BY <1>2, GotoFields DEF CancelQueued
    <2>6. Claims(call[c])'
      BY <1>1, <2>1, <2>2, <2>5 DEF Claims
    <2>7. running' # <<>> => running # <<>>
      <3>1. running = <<>> => RemoveFirst(running, w) = <<>>
        BY DEF RemoveFirst
      <3> QED BY <2>1, <3>1
    <2> QED BY <1>1, <2>1, <2>4, <2>5, <2>6, <2>7 DEF Mine, PortAt
  <1>3. CASE CancelComplete(c)
    <2>1. /\ call[c].pc = "canceled" /\ w \in opened /\ w \in Handles
          /\ completed' = Append(completed, w) /\ posted' # 0
          /\ UNCHANGED <<opened, running, buffer, taskPc, taskHandle, busy, hal>>
      BY <1>1, <1>3, Posting
      DEF CancelComplete, portVars, taskVars, Claims, CallHandles, Alone, TypeOK
    <2>2. /\ Distinct(completed')
          /\ \A u : Contains(completed', u) <=> Contains(completed, u) \/ u = w
      <3>1. /\ completed \in Seq(Handles) /\ Distinct(completed)
            /\ ~Contains(completed, w)
        BY <1>1, NothingIn DEF TypeOK, Lists
      <3> QED BY <2>1, <3>1, AppendedTo
    <2>3. ~Contains(running, w)
      BY <1>1, <2>1 DEF Claims
    <2>4. Lists'
      BY <1>1, <2>1, <2>2, <2>3 DEF Lists
    <2>5. /\ call'[c].pc = "get" /\ call'[c].handle = w
          /\ call'[c].then = "end"
          /\ \A d \in Callers : d # c => call'[d] = call[d]
      BY <1>3, RestartFields DEF CancelComplete
    <2>6. Claims(call[c])'
      BY <2>1, <2>3, <2>5 DEF Claims
    <2> QED BY <1>1, <2>1, <2>4, <2>5, <2>6 DEF Mine, PortAt
  <1>4. CASE CancelFirst(c)
    <2>1. /\ call[c].pc = "cancel" /\ w = First(running) /\ w \in Handles
          /\ UNCHANGED <<running, completed, opened, buffer, posted, taskPc,
                         taskHandle, busy, hal>>
      BY <1>4 DEF CancelFirst, OnlyCalls, handleVars, portVars, taskVars,
                  CallHandles
    <2>2. w = Head(running)
      BY <2>1, SerialAssumption DEF First
    <2>3. /\ call'[c].pc = "port_cancel" /\ call'[c].handle = w
          /\ call'[c].then = call[c].then
          /\ \A d \in Callers : d # c => call'[d] = call[d]
      BY <1>4, GotoFields DEF CancelFirst
    <2>4. Lists' /\ Claims(call[c])'
      BY <1>1, <2>1, <2>2, <2>3, ListsKept DEF Claims
    <2> QED BY <1>1, <2>1, <2>3, <2>4 DEF Mine, PortAt
  <1>5. CASE PortCancel(c)
    <2>1. /\ call[c].pc = "port_cancel" /\ busy' = FALSE
          /\ UNCHANGED <<running, completed, opened, buffer, posted, taskPc,
                         taskHandle, hal>>
      BY <1>5 DEF PortCancel, handleVars, taskVars
    <2>2. call[c] \in CallSet /\ call \in [Callers -> CallSet]
      BY DEF TypeOK, CallSet
    <2>3. /\ call'[c] = [call[c] EXCEPT !.pc = "abort", !.wasBusy = busy]
          /\ \A d \in Callers : d # c => call'[d] = call[d]
      BY <1>5, <2>2 DEF PortCancel
    <2>4. /\ call'[c].pc = "abort" /\ call'[c].handle = w
          /\ call'[c].then = call[c].then /\ call'[c].wasBusy = busy
      BY <2>2, <2>3 DEF CallSet
    <2>5. Lists' /\ Claims(call[c])'
      BY <1>1, <2>1, <2>4, ListsKept DEF Claims, PortAt
    <2> QED BY <2>1, <1>1, <2>3, <2>4, <2>5 DEF Mine, PortAt
  <1>6. CASE PortAbort(c)
    <2>1. /\ call[c].pc = "abort" /\ hal' = None
          /\ UNCHANGED <<running, completed, opened, buffer, posted, taskPc,
                         taskHandle, busy>>
      BY <1>6 DEF PortAbort, handleVars, taskVars
    <2>2. CASE call[c].wasBusy
      <3>1. /\ call'[c].pc = "callback" /\ call'[c].handle = w
            /\ call'[c].then = call[c].then
            /\ \A d \in Callers : d # c => call'[d] = call[d]
        BY <1>6, <2>2, GotoFields DEF PortAbort
      <3>2. Lists' /\ Claims(call[c])'
        BY <1>1, <2>1, <3>1, ListsKept DEF Claims
      <3> QED BY <1>1, <2>1, <3>1, <3>2 DEF Mine, PortAt
    <2>3. CASE ~call[c].wasBusy
      <3>1. /\ call'[c].pc = "get" /\ call'[c].handle = w
            /\ call'[c].then = "end"
            /\ \A d \in Callers : d # c => call'[d] = call[d]
        BY <1>6, <2>3, RestartFields DEF PortAbort
      <3>2. running = <<>>
        BY <1>1, <2>1, <2>3 DEF Claims
      <3>3. Lists' /\ Claims(call[c])'
        BY <1>1, <2>1, <3>1, <3>2, ListsKept, NothingIn DEF Claims
      <3> QED BY <1>1, <2>1, <3>1, <3>3 DEF Mine, PortAt
    <2> QED BY <2>2, <2>3
  <1> QED BY <1>2, <1>3, <1>4, <1>5, <1>6

LEMMA CallbackMine ==
  ASSUME TypesKept, NEW c \in Callers, Alone(c), Mine(c),
         PortCallback(c) \/ PortUnlink(c) \/ CallbackEnd(c) \/ Close(c)
  PROVE  Mine(c)'
  <1> USE DEF TypesKept, At, Starting
  <1> DEFINE w == call[c].handle
             v == call[c].victim
  <1>1. /\ completed = <<>> /\ taskPc = "wait" /\ w \in Handles
        /\ Lists /\ Claims(call[c]) /\ PortAt(call[c].pc)
        /\ \A d \in Callers : d # c => call[d].pc = "idle"
    BY DEF PortCallback, PortUnlink, CallbackEnd, Close, Alone, Mine, Lists,
           CallHandles
  <1>2. CASE PortCallback(c)
    <2>1. /\ call[c].pc = "callback"
          /\ UNCHANGED <<running, completed, opened, buffer, posted, taskPc,
                         taskHandle, busy, hal>>
      BY <1>2 DEF PortCallback, OnlyCalls, handleVars, portVars, taskVars
    <2>2. CASE running = <<>>
      <3>1. /\ call'[c].pc = "get" /\ call'[c].handle = w
            /\ call'[c].then = "end"
            /\ \A d \in Callers : d # c => call'[d] = call[d]
        BY <1>2, <2>2, RestartFields DEF PortCallback
      <3>2. Lists' /\ Claims(call[c])'
        BY <1>1, <2>1, <2>2, <3>1, ListsKept, NothingIn DEF Claims
      <3> QED BY <1>1, <2>1, <3>1, <3>2 DEF Mine, PortAt
    <2>3. CASE running # <<>>
      <3>1. Head(running) \in Handles /\ Contains(running, Head(running))
        BY <1>1, <2>3, TakenFrom DEF TypeOK, Lists
      <3>2. call[c] \in CallSet /\ call \in [Callers -> CallSet]
        BY DEF TypeOK, CallSet
      <3>3. /\ call'[c] = [call[c] EXCEPT !.pc = "unlink",
                                          !.victim = Head(running)]
            /\ \A d \in Callers : d # c => call'[d] = call[d]
        BY <1>2, <2>3, <3>2 DEF PortCallback
      <3>4. /\ call'[c].pc = "unlink" /\ call'[c].handle = w
            /\ call'[c].then = call[c].then /\ call'[c].victim = Head(running)
        BY <3>2, <3>3 DEF CallSet
      <3>5. Head(running) \in opened
        BY <1>1, <3>1 DEF Lists
      <3>6. Lists' /\ Claims(call[c])'
        BY <1>1, <2>1, <2>3, <3>4, <3>5, ListsKept DEF Claims
      <3> QED BY <1>1, <2>1, <3>3, <3>4, <3>6 DEF Mine, PortAt
    <2> QED BY <2>2, <2>3
  <1>5. CASE PortUnlink(c)
    <2>1. /\ call[c].pc = "unlink" /\ running # <<>> /\ v = Head(running)
          /\ v \in opened /\ running' = Tail(running)
          /\ UNCHANGED <<completed, opened, buffer, posted, taskPc, taskHandle,
                         busy, hal>>
      BY <1>1, <1>5 DEF PortUnlink, Claims, portVars, taskVars
    <2>2. /\ Contains(running, v) /\ Distinct(Tail(running))
          /\ \A u : Contains(Tail(running), u) <=> Contains(running, u) /\ u # v
      BY <1>1, <2>1, TakenFrom DEF TypeOK, Lists
    <2>3. call[c] \in CallSet /\ call \in [Callers -> CallSet]
      BY DEF TypeOK, CallSet
    <2>4. /\ call'[c] = [call[c] EXCEPT !.pc = "get", !.then = "callback"]
          /\ \A d \in Callers : d # c => call'[d] = call[d]
      BY <1>5, <2>3 DEF PortUnlink
    <2>5. /\ call'[c].pc = "get" /\ call'[c].handle = w
          /\ call'[c].then = "callback" /\ call'[c].victim = v
      BY <2>3, <2>4 DEF CallSet
    <2>6. Lists'
      BY <1>1, <2>1, <2>2 DEF Lists
    <2>7. Claims(call[c])'
      BY <1>1, <2>1, <2>2, <2>5 DEF Claims
    <2> QED BY <1>1, <2>1, <2>4, <2>5, <2>6, <2>7 DEF Mine, PortAt
  <1>3. CASE CallbackEnd(c)
    <2>1. /\ call[c].pc = "callback_end" /\ Complete(v, "canceled")
          /\ UNCHANGED <<opened, running, taskPc, taskHandle, busy, hal>>
      BY <1>3 DEF CallbackEnd, portVars, taskVars
    <2>2. v \in Handles /\ v \in opened /\ ~Contains(running, v)
      BY <1>1, <2>1 DEF Claims, TypeOK
    <2>3. /\ Distinct(completed')
          /\ \A u : Contains(completed', u) => u = v
          /\ posted # 0 => posted' # 0
          /\ completed' # completed => posted' # 0
          /\ \A u \in Handles : u # v => buffer'[u] = buffer[u]
      BY <1>1, <2>1, <2>2, CompleteLists, NothingIn DEF Lists, Alone
    <2>4. Lists'
      BY <1>1, <2>1, <2>2, <2>3 DEF Lists
    <2>5. /\ call'[c].pc = "get" /\ call'[c].handle = w
          /\ call'[c].then = "end"
          /\ \A d \in Callers : d # c => call'[d] = call[d]
      BY <1>3, RestartFields DEF CallbackEnd
    <2>6. Claims(call[c])'
      BY <1>1, <2>1, <2>5 DEF Claims
    <2> QED BY <1>1, <2>1, <2>4, <2>5, <2>6 DEF Mine, PortAt
  <1>4. CASE Close(c)
    <2>1. /\ call[c].pc = "close" /\ opened' = opened \ {w}
          /\ buffer' = [buffer EXCEPT ![w] = FALSE]
          /\ UNCHANGED <<running, completed, posted, taskPc, taskHandle, busy,
                         hal>>
      BY <1>4 DEF Close, portVars, taskVars
    <2>2. ~Contains(running, w)
      BY <1>1, <2>1 DEF Claims
    <2>3. Lists'
      BY <1>1, <2>1, <2>2, NothingIn DEF Lists, TypeOK
    <2>4. /\ call'[c].pc = "idle" /\ call'[c].then = "end"
          /\ \A d \in Callers : d # c => call'[d] = call[d]
      BY <1>4, LeaveFields DEF Close
    <2>5. Claims(call[c])'
      BY <2>4 DEF Claims
    <2> QED BY <1>1, <2>1, <2>3, <2>4, <2>5 DEF Mine, PortAt
  <1> QED BY <1>2, <1>3, <1>4, <1>5

\* The interrupt and the task, in the middle of whatever call.
LEMMA TxIdleMine ==
  ASSUME TypesKept, NEW c \in Callers, Alone(c), Mine(c), TxIdle
  PROVE  Mine(c)'
  <1> USE DEF TypesKept, Starting
  <1>1. /\ Lists /\ Claims(call[c]) /\ PortAt(call[c].pc)
        /\ \A d \in Callers : d # c => call[d].pc = "idle"
        /\ hal # None /\ UNCHANGED <<opened, call, taskPc, taskHandle>>
    BY DEF Mine, TxIdle, taskVars
  <1>2. CASE busy /\ running # <<>>
    <2> DEFINE h == Head(running)
    <2>1. /\ running' = Tail(running) /\ Complete(h, "success")
          /\ hal' = First(Tail(running)) /\ busy' = (hal' # None)
      BY <1>2 DEF TxIdle, NextStarted, Ended
    <2>2. /\ h \in Handles /\ Contains(running, h)
          /\ Tail(running) \in Seq(Handles) /\ Distinct(Tail(running))
          /\ \A u : Contains(Tail(running), u) <=> Contains(running, u) /\ u # h
      BY <1>1, <1>2, TakenFrom DEF TypeOK, Lists
    <2>3. /\ h \in opened /\ ~Contains(completed, h) /\ Distinct(completed)
      BY <1>1, <2>2 DEF Lists
    <2> HIDE DEF h
    <2>4. /\ Distinct(completed')
          /\ \A u : Contains(completed', u) => Contains(completed, u) \/ u = h
          /\ posted # 0 => posted' # 0
          /\ completed' # completed => posted' # 0
          /\ completed # <<>> => completed' # <<>> /\ Head(completed') =
                                                       Head(completed)
          /\ \A u \in Handles : u # h => buffer'[u] = buffer[u]
      BY <2>1, <2>2, <2>3, CompleteLists DEF Alone
    <2>5. Lists'
      BY <1>1, <2>1, <2>2, <2>3, <2>4 DEF Lists
    <2>6. Claims(call[c])'
      BY <1>1, <1>2, <2>1, <2>2 DEF Claims, PortAt, h
    <2>7. running' # <<>> => hal' # None
      BY <2>1, <2>2, FirstFacts
    <2>8. PortAt(call[c].pc)'
      BY <1>1, <1>2, <2>1, <2>7 DEF PortAt
    <2> QED BY <1>1, <2>5, <2>6, <2>8 DEF Mine
  <1>3. CASE ~(busy /\ running # <<>>)
    <2>1. /\ busy' = FALSE /\ hal' = None
          /\ UNCHANGED <<running, completed, buffer, posted>>
      BY <1>3 DEF TxIdle, handleVars
    <2>2. Lists' /\ Claims(call[c])'
      BY <1>1, <2>1, ListsKept DEF Claims
    <2>3. PortAt(call[c].pc)'
      BY <1>1, <1>3, <2>1 DEF PortAt
    <2> QED BY <1>1, <2>2, <2>3 DEF Mine
  <1> QED BY <1>2, <1>3

LEMMA TaskMine ==
  ASSUME TypesKept, NEW c \in Callers, Mine(c), Task PROVE Mine(c)'
  <1> USE DEF TypesKept
  <1>1. /\ Lists /\ UNCHANGED <<opened, running, busy, hal, call>>
    BY DEF Mine, Task, TaskWakes, TaskGet, TaskRemove, TaskFree, TaskCall,
           handleVars, portVars
  <1>2. CASE TaskWakes
    BY <1>1, <1>2 DEF TaskWakes, Lists, Mine, Claims, PortAt, handleVars
  <1>3. CASE TaskGet
    <2>1. /\ UNCHANGED <<completed, buffer, posted>>
          /\ completed # <<>> =>
               taskPc' = "remove" /\ taskHandle' = Head(completed)
          /\ completed = <<>> => taskPc' = "wait"
      BY <1>3 DEF TaskGet, First, handleVars
    <2>2. Lists'
      BY <1>1, <2>1 DEF Lists
    <2> QED BY <1>1, <2>2 DEF Mine, Claims, PortAt
  <1>4. CASE TaskRemove
    <2>1. /\ UNCHANGED <<buffer, posted, taskHandle>> /\ taskPc' = "free"
          /\ completed # <<>> /\ completed' = Tail(completed)
          /\ taskHandle = Head(completed)
      BY <1>1, <1>4 DEF TaskRemove, Lists
    <2>2. /\ taskHandle \in Handles /\ Contains(completed, taskHandle)
          /\ Distinct(Tail(completed))
          /\ \A u : Contains(Tail(completed), u) <=>
                      Contains(completed, u) /\ u # taskHandle
      BY <1>1, <2>1, TakenFrom DEF TypeOK, Lists
    <2>3. Lists'
      BY <1>1, <2>1, <2>2 DEF Lists
    <2> QED BY <1>1, <2>3 DEF Mine, Claims, PortAt
  <1>5. CASE TaskFree
    <2>1. /\ UNCHANGED <<completed, posted, taskHandle>>
          /\ taskPc = "free" /\ taskPc' = "call"
          /\ buffer' = [buffer EXCEPT ![taskHandle] = FALSE]
      BY <1>5 DEF TaskFree
    <2>2. \A u \in Handles : u # taskHandle => buffer'[u] = buffer[u]
      BY <2>1 DEF TypeOK
    <2>3. Lists'
      BY <1>1, <2>1, <2>2 DEF Lists
    <2> QED BY <1>1, <2>3 DEF Mine, Claims, PortAt
  <1>6. CASE TaskCall
    <2>1. Lists'
      BY <1>1, <1>6 DEF TaskCall, AfterCallback, Lists, handleVars
    <2> QED BY <1>1, <2>1 DEF Mine, Claims, PortAt
  <1> QED BY <1>2, <1>3, <1>4, <1>5, <1>6 DEF Task

LEMMA ReadPostsMine ==
  ASSUME TypesKept, NEW c \in Callers, Mine(c), ReadPosts PROVE Mine(c)'
  <1>1. /\ UNCHANGED <<opened, running, completed, buffer, busy, hal, call,
                       taskPc, taskHandle>>
        /\ posted # 0 => posted' # 0
    BY Posting DEF ReadPosts, TypesKept, TypeOK, handleVars, portVars, taskVars
  <1>2. Lists'
    BY <1>1, Posting DEF Lists, Mine, ReadPosts, TypesKept, TypeOK
  <1> QED BY <1>1, <1>2 DEF Mine, Claims, PortAt

\* Only the one caller calls.
LEMMA NextMine ==
  ASSUME TypesKept, NEW c \in Callers, Alone(c), Mine(c), Next
  PROVE  Mine(c)'
  <1>1. ASSUME NEW d \in Callers, d # c PROVE ~Proceed(d)
    <2>1. call[d].pc = "idle"
      BY <1>1 DEF Mine
    <2> QED BY <2>1 DEF Proceed, StartGet, StartTest, StartSet, StartSend, Spin,
               CancelQueued, CancelComplete, CancelFirst, PortCancel, PortAbort,
               PortCallback, PortUnlink, CallbackEnd, Close, At
  <1>2. ASSUME NEW d \in Callers, d # c, NEW w \in Handles PROVE ~Begin(d, w)
    <2>1. usage.owner[w] # d
      BY <1>2, SerialAssumption DEF Alone
    <2> QED BY <2>1 DEF Begin, Write, Open, Cancel
  <1>3. Proceed(c) => Mine(c)'
    BY StartMine, CancelMine, CallbackMine DEF Proceed
  <1>4. \A w \in Handles : Begin(c, w) => Mine(c)'
    BY BeginMine
  <1>5. TxIdle \/ ReadPosts \/ Task => Mine(c)'
    BY TxIdleMine, ReadPostsMine, TaskMine
  <1> QED BY <1>1, <1>2, <1>3, <1>4, <1>5 DEF Next

\* One caller below the task may write, cancel, close and open as many handles
\* as it likes, blocking or not, also while the port sends them: none is ever
\* twice in the lists, and a closed one, whose memory is cleared, is in none of
\* them and not in the hands of the task.
THEOREM OneCallerMayCancel ==
  Spec => []((\E c \in Callers : Alone(c)) => HandlesInOneList)
  <1> DEFINE Inv == \A c \in Callers : Alone(c) => Mine(c)
  <1>1. Init => Inv
    <2> SUFFICES ASSUME Init, NEW c \in Callers PROVE Mine(c)
      OBVIOUS
    <2>1. /\ call[c].pc = "idle" /\ call[c].then = "end"
          /\ \A d \in Callers : call[d].pc = "idle"
      BY DEF Init, NoCall, Call
    <2>2. Distinct(<<>>)
      BY DEF Distinct
    <2>3. Lists
      BY <2>2, NothingIn DEF Init, Lists
    <2>4. Claims(call[c])
      BY <2>1 DEF Claims, Starting
    <2> QED BY <2>1, <2>3, <2>4 DEF Init, Mine, PortAt, Starting
  <1>2. TypesKept /\ Inv /\ [Next]_vars => Inv'
    <2> SUFFICES ASSUME TypesKept, Inv, [Next]_vars, NEW c \in Callers, Alone(c)'
                 PROVE  Mine(c)'
      OBVIOUS
    <2>1. Alone(c)
      BY UsageFixed DEF Alone
    <2>2. CASE Next
      BY <2>1, <2>2, NextMine
    <2>3. CASE UNCHANGED vars
      BY <2>1, <2>3 DEF Mine, Lists, Claims, PortAt, vars, handleVars, portVars,
                        taskVars
    <2> QED BY <2>2, <2>3
  <1>3. ASSUME TypesKept, Inv, NEW c \in Callers, Alone(c)
        PROVE  HandlesInOneList
    <2>1. Lists /\ running \in Seq(Handles) /\ completed \in Seq(Handles)
      BY <1>3 DEF Mine, TypesKept, TypeOK
    <2>2. \A w \in Handles :
            Cardinality({i \in DOMAIN (running \o completed) :
                           (running \o completed)[i] = w}) <= 1
      BY <2>1, OncePerHandle DEF Lists
    <2>3. ASSUME NEW w \in Handles \ opened
          PROVE  /\ ~Contains(running, w) /\ ~Contains(completed, w)
                 /\ ~(taskPc \in {"remove", "free", "call"} /\ taskHandle = w)
      <3>1. taskPc = "remove" => Contains(completed, taskHandle)
        BY <2>1, TakenFrom DEF Lists
      <3> QED BY <2>1, <3>1 DEF Lists
    <2>4. ASSUME NEW w, ~Contains(running, w), ~Contains(completed, w)
          PROVE  ~Contains(running \o completed, w)
      <3>1. /\ Len(running) \in Nat /\ Len(completed) \in Nat
            /\ Len(running \o completed) = Len(running) + Len(completed)
            /\ \A i \in 1 .. Len(running) + Len(completed) :
                 (running \o completed)[i] =
                   IF i <= Len(running) THEN running[i]
                   ELSE completed[i - Len(running)]
        BY <2>1, ConcatProperties, LenProperties
      <3>2. ASSUME NEW i \in 1 .. Len(running) + Len(completed)
            PROVE  (running \o completed)[i] # w
        <4>1. CASE i <= Len(running)
          BY <2>4, <3>1, <4>1 DEF Contains
        <4>2. CASE ~(i <= Len(running))
          <5>1. i - Len(running) \in 1 .. Len(completed)
            BY <3>1, <4>2
          <5> QED BY <2>4, <3>1, <4>2, <5>1 DEF Contains
        <4> QED BY <4>1, <4>2
      <3> QED BY <3>1, <3>2 DEF Contains
    <2> QED BY <2>2, <2>3, <2>4 DEF HandlesInOneList
  <1>4. Inv /\ TypesKept => ((\E c \in Callers : Alone(c)) => HandlesInOneList)
    BY <1>3
  <1> HIDE DEF Inv
  <1> QED BY <1>1, <1>2, <1>4, TypesAlways, PTL DEF Spec
=============================================================================
