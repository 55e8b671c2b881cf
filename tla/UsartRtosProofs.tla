--------------------------- MODULE UsartRtosProofs ---------------------------
(***************************************************************************)
(* The wrapper of UsartRtos drives the driver only through its interface:  *)
(* each of its steps is a step of UsartDriver or leaves the driver alone.  *)
(* What is proved of the driver therefore holds below the wrapper.         *)
(***************************************************************************)
EXTENDS UsartRtosProperties, UsartSafetyProofs

\* A step of a receiving task is a step of the driver's receiving thread.
LEMMA ReceiverStep ==
  ASSUME NEW t \in Receivers, ReceiveTake(t) \/ ReceiveStep(t)
  PROVE  RxThread \/ UNCHANGED driverVars
  <1>1. CASE ReceiveStart(t)
    BY <1>1 DEF ReceiveStart, RxThread, RecvBusy
  <1>2. CASE ReceiveCallback(t)
    BY <1>2 DEF ReceiveCallback, RxThread
  <1>3. CASE ReceiveAbort(t) \/ ReceiveAborted(t)
    BY <1>3 DEF ReceiveAbort, ReceiveAborted, RxThread
  <1>4. CASE \/ ReceiveTake(t) \/ ReceiveWait(t) \/ ReceiveClear(t)
             \/ ReceiveDone(t) \/ ReceiveGive(t)
    BY <1>4 DEF ReceiveTake, ReceiveWait, ReceiveClear, ReceiveDone,
       ReceiveGive
  <1> QED
    BY <1>1, <1>2, <1>3, <1>4 DEF ReceiveStep

\* A step of a sending task is a step of the driver's sending thread.
LEMMA SenderStep ==
  ASSUME NEW t \in Senders, SendTake(t) \/ SendStep(t)
  PROVE  TxThread \/ UNCHANGED driverVars
  <1>1. CASE SendStart(t)
    BY <1>1 DEF SendStart, TxThread, SendBusy
  <1>2. CASE SendInDriver(t)
    BY <1>2 DEF SendInDriver, TxThread
  <1>3. CASE SendTake(t) \/ SendWait(t) \/ SendGive(t)
    BY <1>3 DEF SendTake, SendWait, SendGive
  <1> QED
    BY <1>1, <1>2, <1>3 DEF SendStep

LEMMA WrapperStep == RtosNext => [Next]_driverVars
  <1>1. Daemon => UNCHANGED driverVars
    BY DEF Daemon
  <1>2. Interrupt => Irq
    BY DEF Interrupt
  <1>3. Device => Hardware
    BY DEF Device
  <1>4. ASSUME NEW t \in Receivers, ReceiveTake(t) \/ ReceiveStep(t)
        PROVE  [Next]_driverVars
    BY <1>4, ReceiverStep DEF Next
  <1>5. ASSUME NEW t \in Senders, SendTake(t) \/ SendStep(t)
        PROVE  [Next]_driverVars
    BY <1>5, SenderStep DEF Next
  <1> QED
    BY <1>1, <1>2, <1>3, <1>4, <1>5 DEF RtosNext, Next

\* The wrapper uses the driver only as the driver's own specification allows:
\* one receiving and one sending call at a time, behind the two mutexes.
THEOREM WrapperImplementsDriver == RtosSpec => Spec
  <1>1. RtosInit => Init
    BY DEF RtosInit
  <1>2. [RtosNext]_vars => [Next]_driverVars
    <2>1. UNCHANGED vars => UNCHANGED driverVars
      BY DEF vars
    <2> QED
      BY <2>1, WrapperStep
  <1> QED
    BY <1>1, <1>2, PTL DEF RtosSpec, Spec

\* The driver's guarantees below the wrapper, for any tasks, any queue of the
\* daemon and any ring buffer that fits its indices.
THEOREM WrapperKeepsSafety ==
  RtosSpec /\ RingSize <= IndexMod =>
    /\ []NothingVanishes /\ []LossIsNotified /\ []RxIdleMeansComplete
    /\ []TxConserved /\ []TxIdleMeansSent
  <1>1. RingSize <= IndexMod => StaticRing
    BY RtosAssumption DEF StaticRing
  <1> QED
    BY <1>1, WrapperImplementsDriver, Conservation, Notification, Completion,
       SendsInOrder, IdleAfterSend, PTL

-----------------------------------------------------------------------------
(* The mutexes, event groups and the daemon's queue *)

\* The commands that USART_RTOS_Callback posts, and the daemon finds.
Posts == {Command("rx", COMPLETE), Command("tx", COMPLETE),
          Command("rx", RING_BUFFER_OVERRUN)}

RtosType == RtosTypeOK /\ pended \in Seq(Posts)

LEMMA CommandCases ==
  ASSUME NEW status
  PROVE  CommandFor(status) = <<>> \/ \E c \in Posts : CommandFor(status) = <<c>>
  BY DEF CommandFor, Posts

LEMMA PostingType ==
  ASSUME RtosType, NEW status, Callback(status)
  PROVE  /\ pended' \in Seq(Posts) /\ pended' \in Seq(Commands)
         /\ Len(pended') <= QueueLen
  <1>1. pended \in Seq(Posts) /\ Len(pended) \in Nat /\ Len(pended) <= QueueLen
        /\ QueueLen \in Nat
    BY LenProperties, RtosAssumption DEF RtosType, RtosTypeOK
  <1>2. Posts \subseteq Commands
    BY DEF Posts, Command, Commands, Bits
  <1>3. pended' \in Seq(Posts) /\ Len(pended') <= QueueLen
    <2>1. CASE pended' = pended
      BY <1>1, <2>1
    <2>2. ASSUME NEW c \in Posts, Len(pended) < QueueLen,
                 pended' = pended \o <<c>>
          PROVE  pended' \in Seq(Posts) /\ Len(pended') <= QueueLen
      <3>1. pended' = Append(pended, c)
        BY <1>1, <2>2, AppendIsConcat
      <3>2. pended' \in Seq(Posts) /\ Len(pended') = Len(pended) + 1
        BY <1>1, <3>1, AppendProperties
      <3> QED BY <1>1, <2>2, <3>2
    <2>3. pended \o <<>> = pended
      BY <1>1, ConcatEmptySeq
    <2> QED BY <2>1, <2>2, <2>3, CommandCases DEF Callback
  <1>4. pended' \in Seq(Commands)
    BY <1>2, <1>3
  <1> QED BY <1>3, <1>4

\* A task that moves to another place keeps its mutex, takes it from nobody
\* on entering, or gives it back on leaving.
LEMMA ReceiverMoves ==
  ASSUME RtosTypeOK, NEW t \in Receivers, NEW from \in Pcs, NEW to \in Pcs,
         rpc[t] = from, rpc' = [rpc EXCEPT ![t] = to],
         \/ from # "idle" /\ to # "idle" /\ rxSemaphore' = rxSemaphore
         \/ from = "idle" /\ to # "idle" /\ rxSemaphore = NoTask
            /\ rxSemaphore' = t
         \/ from # "idle" /\ to = "idle" /\ rxSemaphore' = NoTask
  PROVE  /\ rpc' \in [Receivers -> Pcs]
         /\ \A u \in Receivers : rpc'[u] # "idle" <=> rxSemaphore' = u
  <1>1. \A u \in Receivers : rpc[u] # "idle" <=> rxSemaphore = u
    BY DEF RtosTypeOK
  <1>2. rpc \in [Receivers -> Pcs]
    BY DEF RtosTypeOK
  <1>3. rpc'[t] = to /\ \A u \in Receivers : u # t => rpc'[u] = rpc[u]
    BY <1>2
  <1>4. NoTask \notin Receivers
    BY RtosAssumption
  <1> QED BY <1>1, <1>2, <1>3, <1>4

LEMMA SenderMoves ==
  ASSUME RtosTypeOK, NEW t \in Senders, NEW from \in Pcs, NEW to \in Pcs,
         spc[t] = from, spc' = [spc EXCEPT ![t] = to],
         \/ from # "idle" /\ to # "idle" /\ txSemaphore' = txSemaphore
         \/ from = "idle" /\ to # "idle" /\ txSemaphore = NoTask
            /\ txSemaphore' = t
         \/ from # "idle" /\ to = "idle" /\ txSemaphore' = NoTask
  PROVE  /\ spc' \in [Senders -> Pcs]
         /\ \A u \in Senders : spc'[u] # "idle" <=> txSemaphore' = u
  <1>1. \A u \in Senders : spc[u] # "idle" <=> txSemaphore = u
    BY DEF RtosTypeOK
  <1>2. spc \in [Senders -> Pcs]
    BY DEF RtosTypeOK
  <1>3. spc'[t] = to /\ \A u \in Senders : u # t => spc'[u] = spc[u]
    BY <1>2
  <1>4. NoTask \notin Senders
    BY RtosAssumption
  <1> QED BY <1>1, <1>2, <1>3, <1>4

LEMMA ReceiverType ==
  ASSUME RtosType, NEW t \in Receivers, ReceiveTake(t) \/ ReceiveStep(t)
  PROVE  RtosType'
  <1>0. rpc[t] \in Pcs /\ {"idle", "call", "in driver", "blocked", "woken",
                           "aborting", "clear", "give"} = Pcs
    BY DEF RtosType, RtosTypeOK, Pcs
  <1>1. /\ rpc' \in [Receivers -> Pcs]
        /\ \A u \in Receivers : rpc'[u] # "idle" <=> rxSemaphore' = u
    <2>1. CASE ReceiveTake(t)
      BY <1>0, <2>1, ReceiverMoves
      DEF RtosType, ReceiveTake, Receiver, RxSemaphoreFree
    <2>2. CASE ReceiveGive(t)
      BY <1>0, <2>2, ReceiverMoves DEF RtosType, ReceiveGive, Receiver
    <2>3. CASE \/ ReceiveStart(t) \/ ReceiveCallback(t) \/ ReceiveAbort(t)
               \/ ReceiveAborted(t) \/ ReceiveClear(t) \/ ReceiveDone(t)
      BY <1>0, <2>3, ReceiverMoves
      DEF RtosType, ReceiveStart, ReceiveCallback, ReceiveAbort, ReceiveAborted,
          ReceiveClear, ReceiveDone, Receiver
    <2>4. CASE ReceiveWait(t)
      BY <1>0, <2>4, ReceiverMoves DEF RtosType, ReceiveWait, WaitBits
    <2> QED BY <2>1, <2>2, <2>3, <2>4 DEF ReceiveStep
  <1>2. /\ UNCHANGED <<txSemaphore, txEvent, spc>>
        /\ rxEvent' \in SUBSET Bits
        /\ ev' \in [Receivers \cup Senders -> SUBSET Bits]
    <2>1. CASE ReceiveWait(t)
      BY <2>1 DEF ReceiveWait, WaitBits, RtosType, RtosTypeOK
    <2>2. CASE ReceiveTake(t) \/ ReceiveGive(t) \/ ReceiveClear(t)
      BY <2>2
      DEF ReceiveTake, ReceiveGive, ReceiveClear, Receiver, RtosType, RtosTypeOK
    <2>3. CASE \/ ReceiveStart(t) \/ ReceiveCallback(t) \/ ReceiveAbort(t)
               \/ ReceiveAborted(t) \/ ReceiveDone(t)
      BY <2>3
      DEF ReceiveStart, ReceiveCallback, ReceiveAbort, ReceiveAborted,
          ReceiveDone, Receiver, RtosType, RtosTypeOK
    <2> QED BY <2>1, <2>2, <2>3 DEF ReceiveStep
  <1>3. pended' \in Seq(Posts) /\ pended' \in Seq(Commands)
        /\ Len(pended') <= QueueLen
    <2>1. CASE ReceiveCallback(t)
      BY <2>1, PostingType DEF ReceiveCallback
    <2>2. CASE pended' = pended
      BY <2>2 DEF RtosType, RtosTypeOK
    <2> QED
      BY <2>1, <2>2
      DEF ReceiveStep, ReceiveTake, ReceiveStart, ReceiveWait, ReceiveAbort,
          ReceiveAborted, ReceiveClear, ReceiveDone, ReceiveGive
  <1> QED BY <1>1, <1>2, <1>3 DEF RtosType, RtosTypeOK

LEMMA SenderType ==
  ASSUME RtosType, NEW t \in Senders, SendTake(t) \/ SendStep(t)
  PROVE  RtosType'
  <1>0. spc[t] \in Pcs /\ {"idle", "call", "in driver", "blocked", "woken",
                           "aborting", "clear", "give"} = Pcs
    BY DEF RtosType, RtosTypeOK, Pcs
  <1>1. /\ spc' \in [Senders -> Pcs]
        /\ \A u \in Senders : spc'[u] # "idle" <=> txSemaphore' = u
    <2>1. CASE SendTake(t)
      BY <1>0, <2>1, SenderMoves DEF RtosType, SendTake, Sender
    <2>2. CASE SendGive(t)
      BY <1>0, <2>2, SenderMoves DEF RtosType, SendGive, Sender
    <2>3. CASE SendStart(t) \/ SendInDriver(t)
      BY <1>0, <2>3, SenderMoves DEF RtosType, SendStart, SendInDriver, Sender
    <2>4. CASE SendWait(t)
      BY <1>0, <2>4, SenderMoves DEF RtosType, SendWait, WaitBits
    <2> QED BY <2>1, <2>2, <2>3, <2>4 DEF SendStep
  <1>2. /\ UNCHANGED <<rxSemaphore, rxEvent, rpc, pended>>
        /\ txEvent' \in SUBSET {COMPLETE}
        /\ ev' \in [Receivers \cup Senders -> SUBSET Bits]
    <2>1. CASE SendWait(t)
      BY <2>1 DEF SendWait, WaitBits, RtosType, RtosTypeOK, Bits
    <2>2. CASE SendTake(t) \/ SendGive(t) \/ SendStart(t) \/ SendInDriver(t)
      BY <2>2
      DEF SendTake, SendGive, SendStart, SendInDriver, Sender, RtosType,
          RtosTypeOK
    <2> QED BY <2>1, <2>2 DEF SendStep
  <1> QED BY <1>1, <1>2 DEF RtosType, RtosTypeOK

\* The head of the daemon's queue, and what is left of it.
LEMMA DaemonTakes ==
  ASSUME RtosType, pended # <<>>, pended' = Tail(pended)
  PROVE  /\ Head(pended) \in Posts /\ pended' \in Seq(Posts)
         /\ pended' \in Seq(Commands) /\ Len(pended') <= QueueLen
         /\ Len(pended') = Len(pended) - 1 /\ Len(pended) \in Nat \ {0}
         /\ Head(pended) = pended[1]
         /\ \A i \in 1 .. Len(pended') : pended'[i] = pended[i + 1]
  <1>1. pended \in Seq(Posts) /\ pended # <<>> /\ Len(pended) <= QueueLen
    BY DEF RtosType, RtosTypeOK
  <1>2. Posts \subseteq Commands /\ QueueLen \in Nat
    BY RtosAssumption DEF Posts, Command, Commands, Bits
  <1>3. Len(pended) \in Nat \ {0}
    BY <1>1, EmptySeq
  <1>4. /\ Head(pended) \in Posts /\ pended' \in Seq(Posts)
        /\ Len(pended') = Len(pended) - 1
        /\ \A i \in 1 .. Len(pended') : pended'[i] = pended[i + 1]
    BY <1>1, HeadTailProperties
  <1>5. pended' \in Seq(Commands)
    BY <1>2, <1>4
  <1>6. Head(pended) = pended[1]
    BY <1>1
  <1> QED BY <1>1, <1>2, <1>3, <1>4, <1>5, <1>6

LEMMA DaemonType ==
  ASSUME RtosType, Daemon PROVE RtosType'
  <1>1. /\ Head(pended) \in Posts /\ pended' \in Seq(Posts)
        /\ pended' \in Seq(Commands) /\ Len(pended') <= QueueLen
    BY DaemonTakes DEF Daemon
  <1>2. CASE /\ Head(pended).group = "rx"
             /\ SetBits(rxEvent, {Head(pended).bit}, rpc)
             /\ UNCHANGED <<txEvent, spc>>
    <2>1. Head(pended).bit \in Bits
      BY <1>1 DEF Posts, Command, Bits
    <2>2. /\ rxEvent' \in SUBSET Bits
          /\ ev' \in [Receivers \cup Senders -> SUBSET Bits]
      BY <1>2, <2>1 DEF SetBits, Blocked, RtosType, RtosTypeOK
    <2>3. /\ rpc' \in [Receivers -> Pcs]
          /\ \A u \in Receivers : rpc'[u] # "idle" <=> rxSemaphore' = u
      <3>1. CASE UNCHANGED rpc
        BY <3>1 DEF RtosType, RtosTypeOK, Daemon
      <3>2. ASSUME NEW t \in Blocked(rpc), rpc' = [rpc EXCEPT ![t] = "woken"]
            PROVE  /\ rpc' \in [Receivers -> Pcs]
                   /\ \A u \in Receivers : rpc'[u] # "idle" <=> rxSemaphore' = u
        BY <3>2, ReceiverMoves DEF Blocked, RtosType, RtosTypeOK, Daemon, Pcs
      <3> QED BY <1>2, <3>1, <3>2 DEF SetBits
    <2> QED BY <1>1, <1>2, <2>2, <2>3 DEF RtosType, RtosTypeOK, Daemon
  <1>3. CASE /\ Head(pended).group = "tx"
             /\ SetBits(txEvent, {Head(pended).bit}, spc)
             /\ UNCHANGED <<rxEvent, rpc>>
    <2>1. Head(pended).bit = COMPLETE
      BY <1>1, <1>3 DEF Posts, Command
    <2>2. /\ txEvent' \in SUBSET {COMPLETE}
          /\ ev' \in [Receivers \cup Senders -> SUBSET Bits]
      BY <1>3, <2>1 DEF SetBits, Blocked, RtosType, RtosTypeOK, Bits
    <2>3. /\ spc' \in [Senders -> Pcs]
          /\ \A u \in Senders : spc'[u] # "idle" <=> txSemaphore' = u
      <3>1. CASE UNCHANGED spc
        BY <3>1 DEF RtosType, RtosTypeOK, Daemon
      <3>2. ASSUME NEW t \in Blocked(spc), spc' = [spc EXCEPT ![t] = "woken"]
            PROVE  /\ spc' \in [Senders -> Pcs]
                   /\ \A u \in Senders : spc'[u] # "idle" <=> txSemaphore' = u
        BY <3>2, SenderMoves DEF Blocked, RtosType, RtosTypeOK, Daemon, Pcs
      <3> QED BY <1>3, <3>1, <3>2 DEF SetBits
    <2> QED BY <1>1, <1>3, <2>2, <2>3 DEF RtosType, RtosTypeOK, Daemon
  <1> QED BY <1>2, <1>3 DEF Daemon

LEMMA RtosTypeInit == RtosInit => RtosType
  <1> SUFFICES ASSUME RtosInit PROVE RtosType
    OBVIOUS
  <1>1. /\ pended \in Seq(Commands) /\ pended \in Seq(Posts) /\ Len(pended) = 0
        /\ QueueLen \in Nat
    BY EmptySeq, RtosAssumption DEF RtosInit
  <1>2. /\ rpc \in [Receivers -> Pcs] /\ spc \in [Senders -> Pcs]
        /\ \A t \in Receivers : rpc[t] # "idle" <=> rxSemaphore = t
        /\ \A t \in Senders : spc[t] # "idle" <=> txSemaphore = t
    BY RtosAssumption DEF RtosInit, Pcs
  <1>3. /\ rxEvent \in SUBSET Bits /\ txEvent \in SUBSET {COMPLETE}
        /\ ev \in [Receivers \cup Senders -> SUBSET Bits]
    BY DEF RtosInit
  <1> QED BY <1>1, <1>2, <1>3 DEF RtosType, RtosTypeOK

LEMMA RtosTypeNext == RtosType /\ [RtosNext]_vars => RtosType'
  <1> SUFFICES ASSUME RtosType, [RtosNext]_vars PROVE RtosType'
    OBVIOUS
  <1>1. ASSUME NEW t \in Receivers, ReceiveTake(t) \/ ReceiveStep(t)
        PROVE  RtosType'
    BY <1>1, ReceiverType
  <1>2. ASSUME NEW t \in Senders, SendTake(t) \/ SendStep(t) PROVE RtosType'
    BY <1>2, SenderType
  <1>3. CASE Daemon
    BY <1>3, DaemonType
  <1>4. CASE Interrupt
    <2>1. /\ pended' \in Seq(Posts) /\ pended' \in Seq(Commands)
          /\ Len(pended') <= QueueLen
      BY <1>4, PostingType DEF Interrupt, RtosType, RtosTypeOK
    <2> QED BY <1>4, <2>1 DEF Interrupt, tasksVars, RtosType, RtosTypeOK
  <1>5. CASE Device \/ UNCHANGED vars
    BY <1>5 DEF Device, vars, tasksVars, rtosVars, RtosType, RtosTypeOK
  <1> QED BY <1>1, <1>2, <1>3, <1>4, <1>5 DEF RtosNext

\* For any tasks and any length of the daemon's queue: the queue holds at most
\* that many commands, each of them one the callback posts, and a mutex is
\* held exactly by the task that is inside its function.
THEOREM RtosTypeCorrect == RtosSpec => []RtosTypeOK
  <1>1. RtosType => RtosTypeOK
    BY DEF RtosType
  <1> QED BY <1>1, RtosTypeInit, RtosTypeNext, PTL DEF RtosSpec

-----------------------------------------------------------------------------
(* What is in the daemon's queue *)

InQueue(c) == \E i \in 1 .. Len(pended) : pended[i] = c
InQueueOnce(c) ==
  \A i, j \in 1 .. Len(pended) : pended[i] = c /\ pended[j] = c => i = j

\* Posting one command adds no other.
LEMMA QueuePosts ==
  ASSUME RtosType, NEW status, Callback(status), NEW c
  PROVE  /\ CommandFor(status) # <<c>> =>
              /\ InQueue(c)' <=> InQueue(c)
              /\ InQueueOnce(c) => InQueueOnce(c)'
         /\ ~InQueue(c) => InQueueOnce(c)'
  <1>1. pended \in Seq(Posts) /\ Len(pended) \in Nat
    BY LenProperties DEF RtosType, RtosTypeOK
  <1>2. CASE pended' = pended
    BY <1>2 DEF InQueue, InQueueOnce
  <1>3. ASSUME NEW d \in Posts, CommandFor(status) = <<d>>,
               pended' = pended \o <<d>>
        PROVE  /\ CommandFor(status) # <<c>> =>
                    /\ InQueue(c)' <=> InQueue(c)
                    /\ InQueueOnce(c) => InQueueOnce(c)'
               /\ ~InQueue(c) => InQueueOnce(c)'
    <2>1. pended' = Append(pended, d)
      BY <1>1, <1>3, AppendIsConcat
    <2>2. /\ Len(pended') = Len(pended) + 1
          /\ \A i \in 1 .. Len(pended) : pended'[i] = pended[i]
          /\ pended'[Len(pended) + 1] = d
      BY <1>1, <2>1, AppendProperties
    <2>3. CommandFor(status) # <<c>> => d # c
      BY <1>3
    <2>4. InQueue(c)' <=> InQueue(c) \/ d = c
      BY <1>1, <2>2 DEF InQueue
    <2>5. /\ ~InQueue(c) => InQueueOnce(c)'
          /\ d # c => (InQueueOnce(c) => InQueueOnce(c)')
      BY <1>1, <2>2 DEF InQueue, InQueueOnce
    <2> QED BY <2>3, <2>4, <2>5
  <1>4. pended \o <<>> = pended
    BY <1>1, ConcatEmptySeq
  <1>5. \/ pended' = pended
        \/ \E d \in Posts : CommandFor(status) = <<d>> /\ pended' = pended \o <<d>>
    BY <1>4, CommandCases DEF Callback
  <1> QED BY <1>2, <1>3, <1>5

\* The daemon takes one command, and leaves the others.
LEMMA QueueTakes ==
  ASSUME RtosType, pended # <<>>, pended' = Tail(pended), NEW c
  PROVE  /\ Head(pended) = c => InQueue(c) /\ (InQueueOnce(c) => ~InQueue(c)')
         /\ Head(pended) # c => (InQueue(c)' <=> InQueue(c))
         /\ InQueueOnce(c) => InQueueOnce(c)'
  <1>1. /\ Len(pended) \in Nat \ {0} /\ Len(pended') = Len(pended) - 1
        /\ Head(pended) = pended[1]
        /\ \A i \in 1 .. Len(pended') : pended'[i] = pended[i + 1]
    BY DaemonTakes
  <1>2. 1 \in 1 .. Len(pended)
        /\ \A i \in 1 .. Len(pended') : i + 1 \in 1 .. Len(pended) /\ i + 1 # 1
    BY <1>1
  <1>3. \A i \in 1 .. Len(pended) :
          i # 1 => i - 1 \in 1 .. Len(pended') /\ pended'[i - 1] = pended[i]
    BY <1>1
  <1>4. Head(pended) = c => InQueue(c) /\ (InQueueOnce(c) => ~InQueue(c)')
    BY <1>1, <1>2 DEF InQueue, InQueueOnce
  <1>5. Head(pended) # c => (InQueue(c)' <=> InQueue(c))
    BY <1>1, <1>2, <1>3 DEF InQueue
  <1>6. InQueueOnce(c) => InQueueOnce(c)'
    <2> SUFFICES ASSUME InQueueOnce(c), NEW i \in 1 .. Len(pended'),
                        NEW j \in 1 .. Len(pended'),
                        pended'[i] = c, pended'[j] = c
                 PROVE  i = j
      BY DEF InQueueOnce
    <2>1. i + 1 = j + 1
      BY <1>1, <1>2 DEF InQueueOnce
    <2> QED BY <2>1
  <1> QED BY <1>4, <1>5, <1>6

-----------------------------------------------------------------------------
(* A call of USART_RTOS_Receive and the completion of its request *)

\* What the theorems about Receive ask of the tasks: the daemon's priority is
\* above theirs, so that it has set every bit before they go on.
PromptDaemon == DaemonPreempts /\ Receivers \cap Senders = {}

\* The ways in which the completion of a request is on its way to its task.
Completed == Command("rx", COMPLETE)
Returning == rxPc = "recv_cb"
Interrupting == irqPc = "callback" /\ cbStatus = "RxIdle"
Pending == InQueue(Completed)
BitSet == COMPLETE \in rxEvent

NoToken == ~Returning /\ ~Interrupting /\ ~Pending /\ ~BitSet
PendingOnce == InQueueOnce(Completed)
OneToken ==
  /\ Returning => ~Interrupting /\ ~Pending /\ ~BitSet
  /\ Interrupting => ~Pending /\ ~BitSet
  /\ Pending => ~BitSet
  /\ PendingOnce

\* A request lacks bytes, and no completion is on its way; or it has them all,
\* and at most one is.
Total(t) == rxTransfer[t].start + rxTransfer[t].len
Lacking(t) ==
  rxDataSize # 0 /\ Len(received) + rxDataSize = Total(t) /\ NoToken
Filled(t) == rxDataSize = 0 /\ Len(received) = Total(t)
Underway(t) == Lacking(t) \/ (Filled(t) /\ OneToken)

Phase(t) ==
  /\ rpc[t] = "call" => rxDataSize = 0 /\ NoToken /\ rxPc = "idle"
  /\ rpc[t] = "in driver" => Underway(t) /\ rxPc \in {"idle", "recv_cb"}
  /\ rpc[t] = "blocked" => Underway(t) /\ rxPc = "idle" /\ rxEvent = {}
  /\ rpc[t] = "woken" =>
       /\ rxPc = "idle" /\ ev[t] # {}
       /\ COMPLETE \in ev[t] => Filled(t) /\ NoToken
       /\ COMPLETE \notin ev[t] => Underway(t)
  /\ rpc[t] = "aborting" =>
       rxPc = "abort_end" /\ RING_BUFFER_OVERRUN \in ev[t]
  /\ rpc[t] = "clear" =>
       /\ rxDataSize = 0 /\ rxPc = "idle" /\ ~Interrupting /\ ~Pending
       /\ RING_BUFFER_OVERRUN \in ev[t]
  /\ rpc[t] = "give" =>
       /\ rxDataSize = 0 /\ rxPc = "idle" /\ NoToken
       /\ RING_BUFFER_OVERRUN \notin ev[t] => Filled(t)

Receiving ==
  /\ DOMAIN rxTransfer = Receivers
  /\ \A t \in Receivers : Phase(t)
  /\ rxSemaphore = NoTask => rxDataSize = 0 /\ NoToken /\ rxPc = "idle"

DriverInv == TypeInv /\ Requests

\* A step of the handler: it stores a byte of the request, the last of which
\* makes a completion due, or it does nothing to the request.
LEMMA HandlerEffect ==
  ASSUME DriverInv, Irq
  PROVE  /\ rxPc' = rxPc
         /\ \/ UNCHANGED <<rxDataSize, received>> /\ ~Interrupting'
            \/ /\ rxDataSize # 0 /\ rxDataSize' = rxDataSize - 1
               /\ Len(received') = Len(received) + 1
               /\ irqPc # "callback"
               /\ Interrupting' => rxDataSize' = 0
  <1> USE DEF IrqGoto, threadVars, rxVars, Interrupting
  <1>1. CASE IrqRecvUser
    <2>1. received \in Seq(0 .. MaxIn) /\ rxDataSize \in Nat
      BY DriverAssumption DEF DriverInv, TypeInv, TypeOK, RxTypeOK
    <2>2. Head(rxFifo) \in 0 .. MaxIn
      BY <1>1, RxFifoFacts
         DEF IrqRecvUser, AtReceive, CanReceive, DriverInv, TypeInv, TypeOK
    <2>3. Len(received') = Len(received) + 1
      BY <1>1, <2>1, <2>2, AppendProperties DEF IrqRecvUser
    <2>4. irqPc # "callback" /\ cbStatus = NoStatus
      BY <1>1 DEF IrqRecvUser, AtReceive, DriverInv, TypeInv, PutReady
    <2>5. Interrupting' => rxDataSize' = 0
      BY <1>1, <2>1, <2>4 DEF IrqRecvUser, LastRx, NoStatus
    <2> QED BY <1>1, <2>3, <2>4, <2>5 DEF IrqRecvUser
  <1>2. CASE IrqCallback
    <2>1. cbStatus \in Statuses
      BY <1>2 DEF IrqCallback, DriverInv, TypeInv, TypeOK, ControlTypeOK,
                  PutReady
    <2>2. irqPc' # "callback"
      BY <1>2, <2>1 DEF IrqCallback, AfterCallback, Statuses
    <2> QED BY <1>2, <2>2 DEF IrqCallback
  <1>3. CASE IrqEnter \/ IrqRecvRing \/ IrqTxIdle
    BY <1>3 DEF IrqEnter, IrqRecvRing, IrqTxIdle, NoStatus
  <1>4. CASE IrqRingPut \/ IrqSend \/ IrqExit
    BY <1>4 DEF IrqRingPut, IrqSend, IrqExit
  <1> QED BY <1>1, <1>2, <1>3, <1>4 DEF Irq

LEMMA PostingEffect ==
  ASSUME RtosType, NEW status, Callback(status)
  PROVE  /\ status # "RxIdle" => /\ Pending' <=> Pending
                                 /\ PendingOnce => PendingOnce'
         /\ ~Pending => PendingOnce'
  <1>1. status # "RxIdle" => CommandFor(status) # <<Completed>>
    BY DEF CommandFor, Command, Completed, COMPLETE, RING_BUFFER_OVERRUN
  <1> QED BY <1>1, QueuePosts DEF Pending, PendingOnce

LEMMA RequestTypes ==
  ASSUME DriverInv
  PROVE  rxDataSize \in Nat /\ Len(received) \in Nat
  <1>1. rxDataSize \in 0 .. MaxLen /\ received \in Seq(0 .. MaxIn)
    BY DEF DriverInv, TypeInv, TypeOK, RxTypeOK
  <1> QED BY <1>1, LenProperties, DriverAssumption

\* What the handler, with the wrapper's callback, does to a call.
LEMMA InterruptEffect ==
  ASSUME DriverInv, RtosType, Interrupt, NEW t
  PROVE  /\ Underway(t) => Underway(t)'
         /\ rxDataSize = 0 => rxDataSize' = 0 /\ (Filled(t) => Filled(t)')
         /\ rxDataSize = 0 /\ NoToken => NoToken'
         /\ rxDataSize = 0 /\ ~Interrupting /\ ~Pending =>
              ~Interrupting' /\ ~Pending'
  <1>1. /\ rxPc' = rxPc
        /\ \/ UNCHANGED <<rxDataSize, received>> /\ ~Interrupting'
           \/ /\ rxDataSize # 0 /\ rxDataSize' = rxDataSize - 1
              /\ Len(received') = Len(received) + 1
              /\ irqPc # "callback"
              /\ Interrupting' => rxDataSize' = 0
    BY HandlerEffect DEF Interrupt
  <1>2. /\ Returning' <=> Returning
        /\ BitSet' <=> BitSet
        /\ Total(t)' = Total(t)
    BY <1>1 DEF Returning, BitSet, Total, Interrupt, tasksVars
  <1>3. rxDataSize \in Nat /\ Len(received) \in Nat
    BY RequestTypes
  <1>4. CASE irqPc # "callback"
    <2>1. pended' = pended /\ ~Interrupting
      BY <1>4 DEF Interrupt, Interrupting
    <2>2. (Pending' <=> Pending) /\ (PendingOnce' <=> PendingOnce)
      BY <2>1 DEF InQueue, InQueueOnce, Pending, PendingOnce
    <2>3. CASE UNCHANGED <<rxDataSize, received>> /\ ~Interrupting'
      BY <1>2, <2>1, <2>2, <2>3 DEF Underway, Lacking, Filled, NoToken, OneToken
    <2>4. CASE /\ rxDataSize # 0 /\ rxDataSize' = rxDataSize - 1
               /\ Len(received') = Len(received) + 1
               /\ Interrupting' => rxDataSize' = 0
      <3>1. Underway(t) =>
              Len(received) + rxDataSize = Total(t) /\ NoToken
        BY <2>4 DEF Underway, Lacking, Filled
      <3>2. Len(received') + rxDataSize' = Len(received) + rxDataSize
            /\ (rxDataSize' = 0 => Len(received') = Len(received) + rxDataSize)
        BY <1>3, <2>4
      <3>3. NoToken => OneToken' /\ (rxDataSize' # 0 => NoToken')
        <4>1. ~Pending => PendingOnce
          BY DEF InQueue, InQueueOnce, Pending, PendingOnce
        <4> QED BY <1>2, <2>2, <2>4, <4>1 DEF NoToken, OneToken
      <3>4. Underway(t) => Underway(t)'
        BY <1>2, <3>1, <3>2, <3>3 DEF Underway, Lacking, Filled
      <3> QED BY <2>4, <3>4
    <2> QED BY <1>1, <2>3, <2>4
  <1>5. CASE irqPc = "callback"
    <2>1. UNCHANGED <<rxDataSize, received>> /\ ~Interrupting'
      BY <1>1, <1>5
    <2>2. Callback(cbStatus) /\ (Interrupting <=> cbStatus = "RxIdle")
      BY <1>5 DEF Interrupt, Interrupting
    <2>3. /\ ~Interrupting => /\ Pending' <=> Pending
                              /\ PendingOnce => PendingOnce'
          /\ ~Pending => PendingOnce'
      BY <2>2, PostingEffect
    <2> QED
      BY <1>2, <2>1, <2>3 DEF Underway, Lacking, Filled, NoToken, OneToken
  <1> QED BY <1>4, <1>5

LEMMA ReceivingInterrupt ==
  ASSUME DriverInv, RtosType, Receiving, Interrupt PROVE Receiving'
  <1>1. /\ rxPc' = rxPc
        /\ UNCHANGED <<rpc, ev, rxEvent, rxSemaphore>>
    BY HandlerEffect DEF Interrupt, tasksVars
  <1>2. ASSUME NEW t \in Receivers PROVE Phase(t)'
    <2>1. Phase(t)
      BY DEF Receiving
    <2>2. /\ Underway(t) => Underway(t)'
          /\ rxDataSize = 0 => rxDataSize' = 0 /\ (Filled(t) => Filled(t)')
          /\ rxDataSize = 0 /\ NoToken => NoToken'
          /\ rxDataSize = 0 /\ ~Interrupting /\ ~Pending =>
               ~Interrupting' /\ ~Pending'
      BY InterruptEffect
    <2>3. Filled(t) => rxDataSize = 0
      BY DEF Filled
    <2> QED BY <1>1, <2>1, <2>2, <2>3 DEF Phase
  <1>3. rxSemaphore' = NoTask =>
          rxDataSize' = 0 /\ NoToken' /\ rxPc' = "idle"
    BY <1>1, InterruptEffect DEF Receiving
  <1>4. DOMAIN rxTransfer' = Receivers
    BY DEF Receiving, Interrupt, tasksVars
  <1> QED BY <1>2, <1>3, <1>4 DEF Receiving

\* The steps of the senders and of the hardware are nothing to a receiver.
LEMMA ReceivingFrame ==
  ASSUME Receiving,
         UNCHANGED <<rxDataSize, received, rxPc, irqPc, cbStatus, pended,
                     rxEvent, rpc, rxTransfer, rxSemaphore>>,
         \A t \in Receivers : ev'[t] = ev[t]
  PROVE  Receiving'
  <1>1. /\ NoToken' <=> NoToken
        /\ OneToken' <=> OneToken
        /\ Interrupting' <=> Interrupting
        /\ Pending' <=> Pending
    BY DEF NoToken, OneToken, Returning, Interrupting, InQueue, InQueueOnce,
           Pending, BitSet,
           PendingOnce
  <1>2. ASSUME NEW t \in Receivers PROVE Phase(t)'
    <2>1. /\ Filled(t)' <=> Filled(t)
          /\ Underway(t)' <=> Underway(t)
      BY <1>1 DEF Filled, Underway, Lacking, Total
    <2>2. Phase(t)
      BY DEF Receiving
    <2> QED BY <1>1, <2>1, <2>2 DEF Phase
  <1>3. rxSemaphore' = NoTask =>
          rxDataSize' = 0 /\ NoToken' /\ rxPc' = "idle"
    BY <1>1 DEF Receiving
  <1> QED BY <1>2, <1>3 DEF Receiving

LEMMA ReceivingSender ==
  ASSUME PromptDaemon, Receiving, RtosType, NEW s \in Senders,
         SendTake(s) \/ SendStep(s)
  PROVE  Receiving'
  <1>1. \A t \in Receivers : ev'[t] = ev[t]
    <2>1. ASSUME NEW t \in Receivers PROVE t # s
      BY DEF PromptDaemon
    <2>2. \/ ev' = ev \/ \E x : ev' = [ev EXCEPT ![s] = x]
      BY DEF SendTake, SendStep, SendStart, SendInDriver, SendWait, SendGive,
             WaitBits
    <2> QED BY <2>1, <2>2 DEF RtosType, RtosTypeOK
  <1>2. UNCHANGED <<pended, rxEvent, rpc, rxTransfer, rxSemaphore>>
    BY DEF SendTake, SendStep, SendStart, SendInDriver, SendWait, SendGive,
           Sender
  <1>3. UNCHANGED <<rxDataSize, received, rxPc, irqPc, cbStatus>>
    BY SenderStep DEF TxThread, TxGoto, Send, SendSetState, SendReadEnables,
       SendWriteEnables, AbortTxDisable, AbortTxEmpty, AbortTxSize,
       AbortTxState, driverVars, rxVars, rxHist, irqVars, threadVars
  <1> QED BY <1>1, <1>2, <1>3, ReceivingFrame

LEMMA TakingEffect ==
  ASSUME RtosType, pended # <<>>, pended' = Tail(pended)
  PROVE  /\ Head(pended) = Completed => Pending /\ (PendingOnce => ~Pending')
         /\ Head(pended) # Completed => (Pending' <=> Pending)
         /\ PendingOnce => PendingOnce'
  BY QueueTakes DEF Pending, PendingOnce

\* The only receiver that is inside USART_RTOS_Receive.
LEMMA OneReceiver ==
  ASSUME RtosType, NEW t \in Receivers, NEW u \in Receivers, t # u,
         rpc[t] # "idle"
  PROVE  rpc[u] = "idle"
  BY DEF RtosType, RtosTypeOK

LEMMA ReceivingDaemon ==
  ASSUME PromptDaemon, Receiving, RtosType, Daemon PROVE Receiving'
  <1>1. /\ UNCHANGED <<rxDataSize, received, rxPc, irqPc, cbStatus,
                       rxTransfer, rxSemaphore>>
        /\ pended # <<>> /\ pended' = Tail(pended)
    BY DEF Daemon, driverVars, rxVars, rxHist, threadVars, irqVars
  <1>2. /\ Head(pended) = Completed => Pending /\ (PendingOnce => ~Pending')
        /\ Head(pended) # Completed => (Pending' <=> Pending)
        /\ PendingOnce => PendingOnce'
    BY <1>1, TakingEffect
  <1>3. /\ Returning' <=> Returning
        /\ Interrupting' <=> Interrupting
        /\ \A t \in Receivers : Filled(t)' <=> Filled(t)
        /\ \A t \in Receivers : Total(t)' = Total(t)
    BY <1>1 DEF Returning, Interrupting, Filled, Total
  <1>4. Head(pended) \in Posts
    BY <1>1, DaemonTakes
  <1>5. ~Pending => ~Pending'
    BY <1>2 DEF PendingOnce, Pending
  <1>6. CASE /\ UNCHANGED rpc /\ \A t \in Receivers : ev'[t] = ev[t]
             /\ BitSet' => BitSet \/ Head(pended) = Completed
             /\ rxEvent = {} => rxEvent' = {} \/ Blocked(rpc) = {}
    <2>1. (NoToken => NoToken') /\ (OneToken => OneToken')
      BY <1>2, <1>3, <1>5, <1>6 DEF NoToken, OneToken
    <2>2. ASSUME NEW t \in Receivers PROVE Phase(t)'
      <3>1. Phase(t)
        BY DEF Receiving
      <3>2. Underway(t) => Underway(t)'
        BY <1>1, <1>3, <2>1 DEF Underway, Lacking
      <3>3. rpc[t] = "blocked" => Blocked(rpc) # {}
        BY DEF Blocked, RtosType, RtosTypeOK
      <3> QED BY <1>1, <1>3, <1>5, <1>6, <2>1, <3>1, <3>2, <3>3 DEF Phase
    <2> QED BY <1>1, <2>1, <2>2 DEF Receiving
  <1>7. ASSUME NEW t \in Receivers, rpc[t] = "blocked",
               rpc' = [rpc EXCEPT ![t] = "woken"],
               ev' = [ev EXCEPT ![t] = rxEvent \cup {Head(pended).bit}],
               rxEvent' = {}, Head(pended).group = "rx"
        PROVE  Receiving'
    <2>1. Underway(t) /\ rxPc = "idle" /\ rxEvent = {}
      BY <1>7 DEF Receiving, Phase
    <2>2. ev'[t] = {Head(pended).bit} /\ rpc'[t] = "woken"
      BY <1>7, <2>1 DEF RtosType, RtosTypeOK
    <2>3. ~BitSet /\ ~BitSet'
      BY <1>7, <2>1 DEF BitSet
    <2>4. Head(pended).bit = COMPLETE <=> Head(pended) = Completed
      BY <1>4, <1>7
      DEF Posts, Command, Completed, COMPLETE, RING_BUFFER_OVERRUN
    <2>5. CASE Head(pended) = Completed
      <3>1. Filled(t) /\ OneToken /\ Pending
        BY <1>2, <2>1, <2>5 DEF Underway, Lacking, NoToken
      <3>2. Filled(t)' /\ NoToken'
        BY <1>2, <1>3, <2>3, <2>5, <3>1 DEF NoToken, OneToken
      <3> QED
        <4>1. Phase(t)'
          BY <1>1, <2>1, <2>2, <2>4, <2>5, <3>2 DEF Phase
        <4>2. ASSUME NEW u \in Receivers, u # t PROVE Phase(u)'
          BY <1>7, <4>2, OneReceiver DEF Phase, RtosType, RtosTypeOK
        <4> QED
          BY <1>1, <1>7, <4>1, <4>2, RtosAssumption
          DEF Receiving, RtosType, RtosTypeOK
    <2>6. CASE Head(pended) # Completed
      <3>1. (NoToken => NoToken') /\ (OneToken => OneToken')
        BY <1>2, <1>3, <2>3, <2>6 DEF NoToken, OneToken
      <3>2. Underway(t)'
        BY <1>1, <1>3, <2>1, <3>1 DEF Underway, Lacking
      <3> QED
        <4>1. Phase(t)'
          BY <1>1, <2>1, <2>2, <2>4, <2>6, <3>2 DEF Phase
        <4>2. ASSUME NEW u \in Receivers, u # t PROVE Phase(u)'
          BY <1>7, <4>2, OneReceiver DEF Phase, RtosType, RtosTypeOK
        <4> QED
          BY <1>1, <1>7, <4>1, <4>2, RtosAssumption
          DEF Receiving, RtosType, RtosTypeOK
    <2> QED BY <2>5, <2>6
  <1>8. CASE /\ Head(pended).group = "rx"
             /\ SetBits(rxEvent, {Head(pended).bit}, rpc)
    <2>1. CASE Blocked(rpc) = {}
      <3>1. UNCHANGED <<rpc, ev>> /\ rxEvent' = rxEvent \cup {Head(pended).bit}
        BY <1>8, <2>1 DEF SetBits
      <3>2. BitSet' => BitSet \/ Head(pended) = Completed
        BY <1>4, <1>8, <3>1
        DEF BitSet, Posts, Command, Completed, COMPLETE, RING_BUFFER_OVERRUN
      <3> QED BY <1>6, <2>1, <3>1, <3>2
    <2>2. CASE Blocked(rpc) # {}
      <3>1. PICK t \in Blocked(rpc) :
              /\ rpc' = [rpc EXCEPT ![t] = "woken"]
              /\ ev' = [ev EXCEPT ![t] = rxEvent \cup {Head(pended).bit}]
              /\ rxEvent' = {}
        BY <1>8, <2>2 DEF SetBits
      <3>2. t \in Receivers /\ rpc[t] = "blocked"
        BY DEF Blocked, RtosType, RtosTypeOK
      <3> QED BY <1>7, <1>8, <3>1, <3>2
    <2> QED BY <2>1, <2>2
  <1>9. CASE /\ SetBits(txEvent, {Head(pended).bit}, spc)
             /\ UNCHANGED <<rxEvent, rpc>>
    <2>1. \A t \in Receivers : ev'[t] = ev[t]
      <3>1. \/ ev' = ev
            \/ \E s \in Senders : \E x : ev' = [ev EXCEPT ![s] = x]
        BY <1>9 DEF SetBits, Blocked, RtosType, RtosTypeOK
      <3> QED BY <3>1 DEF PromptDaemon, RtosType, RtosTypeOK
    <2>2. (BitSet' => BitSet) /\ (rxEvent = {} => rxEvent' = {})
      BY <1>9 DEF BitSet
    <2> QED BY <1>6, <1>9, <2>1, <2>2
  <1> QED BY <1>8, <1>9 DEF Daemon

\* While one receiver moves inside its call, the others are outside.
LEMMA OthersAreOutside ==
  ASSUME RtosType, NEW t \in Receivers, NEW to, NEW u \in Receivers, u # t,
         rpc[t] # "idle" \/ rxSemaphore = NoTask,
         rpc' = [rpc EXCEPT ![t] = to]
  PROVE  Phase(u)'
  <1>1. rpc[u] = "idle"
    BY RtosAssumption DEF RtosType, RtosTypeOK
  <1>2. rpc'[u] = "idle"
    BY <1>1 DEF RtosType, RtosTypeOK
  <1> QED BY <1>2 DEF Phase

LEMMA RingIsUsed ==
  ASSUME DriverInv PROVE rxRingBuffer /\ (rxState = "busy" <=> rxDataSize # 0)
  BY RtosAssumption
  DEF DriverInv, TypeInv, RingShape, Requests, OpenRequest

\* What starting a request adds to the bytes received.
LEMMA StartEffect ==
  ASSUME DriverInv, NEW len \in 1 .. MaxLen, RecvFromRing(len)
  PROVE  \/ /\ rxPc' = "recv_cb" /\ rxDataSize' = rxDataSize
            /\ Len(received') = Len(received) + len
         \/ /\ rxPc' = "idle" /\ rxDataSize' # 0
            /\ Len(received') + rxDataSize' = Len(received) + len
  <1> DEFINE n == BytesToCopy(len)
  <1>1. /\ RingLength \in Nat /\ Len(received) \in Nat
        /\ received \in Seq(0 .. MaxIn)
    BY RingFacts, RequestTypes DEF DriverInv, TypeInv, TypeOK, RxTypeOK
  <1>2. n \in 0 .. RingLength /\ n <= len
    BY <1>1 DEF BytesToCopy
  <1>3. Len(received') = Len(received) + n
    <2>1. SubSeq(InRing, 1, n) \in Seq(0 .. MaxIn)
          /\ Len(SubSeq(InRing, 1, n)) = n
      BY <1>2, RingFacts, Prefix DEF DriverInv
    <2> QED BY <1>1, <2>1, ConcatProperties DEF RecvFromRing
  <1>4. IF len - n = 0 THEN rxPc' = "recv_cb" /\ rxDataSize' = rxDataSize
        ELSE rxPc' = "idle" /\ rxDataSize' = len - n
    BY DEF RecvFromRing, RxGoto, rxVars
  <1> HIDE DEF n
  <1> QED BY <1>1, <1>2, <1>3, <1>4

LEMMA ReceiveStartKeeps ==
  ASSUME DriverInv, RtosType, Receiving, NEW t \in Receivers, ReceiveStart(t)
  PROVE  Receiving'
  <1>1. rxDataSize = 0 /\ NoToken /\ rxPc = "idle" /\ rpc[t] = "call"
    BY DEF ReceiveStart, Receiver, Receiving, Phase
  <1>2. ~RecvBusy
    BY <1>1, RingIsUsed DEF RecvBusy
  <1>3. PICK len \in 1 .. MaxLen :
          /\ RecvFromRing(len)
          /\ rxTransfer' =
               [rxTransfer EXCEPT ![t] = [start |-> Len(received), len |-> len]]
    BY <1>2 DEF ReceiveStart
  <1>4. /\ rpc' = [rpc EXCEPT ![t] = "in driver"] /\ rpc'[t] = "in driver"
        /\ UNCHANGED <<rxSemaphore, rxEvent, pended, ev>>
        /\ UNCHANGED <<irqPc, cbStatus>>
    BY <1>3 DEF ReceiveStart, Receiver, RtosType, RtosTypeOK, RecvFromRing,
       RxGoto, irqVars
  <1>5. /\ ~Interrupting' /\ ~Pending' /\ ~BitSet' /\ PendingOnce'
    BY <1>1, <1>4 DEF NoToken, Interrupting, InQueue, InQueueOnce, Pending,
                      BitSet, PendingOnce
  <1>6. /\ Total(t)' = Len(received) + len
        /\ Len(received) \in Nat
    <2>1. Total(t)' = Len(received) + len
      BY <1>3 DEF Total, Receiving
    <2> QED BY <2>1, RequestTypes
  <1>7. Phase(t)'
    <2>1. CASE /\ rxPc' = "recv_cb" /\ rxDataSize' = rxDataSize
               /\ Len(received') = Len(received) + len
      <3>1. Filled(t)' /\ OneToken'
        BY <1>1, <1>5, <1>6, <2>1 DEF Filled, OneToken
      <3> QED BY <1>4, <2>1, <3>1 DEF Phase, Underway
    <2>2. CASE /\ rxPc' = "idle" /\ rxDataSize' # 0
               /\ Len(received') + rxDataSize' = Len(received) + len
      <3>1. Lacking(t)'
        BY <1>5, <1>6, <2>2 DEF Lacking, NoToken, Returning
      <3> QED BY <1>4, <2>2, <3>1 DEF Phase, Underway
    <2> QED BY <1>3, <2>1, <2>2, StartEffect
  <1>8. rxSemaphore' = t /\ t # NoTask
    BY <1>1, <1>4, RtosAssumption DEF RtosType, RtosTypeOK
  <1>9. DOMAIN rxTransfer' = Receivers
    BY <1>3 DEF Receiving
  <1>10. ASSUME NEW u \in Receivers, u # t PROVE Phase(u)'
    BY <1>1, <1>4, <1>10, OthersAreOutside
  <1> QED BY <1>7, <1>8, <1>9, <1>10 DEF Receiving

LEMMA ReceiveMovesKeep ==
  ASSUME PromptDaemon, DriverInv, RtosType, Receiving, NEW t \in Receivers,
         \/ ReceiveTake(t) \/ ReceiveWait(t) \/ ReceiveAbort(t)
         \/ ReceiveDone(t) \/ ReceiveGive(t)
  PROVE  Receiving'
  <1> USE DEF driverVars, rxVars, rxHist, threadVars, irqVars
  <1>1. /\ Phase(t) /\ rpc \in [Receivers -> Pcs] /\ NoTask # t
        /\ rpc[t] # "idle" <=> rxSemaphore = t
    BY RtosAssumption DEF Receiving, RtosType, RtosTypeOK
  <1>2. CASE ReceiveTake(t)
    <2>1. /\ UNCHANGED <<rxDataSize, received, rxPc, irqPc, cbStatus, pended,
                         rxEvent, rxTransfer, ev>>
          /\ rpc' = [rpc EXCEPT ![t] = "call"] /\ rxSemaphore' = t
          /\ rxSemaphore = NoTask
      BY <1>2 DEF ReceiveTake, Receiver, RxSemaphoreFree
    <2>2. rxDataSize = 0 /\ NoToken /\ rxPc = "idle"
      BY <2>1 DEF Receiving
    <2>3. NoToken'
      BY <2>1, <2>2
      DEF NoToken, Returning, Interrupting, InQueue, Pending, BitSet
    <2>4. Phase(t)'
      BY <1>1, <2>1, <2>2, <2>3 DEF Phase
    <2> QED BY <1>1, <2>1, <2>4, OthersAreOutside DEF Receiving
  <1>3. CASE ReceiveWait(t)
    <2>1. /\ UNCHANGED <<rxDataSize, received, rxPc, irqPc, cbStatus, pended,
                         rxTransfer, rxSemaphore>>
          /\ rpc[t] = "in driver" /\ rxPc = "idle"
      BY <1>3 DEF ReceiveWait
    <2>2. Underway(t) /\ ~Returning
      BY <1>1, <2>1 DEF Phase, Returning
    <2>3. /\ Returning' <=> Returning
          /\ Interrupting' <=> Interrupting
          /\ Pending' <=> Pending
          /\ PendingOnce' <=> PendingOnce
          /\ Filled(t)' <=> Filled(t)
          /\ Total(t)' = Total(t)
      BY <2>1 DEF Returning, Interrupting, InQueue, InQueueOnce, Pending,
                  PendingOnce, Filled, Total
    <2>4. CASE rxEvent = {}
      <3>1. /\ rpc' = [rpc EXCEPT ![t] = "blocked"]
            /\ UNCHANGED <<rxEvent, ev>>
        BY <1>3, <2>4 DEF ReceiveWait, WaitBits
      <3>2. BitSet' <=> BitSet
        BY <3>1 DEF BitSet
      <3>3. Underway(t)'
        BY <2>1, <2>2, <2>3, <3>2
        DEF Underway, Lacking, NoToken, OneToken
      <3>4. Phase(t)'
        BY <1>1, <2>1, <2>4, <3>1, <3>3 DEF Phase
      <3> QED BY <1>1, <2>1, <3>1, <3>4, OthersAreOutside DEF Receiving
    <2>5. CASE rxEvent # {}
      <3>1. /\ rpc' = [rpc EXCEPT ![t] = "woken"]
            /\ ev' = [ev EXCEPT ![t] = rxEvent] /\ rxEvent' = {}
        BY <1>3, <2>5 DEF ReceiveWait, WaitBits
      <3>2. ev'[t] = rxEvent /\ rpc'[t] = "woken" /\ ~BitSet'
        BY <1>1, <3>1 DEF RtosType, RtosTypeOK, BitSet
      <3>3. BitSet => Filled(t)' /\ NoToken'
        BY <2>2, <2>3, <3>2 DEF Underway, Lacking, NoToken, OneToken
      <3>4. ~BitSet => Underway(t)'
        BY <2>1, <2>2, <2>3, <3>2
        DEF Underway, Lacking, NoToken, OneToken
      <3>5. Phase(t)'
        BY <2>1, <2>5, <3>2, <3>3, <3>4 DEF Phase, BitSet
      <3> QED BY <1>1, <2>1, <3>1, <3>5, OthersAreOutside DEF Receiving
    <2> QED BY <2>4, <2>5
  <1>4. CASE ReceiveAbort(t)
    <2>1. /\ UNCHANGED <<rxSemaphore, ev, rxTransfer>>
          /\ RING_BUFFER_OVERRUN \in ev[t] /\ rpc[t] = "woken"
          /\ rpc' = [rpc EXCEPT ![t] = "aborting"] /\ rxPc' = "abort_end"
      BY <1>4, RingIsUsed
      DEF ReceiveAbort, Receiver, AbortRxDisable, RxGoto
    <2>2. Phase(t)'
      BY <1>1, <2>1 DEF Phase
    <2> QED BY <1>1, <2>1, <2>2, OthersAreOutside DEF Receiving
  <1>5. CASE ReceiveDone(t)
    <2>1. /\ UNCHANGED <<rxDataSize, received, rxPc, irqPc, cbStatus, pended,
                         rxEvent, rxTransfer, ev, rxSemaphore>>
          /\ rpc[t] = "woken" /\ rpc' = [rpc EXCEPT ![t] = "give"]
          /\ RING_BUFFER_OVERRUN \notin ev[t]
      BY <1>5 DEF ReceiveDone, Receiver
    <2>2. COMPLETE \in ev[t]
      BY <1>1, <2>1 DEF Phase, RtosType, RtosTypeOK, Bits
    <2>3. Filled(t) /\ NoToken /\ rxPc = "idle"
      BY <1>1, <2>1, <2>2 DEF Phase
    <2>4. Filled(t)' /\ NoToken'
      BY <2>1, <2>3 DEF Filled, Total, NoToken, Returning, Interrupting,
                        InQueue, Pending, BitSet
    <2>5. rxDataSize' = 0
      BY <2>4 DEF Filled
    <2>6. Phase(t)'
      BY <1>1, <2>1, <2>3, <2>4, <2>5 DEF Phase
    <2> QED BY <1>1, <2>1, <2>6, OthersAreOutside DEF Receiving
  <1>6. CASE ReceiveGive(t)
    <2>1. /\ UNCHANGED <<rxDataSize, received, rxPc, irqPc, cbStatus, pended,
                         rxEvent, rxTransfer>>
          /\ rpc[t] = "give" /\ rpc' = [rpc EXCEPT ![t] = "idle"]
      BY <1>6 DEF ReceiveGive, Receiver
    <2>2. rxDataSize = 0 /\ NoToken /\ rxPc = "idle"
      BY <1>1, <2>1 DEF Phase
    <2>3. NoToken'
      BY <2>1, <2>2
      DEF NoToken, Returning, Interrupting, InQueue, Pending, BitSet
    <2>4. Phase(t)'
      BY <1>1, <2>1 DEF Phase
    <2> QED BY <1>1, <2>1, <2>2, <2>3, <2>4, OthersAreOutside DEF Receiving
  <1> QED BY <1>2, <1>3, <1>4, <1>5, <1>6

LEMMA ReceiveCallbackKeeps ==
  ASSUME DriverInv, RtosType, Receiving, NEW t \in Receivers,
         ReceiveCallback(t)
  PROVE  Receiving'
  <1> USE DEF rxVars, irqVars
  <1>1. /\ UNCHANGED <<rxDataSize, received, irqPc, cbStatus, rxEvent,
                       rxTransfer, rxSemaphore, ev>>
        /\ rpc' = [rpc EXCEPT ![t] = "in driver"] /\ rpc[t] = "in driver"
        /\ rxPc = "recv_cb" /\ rxPc' = "idle" /\ Callback("RxIdle")
    BY DEF ReceiveCallback, Receiver, RecvCallback, RxGoto
  <1>2. Phase(t) /\ rpc \in [Receivers -> Pcs] /\ rxSemaphore = t /\ t # NoTask
    BY <1>1, RtosAssumption DEF Receiving, RtosType, RtosTypeOK
  <1>3. Filled(t) /\ OneToken /\ Returning
    BY <1>1, <1>2 DEF Phase, Underway, Lacking, NoToken, Returning
  <1>4. ~Interrupting' /\ ~BitSet' /\ ~Returning' /\ PendingOnce'
    BY <1>1, <1>3, PostingEffect
    DEF OneToken, Interrupting, BitSet, Returning
  <1>5. Filled(t)' /\ OneToken'
    BY <1>1, <1>3, <1>4 DEF Filled, Total, OneToken
  <1>6. Phase(t)'
    BY <1>1, <1>2, <1>5 DEF Phase, Underway
  <1> QED BY <1>1, <1>2, <1>6, OthersAreOutside DEF Receiving

\* The abort and the clearing of the bit: when the daemon has run before, no
\* completion of the request outlives them.
LEMMA ReceiveAbortsKeep ==
  ASSUME PromptDaemon, DriverInv, RtosType, Receiving, NEW t \in Receivers,
         ReceiveAborted(t) \/ ReceiveClear(t)
  PROVE  Receiving'
  <1> USE DEF driverVars, rxVars, rxHist, threadVars, irqVars
  <1>1. /\ Phase(t) /\ rpc \in [Receivers -> Pcs] /\ NoTask # t
        /\ rpc[t] # "idle" <=> rxSemaphore = t
    BY RtosAssumption DEF Receiving, RtosType, RtosTypeOK
  <1>2. CASE ReceiveAborted(t)
    <2>1. /\ UNCHANGED <<irqPc, pended, rxEvent, rxTransfer, rxSemaphore, ev>>
          /\ rpc' = [rpc EXCEPT ![t] = "clear"] /\ rpc[t] = "aborting"
          /\ rxPc' = "idle" /\ rxDataSize' = 0 /\ irqPc = "off"
          /\ pended = <<>>
      BY <1>2 DEF ReceiveAborted, Receiver, AbortRxEnd, RxGoto, TasksRun, Runs,
                  PromptDaemon
    <2>2. ~Interrupting' /\ ~Pending'
      BY <2>1 DEF Interrupting, InQueue, Pending
    <2>3. Phase(t)'
      BY <1>1, <2>1, <2>2 DEF Phase
    <2> QED BY <1>1, <2>1, <2>3, OthersAreOutside DEF Receiving
  <1>3. CASE ReceiveClear(t)
    <2>1. /\ UNCHANGED <<rxDataSize, received, rxPc, irqPc, cbStatus, pended,
                         rxTransfer, rxSemaphore, ev>>
          /\ rpc' = [rpc EXCEPT ![t] = "give"] /\ rpc[t] = "clear"
          /\ rxEvent' = rxEvent \ {COMPLETE}
      BY <1>3 DEF ReceiveClear, Receiver, ClearedBits
    <2>2. /\ rxDataSize = 0 /\ rxPc = "idle" /\ ~Interrupting /\ ~Pending
          /\ RING_BUFFER_OVERRUN \in ev[t]
      BY <1>1, <2>1 DEF Phase
    <2>3. NoToken'
      BY <2>1, <2>2
      DEF NoToken, Returning, Interrupting, InQueue, Pending, BitSet
    <2>4. Phase(t)'
      BY <1>1, <2>1, <2>2, <2>3 DEF Phase
    <2> QED BY <1>1, <2>1, <2>4, OthersAreOutside DEF Receiving
  <1> QED BY <1>2, <1>3

LEMMA ReceivingInit == RtosInit => Receiving
  <1> SUFFICES ASSUME RtosInit PROVE Receiving
    OBVIOUS
  <1>1. NoToken /\ rxDataSize = 0 /\ rxPc = "idle"
    BY DEF RtosInit, Init, NoToken, Returning, Interrupting, InQueue, Pending,
           BitSet
  <1>2. \A t \in Receivers : rpc[t] = "idle"
    BY DEF RtosInit
  <1>3. DOMAIN rxTransfer = Receivers
    BY DEF RtosInit
  <1> QED BY <1>1, <1>2, <1>3 DEF Receiving, Phase

LEMMA ReceivingNext ==
  PromptDaemon /\ DriverInv /\ RtosType /\ Receiving /\ [RtosNext]_vars
    => Receiving'
  <1> SUFFICES ASSUME PromptDaemon, DriverInv, RtosType, Receiving,
                      [RtosNext]_vars
               PROVE  Receiving'
    OBVIOUS
  <1>1. ASSUME NEW t \in Receivers, ReceiveTake(t) \/ ReceiveStep(t)
        PROVE  Receiving'
    BY <1>1, ReceiveStartKeeps, ReceiveMovesKeep, ReceiveCallbackKeeps,
       ReceiveAbortsKeep DEF ReceiveStep
  <1>2. ASSUME NEW t \in Senders, SendTake(t) \/ SendStep(t) PROVE Receiving'
    BY <1>2, ReceivingSender
  <1>3. CASE Daemon
    BY <1>3, ReceivingDaemon
  <1>4. CASE Interrupt
    BY <1>4, ReceivingInterrupt
  <1>5. CASE Device
    <2>1. /\ UNCHANGED <<rxDataSize, received, rxPc, irqPc, cbStatus, pended,
                         rxEvent, rpc, rxTransfer, rxSemaphore>>
          /\ ev' = ev
      BY <1>5 DEF Device, Hardware, tasksVars, rxVars, rxHist, threadVars,
                  irqVars
    <2> QED BY <2>1, ReceivingFrame
  <1>6. CASE UNCHANGED vars
    <2>1. /\ UNCHANGED <<rxDataSize, received, rxPc, irqPc, cbStatus, pended,
                         rxEvent, rpc, rxTransfer, rxSemaphore>>
          /\ ev' = ev
      BY <1>6 DEF vars, driverVars, rtosVars, rxVars, rxHist, threadVars,
                  irqVars
    <2> QED BY <2>1, ReceivingFrame
  <1> QED BY <1>1, <1>2, <1>3, <1>4, <1>5, <1>6 DEF RtosNext

LEMMA ReceivingInvariant ==
  ASSUME PromptDaemon, RingSize <= IndexMod
  PROVE  RtosSpec => [](DriverInv /\ RtosType /\ Receiving)
  <1>1. StaticRing
    BY RtosAssumption DEF StaticRing
  <1>2. RtosSpec => []DriverInv
    BY <1>1, WrapperImplementsDriver, RequestInvariant, PTL DEF DriverInv
  <1>3. RtosInit => RtosType /\ Receiving
    BY RtosTypeInit, ReceivingInit
  <1>4. PromptDaemon /\ DriverInv /\ RtosType /\ Receiving /\ [RtosNext]_vars
          => RtosType' /\ Receiving'
    BY RtosTypeNext, ReceivingNext
  <1>5. DriverInv /\ RtosType /\ Receiving /\ [RtosNext]_vars
          => RtosType' /\ Receiving'
    BY <1>4
  <1> QED BY <1>2, <1>3, <1>5, PTL DEF RtosSpec

\* With the daemon above the tasks, USART_RTOS_Receive reports success only
\* when the buffer of this call, and not of one before it, was filled, for any
\* ring, any tasks, and any length of the daemon's queue.
THEOREM SuccessIsTrue ==
  ASSUME PromptDaemon, RingSize <= IndexMod
  PROVE  RtosSpec => []SuccessMeansData
  <1>1. Receiving => SuccessMeansData
    BY DEF Receiving, Phase, Filled, Total, SuccessMeansData
  <1> QED BY <1>1, ReceivingInvariant, PTL

\* With the daemon above the tasks, a call of USART_RTOS_Receive ends with its
\* request: nothing is stored into the buffer of a call that has returned.
THEOREM NothingLeftBehind ==
  ASSUME PromptDaemon, RingSize <= IndexMod
  PROVE  RtosSpec => []NoRequestLeftBehind
  <1>1. DriverInv /\ Receiving => NoRequestLeftBehind
    <2> SUFFICES ASSUME DriverInv, Receiving, rxSemaphore = NoTask
                 PROVE  rxState = "idle"
      BY DEF NoRequestLeftBehind
    <2>1. rxState # "busy"
      BY RingIsUsed DEF Receiving
    <2> QED BY <2>1 DEF DriverInv, TypeInv, TypeOK, RxTypeOK
  <1> QED BY <1>1, ReceivingInvariant, PTL

-----------------------------------------------------------------------------
(* A call of USART_RTOS_Send and the TxIdle that ends it *)

\* The ways in which the TxIdle of a send is on its way to its task.
SentCommand == Command("tx", COMPLETE)
Reporting == irqPc = "callback" /\ cbStatus = "TxIdle"
Reported == InQueue(SentCommand)
SentBit == COMPLETE \in txEvent

NoReport == ~Reporting /\ ~Reported /\ ~SentBit
OneReport ==
  /\ Reporting => ~Reported /\ ~SentBit
  /\ Reported => ~SentBit
  /\ InQueueOnce(SentCommand)

\* Everything is out, and the interrupt that says so is disabled again.
AllOut == ~txIdleEn /\ Len(sent) = asked

\* Before the interrupt there is no report; after it everything is out.
Outgoing == NoReport \/ (OneReport /\ AllOut)

SendPhase(t) ==
  /\ spc[t] \in {"call", "woken"} => NoReport /\ AllOut
  /\ spc[t] = "in driver" => Outgoing
  /\ spc[t] = "blocked" => Outgoing /\ txEvent = {}

Sending ==
  /\ \A t \in Senders : SendPhase(t)
  /\ txSemaphore = NoTask => NoReport /\ AllOut

\* The wrapper has no function that aborts a send.
SendInv == TypeInv /\ Sends /\ used["abortTx"] = 0

LEMMA NeverAborted ==
  ASSUME TypeInv, used["abortTx"] = 0, [RtosNext]_vars
  PROVE  used'["abortTx"] = 0
  <1>1. used \in [Kinds -> Nat]
    BY DEF TypeInv, TypeOK, ControlTypeOK
  <1>2. ASSUME NEW k, NEW bound, k # "abortTx", Use(k, bound)
        PROVE  used'["abortTx"] = 0
    BY <1>1, <1>2 DEF Use, Kinds
  <1>3. ASSUME NEW t \in Receivers, ReceiveTake(t) \/ ReceiveStep(t)
        PROVE  used'["abortTx"] = 0
    <2>1. CASE ReceiveStart(t) \/ ReceiveAbort(t)
      BY <1>2, <2>1
      DEF ReceiveStart, ReceiveAbort, RecvFromRing, RecvBusy, AbortRxDisable,
          driverVars
    <2>2. CASE ReceiveCallback(t) \/ ReceiveAborted(t)
      BY <2>2 DEF ReceiveCallback, ReceiveAborted, RecvCallback, AbortRxEnd
    <2>3. CASE \/ ReceiveTake(t) \/ ReceiveWait(t) \/ ReceiveClear(t)
               \/ ReceiveDone(t) \/ ReceiveGive(t)
      BY <2>3
      DEF ReceiveTake, ReceiveWait, ReceiveClear, ReceiveDone, ReceiveGive,
          driverVars
    <2> QED BY <1>3, <2>1, <2>2, <2>3 DEF ReceiveStep
  <1>4. ASSUME NEW t \in Senders, SendTake(t) \/ SendStep(t)
        PROVE  used'["abortTx"] = 0
    <2>1. CASE SendStart(t)
      BY <1>2, <2>1 DEF SendStart, Send, SendBusy, driverVars
    <2>2. CASE SendInDriver(t)
      BY <2>2 DEF SendInDriver, SendSetState, SendReadEnables, SendWriteEnables
    <2>3. CASE SendTake(t) \/ SendWait(t) \/ SendGive(t)
      BY <2>3 DEF SendTake, SendWait, SendGive, driverVars
    <2> QED BY <1>4, <2>1, <2>2, <2>3 DEF SendStep
  <1>5. CASE Interrupt
    BY <1>5
    DEF Interrupt, Irq, IrqGoto, IrqEnter, IrqRecvUser, IrqRecvRing, IrqRingPut,
        IrqSend, IrqTxIdle, IrqExit, IrqCallback
  <1>6. CASE Daemon \/ Device \/ UNCHANGED vars
    BY <1>6 DEF Daemon, Device, Hardware, vars, driverVars
  <1> QED BY <1>3, <1>4, <1>5, <1>6 DEF RtosNext

\* When everything asked for is out, the driver and the FIFO are empty.
LEMMA NothingToSend ==
  ASSUME SendInv, Len(sent) = asked
  PROVE  txDataSize = 0 /\ txFifo = <<>>
  <1>1. /\ txData \in Nat \ {0} /\ sent \o txFifo = FirstBytes(txData - 1)
        /\ txData + txDataSize = asked + 1
    BY DEF SendInv, Sends, TxConserved, FirstBytes
  <1>2. /\ sent \in Seq(Nat) /\ txFifo \in Seq(Nat) /\ txDataSize \in Nat
        /\ asked \in Nat
    BY DriverAssumption
    DEF SendInv, TypeInv, TypeOK, HwTypeOK, TxTypeOK
  <1>3. Len(sent) + Len(txFifo) = txData - 1
    <2>1. txData - 1 \in Nat
      BY <1>1
    <2>2. Len(sent \o txFifo) = Len(sent) + Len(txFifo)
      BY <1>2, ConcatProperties
    <2> QED BY <1>1, <2>1, <2>2, FirstBytesAppend
  <1>4. Len(sent) \in Nat /\ Len(txFifo) \in Nat
    BY <1>2, LenProperties
  <1>5. txDataSize = 0 /\ Len(txFifo) = 0
    BY <1>1, <1>2, <1>3, <1>4
  <1> QED BY <1>2, <1>5, EmptySeq

\* A step of the handler reports nothing, or reports that everything is out.
LEMMA SendHandler ==
  ASSUME SendInv, SendInv', RtosType, Interrupt
  PROVE  /\ Outgoing => Outgoing'
         /\ NoReport /\ AllOut => NoReport' /\ AllOut'
  <1> USE DEF IrqGoto, threadVars, txHist, lineVars, fifoVars
  <1>1. UNCHANGED <<asked, sent, txEvent>> /\ Irq
    BY DEF Interrupt, tasksVars, Irq, IrqEnter, IrqRecvUser, IrqRecvRing,
       IrqRingPut, IrqSend, IrqTxIdle, IrqExit, IrqCallback, hwVars
  <1>2. SentBit' <=> SentBit
    BY <1>1 DEF SentBit
  <1>3. AllOut => ~IrqSend
    <2>1. AllOut => txDataSize = 0
      BY NothingToSend DEF AllOut
    <2> QED
      BY <2>1 DEF IrqSend, AtSend, CanSend, SendInv, TypeInv, HandlerFlags
  <1>4. AllOut => AllOut'
    BY <1>1, <1>3
    DEF AllOut, Irq, IrqEnter, IrqRecvUser, IrqRecvRing, IrqRingPut, IrqTxIdle,
        IrqExit, IrqCallback, hwVars, enableVars
  <1>5. Reporting' => ~AllOut /\ AllOut' /\ irqPc # "callback"
    <2>1. Reporting' => IrqTxIdle
      <3>1. IrqCallback => irqPc' # "callback"
        BY DEF IrqCallback, AfterCallback, SendInv, TypeInv, TypeOK,
               ControlTypeOK, PutReady, Statuses, NoStatus
      <3>2. IrqRecvUser => ~Reporting'
        <4>1. IrqRecvUser => cbStatus = NoStatus
          BY DEF IrqRecvUser, AtReceive, SendInv, TypeInv, PutReady
        <4> QED BY <4>1 DEF IrqRecvUser, Reporting, NoStatus
      <3> QED
        BY <1>1, <3>1, <3>2
        DEF Reporting, Irq, IrqEnter, IrqRecvRing, IrqRingPut, IrqSend, IrqExit,
            NoStatus
    <2>2. Reporting' /\ IrqTxIdle => txIdleEn /\ ~txIdleEn'
      BY DEF Reporting, IrqTxIdle, TxIdleDue, NoStatus, AllOut
    <2>3. Reporting' => Len(sent') = asked'
      BY DEF Reporting, SendInv, Sends
    <2> QED BY <2>1, <2>2, <2>3 DEF AllOut, IrqTxIdle, AtLoopEnd
  <1>6. CASE irqPc # "callback"
    <2>1. pended' = pended /\ ~Reporting
      BY <1>6 DEF Interrupt, Reporting
    <2>2. /\ Reported' <=> Reported
          /\ InQueueOnce(SentCommand)' <=> InQueueOnce(SentCommand)
          /\ ~Reported => InQueueOnce(SentCommand)
      BY <2>1 DEF Reported, InQueue, InQueueOnce
    <2> QED
      BY <1>2, <1>4, <1>5, <2>1, <2>2 DEF Outgoing, NoReport, OneReport
  <1>7. CASE irqPc = "callback"
    <2>1. ~Reporting' /\ Callback(cbStatus)
      BY <1>5, <1>7 DEF Interrupt
    <2>2. cbStatus # "TxIdle" => CommandFor(cbStatus) # <<SentCommand>>
      BY DEF CommandFor, Command, SentCommand, COMPLETE, RING_BUFFER_OVERRUN
    <2>3. /\ ~Reporting => /\ Reported' <=> Reported
                           /\ InQueueOnce(SentCommand) =>
                                InQueueOnce(SentCommand)'
          /\ ~Reported => InQueueOnce(SentCommand)'
      BY <1>7, <2>1, <2>2, QueuePosts DEF Reported, Reporting
    <2> QED BY <1>2, <1>4, <2>1, <2>3 DEF Outgoing, NoReport, OneReport
  <1> QED BY <1>6, <1>7

\* What leaves the sends and their reports alone.
LEMMA SendingFrame ==
  ASSUME Sending,
         UNCHANGED <<txIdleEn, sent, asked, txEvent, spc, txSemaphore>>,
         Reporting' <=> Reporting, Reported' <=> Reported,
         InQueueOnce(SentCommand) => InQueueOnce(SentCommand)'
  PROVE  Sending'
  <1>1. /\ NoReport => NoReport'
        /\ AllOut => AllOut'
        /\ OneReport => OneReport'
    BY DEF NoReport, AllOut, OneReport, SentBit
  <1>2. ASSUME NEW t \in Senders PROVE SendPhase(t)'
    BY <1>1 DEF Sending, SendPhase, Outgoing
  <1> QED BY <1>1, <1>2 DEF Sending

LEMMA SendingReceiver ==
  ASSUME Sending, RtosType, NEW t \in Receivers, ReceiveTake(t) \/ ReceiveStep(t)
  PROVE  Sending'
  <1> USE DEF hwVars, enableVars, lineVars, hwButEnables
  <1>1. UNCHANGED <<irqPc, cbStatus, asked, txIdleEn, sent>>
    BY ReceiverStep
    DEF RxThread, RxGoto, RecvFromRing, RecvDirect, RecvCallback, RecvSetState,
        RxReadEnables, RxWriteEnables, AbortRxDisable, AbortRxEmpty, AbortRxEnd,
        StartRing, StartRingSize, StartRingHead, StartRingTail,
        StopRing, StopRingFields,
        driverVars, irqVars, txHist
  <1>2. UNCHANGED <<txEvent, spc, txSemaphore>>
    BY DEF ReceiveTake, ReceiveStep, ReceiveStart, ReceiveCallback, ReceiveWait,
           ReceiveAbort, ReceiveAborted, ReceiveClear, ReceiveDone,
           ReceiveGive, Receiver
  <1>3. pended' = pended \/ Callback("RxIdle")
    BY DEF ReceiveTake, ReceiveStep, ReceiveStart, ReceiveCallback, ReceiveWait,
           ReceiveAbort, ReceiveAborted, ReceiveClear, ReceiveDone,
           ReceiveGive
  <1>4. CommandFor("RxIdle") # <<SentCommand>>
    BY DEF CommandFor, Command, SentCommand
  <1>5. /\ Reported' <=> Reported
        /\ InQueueOnce(SentCommand) => InQueueOnce(SentCommand)'
    <2>1. CASE pended' = pended
      BY <2>1 DEF Reported, InQueue, InQueueOnce
    <2>2. CASE Callback("RxIdle")
      BY <1>4, <2>2, QueuePosts DEF Reported
    <2> QED BY <1>3, <2>1, <2>2
  <1>6. Reporting' <=> Reporting
    BY <1>1 DEF Reporting
  <1> QED BY <1>1, <1>2, <1>5, <1>6, SendingFrame

LEMMA SendingDevice ==
  ASSUME SendInv, Sending, Device PROVE Sending'
  <1>1. /\ UNCHANGED <<txIdleEn, asked, txEvent, spc, txSemaphore, irqPc,
                       cbStatus, pended>>
        /\ sent' = sent \/ txFifo # <<>>
    BY DEF Device, Hardware, HwNext, Arrive, Shift, ShiftDone, tasksVars,
           txHist, irqVars, enableVars, lineVars
  <1>2. /\ Reporting' <=> Reporting
        /\ Reported' <=> Reported
        /\ InQueueOnce(SentCommand)' <=> InQueueOnce(SentCommand)
    BY <1>1 DEF Reporting, Reported, InQueue, InQueueOnce
  <1>3. CASE sent' = sent
    BY <1>1, <1>2, <1>3, SendingFrame
  <1>4. CASE ~AllOut
    <2>1. NoReport' <=> NoReport
      BY <1>1, <1>2 DEF NoReport, SentBit
    <2> QED BY <1>1, <1>4, <2>1 DEF Sending, SendPhase, Outgoing
  <1>5. AllOut => txFifo = <<>>
    BY NothingToSend DEF AllOut
  <1> QED BY <1>1, <1>3, <1>4, <1>5

\* While one sender is inside its call, the others are outside.
LEMMA OtherSenders ==
  ASSUME RtosType, NEW t \in Senders, NEW to, NEW u \in Senders, u # t,
         spc[t] # "idle" \/ txSemaphore = NoTask,
         spc' = [spc EXCEPT ![t] = to]
  PROVE  SendPhase(u)'
  <1>1. spc[u] = "idle"
    BY RtosAssumption DEF RtosType, RtosTypeOK
  <1>2. spc'[u] = "idle"
    BY <1>1 DEF RtosType, RtosTypeOK
  <1> QED BY <1>2 DEF SendPhase

LEMMA SendingDaemon ==
  ASSUME Sending, RtosType, Daemon PROVE Sending'
  <1>1. /\ UNCHANGED <<txIdleEn, sent, asked, irqPc, cbStatus, txSemaphore>>
        /\ pended # <<>> /\ pended' = Tail(pended)
    BY DEF Daemon, driverVars, hwVars, enableVars, lineVars, txHist, irqVars
  <1>2. /\ Head(pended) = SentCommand =>
             Reported /\ (InQueueOnce(SentCommand) => ~Reported')
        /\ Head(pended) # SentCommand => (Reported' <=> Reported)
        /\ InQueueOnce(SentCommand) => InQueueOnce(SentCommand)'
    BY <1>1, QueueTakes DEF Reported
  <1>3. (Reporting' <=> Reporting) /\ (AllOut' <=> AllOut)
    BY <1>1 DEF Reporting, AllOut
  <1>4. Head(pended) \in Posts
    BY <1>1, DaemonTakes
  <1>5. CASE Head(pended).group = "rx" /\ UNCHANGED <<txEvent, spc>>
    <2>1. Head(pended) # SentCommand
      BY <1>5 DEF SentCommand, Command
    <2> QED BY <1>1, <1>2, <1>3, <1>5, <2>1, SendingFrame
  <1>6. CASE /\ Head(pended).group = "tx"
             /\ SetBits(txEvent, {Head(pended).bit}, spc)
    <2>1. Head(pended) = SentCommand /\ Head(pended).bit = COMPLETE
      BY <1>4, <1>6 DEF Posts, Command, SentCommand
    <2>2. Outgoing => /\ AllOut /\ ~Reporting /\ ~Reported' /\ ~SentBit
                      /\ InQueueOnce(SentCommand)'
      BY <1>2, <2>1 DEF Outgoing, NoReport, OneReport
    <2>3. ~NoReport
      BY <1>2, <2>1 DEF NoReport
    <2>4. CASE Blocked(spc) = {}
      <3>1. UNCHANGED spc /\ txEvent' = txEvent \cup {COMPLETE}
        BY <1>6, <2>1, <2>4 DEF SetBits
      <3>2. Outgoing => Outgoing'
        BY <1>3, <2>2 DEF Outgoing, OneReport
      <3>3. ASSUME NEW t \in Senders PROVE SendPhase(t)'
        <4>1. spc[t] # "blocked"
          BY <2>4 DEF Blocked, RtosType, RtosTypeOK
        <4> QED BY <2>3, <3>1, <3>2, <4>1 DEF Sending, SendPhase
      <3> QED BY <1>1, <2>3, <3>3 DEF Sending
    <2>5. ASSUME NEW t \in Senders, spc[t] = "blocked",
                 spc' = [spc EXCEPT ![t] = "woken"], txEvent' = {}
          PROVE  Sending'
      <3>1. Outgoing /\ txSemaphore = t /\ t # NoTask
        BY <2>5, RtosAssumption DEF Sending, SendPhase, RtosType, RtosTypeOK
      <3>2. NoReport' /\ AllOut'
        BY <1>3, <2>2, <2>5, <3>1 DEF NoReport, SentBit
      <3>3. spc'[t] = "woken"
        BY <2>5 DEF RtosType, RtosTypeOK
      <3>4. SendPhase(t)'
        BY <3>2, <3>3 DEF SendPhase
      <3>5. ASSUME NEW u \in Senders, u # t PROVE SendPhase(u)'
        BY <2>5, <3>5, OtherSenders
      <3> QED BY <3>2, <3>4, <3>5 DEF Sending
    <2>6. CASE Blocked(spc) # {}
      <3>1. PICK t \in Blocked(spc) :
              spc' = [spc EXCEPT ![t] = "woken"] /\ txEvent' = {}
        BY <1>6, <2>6 DEF SetBits
      <3>2. t \in Senders /\ spc[t] = "blocked"
        BY DEF Blocked, RtosType, RtosTypeOK
      <3> QED BY <2>5, <3>1, <3>2
    <2> QED BY <2>4, <2>6
  <1> QED BY <1>5, <1>6 DEF Daemon

\* The steps of a sender: it starts with nothing on its way and everything
\* out, and the bit that ends its wait was set when everything was out.
LEMMA SendingSender ==
  ASSUME Sending, RtosType, NEW t \in Senders, SendTake(t) \/ SendStep(t)
  PROVE  Sending'
  <1> USE DEF driverVars, irqVars, hwVars, enableVars, lineVars, hwButEnables,
              txHist
  <1>1. /\ SendPhase(t) /\ spc \in [Senders -> Pcs] /\ NoTask # t
        /\ spc[t] # "idle" <=> txSemaphore = t
        /\ txEvent \in SUBSET {COMPLETE}
    BY RtosAssumption DEF Sending, RtosType, RtosTypeOK
  <1>2. UNCHANGED <<pended, irqPc, cbStatus>>
    BY SenderStep
    DEF SendTake, SendStep, SendStart, SendInDriver, SendWait, SendGive, Sender,
        TxThread, TxGoto, Send, SendSetState, SendReadEnables,
        SendWriteEnables, AbortTxDisable, AbortTxEmpty, AbortTxSize,
        AbortTxState
  <1>3. /\ Reporting' <=> Reporting
        /\ Reported' <=> Reported
        /\ InQueueOnce(SentCommand)' <=> InQueueOnce(SentCommand)
    BY <1>2 DEF Reporting, Reported, InQueue, InQueueOnce
  <1>4. ~SendStart(t) => UNCHANGED <<txIdleEn, sent, asked>>
    BY DEF SendTake, SendStep, SendInDriver, SendWait, SendGive, SendSetState,
           SendReadEnables, SendWriteEnables
  <1>5. CASE SendTake(t)
    <2>1. /\ txSemaphore = NoTask /\ spc' = [spc EXCEPT ![t] = "call"]
          /\ UNCHANGED <<txIdleEn, sent, asked, txEvent>> /\ txSemaphore' = t
      BY <1>5 DEF SendTake, Sender
    <2>2. NoReport' /\ AllOut'
      BY <1>3, <2>1 DEF Sending, NoReport, AllOut, SentBit
    <2>3. SendPhase(t)'
      BY <1>1, <2>1, <2>2 DEF SendPhase
    <2> QED BY <1>1, <2>1, <2>3, OtherSenders DEF Sending
  <1>6. CASE SendStart(t)
    <2>1. /\ spc[t] = "call" /\ spc' = [spc EXCEPT ![t] = "in driver"]
          /\ UNCHANGED <<txEvent, txSemaphore>>
      BY <1>6 DEF SendStart, Sender
    <2>2. NoReport'
      BY <1>1, <1>3, <2>1 DEF SendPhase, NoReport, SentBit
    <2>3. SendPhase(t)'
      BY <1>1, <2>1, <2>2 DEF SendPhase, Outgoing
    <2> QED BY <1>1, <2>1, <2>2, <2>3, OtherSenders DEF Sending
  <1>7. CASE SendInDriver(t)
    <2>1. UNCHANGED <<txIdleEn, sent, asked, txEvent, txSemaphore>> /\ spc' = spc
      BY <1>1, <1>7
      DEF SendInDriver, Sender, SendSetState, SendReadEnables, SendWriteEnables
    <2> QED BY <1>3, <2>1, SendingFrame
  <1>8. CASE SendWait(t)
    <2>1. /\ spc[t] = "in driver" /\ Outgoing /\ txSemaphore' = txSemaphore
          /\ UNCHANGED <<txIdleEn, sent, asked>>
      BY <1>1, <1>8 DEF SendWait, SendPhase
    <2>2. CASE txEvent = {}
      <3>1. spc' = [spc EXCEPT ![t] = "blocked"] /\ txEvent' = {}
        BY <1>8, <2>2 DEF SendWait, WaitBits
      <3>2. Outgoing'
        BY <1>3, <2>1, <2>2, <3>1
        DEF Outgoing, NoReport, OneReport, SentBit, AllOut
      <3>3. SendPhase(t)'
        BY <1>1, <3>1, <3>2 DEF SendPhase
      <3> QED BY <1>1, <2>1, <3>1, <3>3, OtherSenders DEF Sending
    <2>3. CASE txEvent # {}
      <3>1. spc' = [spc EXCEPT ![t] = "woken"] /\ txEvent' = {}
        BY <1>8, <2>3 DEF SendWait, WaitBits
      <3>2. SentBit
        BY <1>1, <2>3 DEF SentBit
      <3>3. NoReport' /\ AllOut'
        BY <1>3, <2>1, <3>1, <3>2
        DEF Outgoing, NoReport, OneReport, SentBit, AllOut
      <3>4. SendPhase(t)'
        BY <1>1, <3>1, <3>3 DEF SendPhase
      <3> QED BY <1>1, <2>1, <3>1, <3>4, OtherSenders DEF Sending
    <2> QED BY <2>2, <2>3
  <1>9. CASE SendGive(t)
    <2>1. /\ spc[t] = "woken" /\ spc' = [spc EXCEPT ![t] = "idle"]
          /\ UNCHANGED <<txIdleEn, sent, asked, txEvent>>
          /\ txSemaphore' = NoTask
      BY <1>9 DEF SendGive, Sender
    <2>2. NoReport' /\ AllOut'
      BY <1>1, <1>3, <2>1 DEF SendPhase, NoReport, AllOut, SentBit
    <2>3. SendPhase(t)'
      BY <1>1, <2>1 DEF SendPhase
    <2> QED BY <2>1, <2>2, <2>3, OtherSenders DEF Sending
  <1> QED BY <1>5, <1>6, <1>7, <1>8, <1>9 DEF SendStep

LEMMA SendingInterrupt ==
  ASSUME SendInv, SendInv', RtosType, Sending, Interrupt PROVE Sending'
  <1>1. UNCHANGED <<spc, txEvent, txSemaphore>>
    BY DEF Interrupt, tasksVars
  <1>2. ASSUME NEW t \in Senders PROVE SendPhase(t)'
    BY <1>1, SendHandler DEF Sending, SendPhase
  <1> QED BY <1>1, <1>2, SendHandler DEF Sending

LEMMA SendingInit == RtosInit => Sending
  <1> SUFFICES ASSUME RtosInit PROVE Sending
    OBVIOUS
  <1>1. NoReport /\ AllOut
    BY DEF RtosInit, Init, HwInit, NoReport, Reporting, Reported, InQueue,
           SentBit, AllOut
  <1>2. \A t \in Senders : spc[t] = "idle"
    BY DEF RtosInit
  <1> QED BY <1>1, <1>2 DEF Sending, SendPhase

LEMMA SendingNext ==
  SendInv /\ SendInv' /\ RtosType /\ Sending /\ [RtosNext]_vars => Sending'
  <1> SUFFICES ASSUME SendInv, SendInv', RtosType, Sending, [RtosNext]_vars
               PROVE  Sending'
    OBVIOUS
  <1>1. ASSUME NEW t \in Receivers, ReceiveTake(t) \/ ReceiveStep(t)
        PROVE  Sending'
    BY <1>1, SendingReceiver
  <1>2. ASSUME NEW t \in Senders, SendTake(t) \/ SendStep(t) PROVE Sending'
    BY <1>2, SendingSender
  <1>3. CASE Daemon
    BY <1>3, SendingDaemon
  <1>4. CASE Interrupt
    BY <1>4, SendingInterrupt
  <1>5. CASE Device
    BY <1>5, SendingDevice
  <1>6. CASE UNCHANGED vars
    <2>1. UNCHANGED <<txIdleEn, sent, asked, txEvent, spc, txSemaphore, irqPc,
                      cbStatus, pended>>
      BY <1>6 DEF vars, driverVars, rtosVars, hwVars, enableVars, lineVars,
                  txHist, irqVars
    <2>2. /\ Reporting' <=> Reporting
          /\ Reported' <=> Reported
          /\ InQueueOnce(SentCommand)' <=> InQueueOnce(SentCommand)
      BY <2>1 DEF Reporting, Reported, InQueue, InQueueOnce
    <2> QED BY <2>1, <2>2, SendingFrame
  <1> QED BY <1>1, <1>2, <1>3, <1>4, <1>5, <1>6 DEF RtosNext

\* What holds of the senders in every reachable state.
LEMMA SendingInvariant ==
  ASSUME RingSize <= IndexMod
  PROVE  RtosSpec => [](SendInv /\ RtosType /\ Sending)
  <1>1. StaticRing
    BY RtosAssumption DEF StaticRing
  <1>2. RtosSpec => [](TypeInv /\ Sends)
    BY <1>1, WrapperImplementsDriver, SendInvariant, PTL
  <1>3. RtosInit => used["abortTx"] = 0
    BY DEF RtosInit, Init, Kinds
  <1>4. TypeInv /\ used["abortTx"] = 0 /\ [RtosNext]_vars
          => (used["abortTx"] = 0)'
    BY NeverAborted
  <1>5. RtosSpec => []SendInv
    BY <1>2, <1>3, <1>4, PTL DEF RtosSpec, SendInv
  <1>6. RtosInit => RtosType /\ Sending
    BY RtosTypeInit, SendingInit
  <1>7. SendInv /\ SendInv' /\ RtosType /\ Sending /\ [RtosNext]_vars
          => RtosType' /\ Sending'
    BY RtosTypeNext, SendingNext
  <1> QED BY <1>5, <1>6, <1>7, PTL DEF RtosSpec

\* USART_RTOS_Send returns only when every byte of its call is out on the
\* line: the bit that wakes it is never one that an earlier call left behind.
\* For any tasks and priorities, and any length of the daemon's queue.
THEOREM SendReturnIsTrue ==
  ASSUME RingSize <= IndexMod
  PROVE  RtosSpec => []SendReturnsSent
  <1>1. Sending => SendReturnsSent
    BY DEF Sending, SendPhase, AllOut, SendReturnsSent
  <1> QED BY <1>1, SendingInvariant, PTL

-----------------------------------------------------------------------------
(* A receiver that sleeps *)

\* Something is to come for the receivers: bytes of the request, the callback
\* for its end, or a command of either kind.
RxOnWay == \E i \in 1 .. Len(pended) : pended[i].group = "rx"
Expected == rxDataSize # 0 \/ Interrupting \/ RxOnWay

Waking ==
  /\ \A t \in Receivers :
       /\ rpc[t] = "in driver" =>
            rxPc = "recv_cb" \/ rxEvent # {} \/ Expected
       /\ rpc[t] = "blocked" => Expected
  /\ txSemaphore \in Senders \cup {NoTask}
  /\ \A t \in Senders :
       spc[t] \in {"idle", "call", "in driver", "blocked", "woken"}

\* Of the commands in the queue at most one is for a sender.
LEMMA OneForSenders ==
  ASSUME RtosType, Sending, Waking PROVE InQueueOnce(SentCommand)
  <1>1. NoReport => InQueueOnce(SentCommand)
    BY DEF NoReport, Reported, InQueue, InQueueOnce
  <1>2. CASE txSemaphore = NoTask
    BY <1>1, <1>2 DEF Sending
  <1>3. CASE txSemaphore \in Senders
    <2>1. spc[txSemaphore] \in {"call", "in driver", "blocked", "woken"}
      BY <1>3 DEF Waking, RtosType, RtosTypeOK
    <2> QED BY <1>1, <1>3, <2>1 DEF Sending, SendPhase, Outgoing, OneReport
  <1> QED BY <1>2, <1>3 DEF Waking

\* So that a full queue of two commands or more has one for the receivers.
LEMMA FullQueueWakes ==
  ASSUME RtosType, InQueueOnce(SentCommand), QueueLen >= 2,
         ~(Len(pended) < QueueLen)
  PROVE  RxOnWay
  <1>1. Len(pended) \in Nat /\ QueueLen \in Nat
        /\ \A i \in 1 .. Len(pended) : pended[i] \in Posts
    BY LenProperties, ElementOfSeq, RtosAssumption DEF RtosType
  <1>2. 1 \in 1 .. Len(pended) /\ 2 \in 1 .. Len(pended)
    BY <1>1
  <1>3. pended[1] # SentCommand \/ pended[2] # SentCommand
    BY <1>2 DEF InQueueOnce
  <1>4. \A c \in Posts : c # SentCommand => c.group = "rx"
    BY DEF Posts, SentCommand, Command
  <1> QED BY <1>1, <1>2, <1>3, <1>4 DEF RxOnWay

LEMMA PostingWakes ==
  ASSUME RtosType, NEW status, Callback(status)
  PROVE  /\ RxOnWay => RxOnWay'
         /\ status = "RxIdle" /\ Len(pended) < QueueLen => RxOnWay'
  <1>1. pended \in Seq(Posts) /\ Len(pended) \in Nat
    BY LenProperties DEF RtosType
  <1>2. CASE pended' = pended
    <2>1. RxOnWay => RxOnWay'
      BY <1>2 DEF RxOnWay
    <2>2. CommandFor("RxIdle") = <<Completed>>
      BY DEF CommandFor, Completed
    <2>3. Len(pended \o <<Completed>>) = Len(pended) + 1
      <3>1. Completed \in Posts
        BY DEF Completed, Posts
      <3>2. <<Completed>> \in Seq(Posts) /\ Len(<<Completed>>) = 1
        BY <3>1
      <3> QED BY <1>1, <3>2, ConcatProperties
    <2>4. ASSUME status = "RxIdle", Len(pended) < QueueLen PROVE FALSE
      <3>1. pended' = pended \o <<Completed>>
        BY <2>2, <2>4 DEF Callback
      <3>2. Len(pended) = Len(pended) + 1
        BY <3>1, <2>3, <1>2
      <3> QED BY <3>2, <1>1
    <2> QED BY <2>1, <2>4
  <1>3. ASSUME NEW d \in Posts, CommandFor(status) = <<d>>,
               pended' = pended \o <<d>>
        PROVE  /\ RxOnWay => RxOnWay'
               /\ status = "RxIdle" => RxOnWay'
    <2>1. pended' = Append(pended, d)
      BY <1>1, <1>3, AppendIsConcat
    <2>2. /\ Len(pended') = Len(pended) + 1
          /\ \A i \in 1 .. Len(pended) : pended'[i] = pended[i]
          /\ pended'[Len(pended) + 1] = d
      BY <1>1, <2>1, AppendProperties
    <2>3. status = "RxIdle" => d.group = "rx"
      BY <1>3 DEF CommandFor, Command
    <2> QED BY <1>1, <2>2, <2>3 DEF RxOnWay
  <1>4. pended \o <<>> = pended
    BY <1>1, ConcatEmptySeq
  <1> QED BY <1>2, <1>3, <1>4, CommandCases DEF Callback

LEMMA TakingLeaves ==
  ASSUME RtosType, pended # <<>>, pended' = Tail(pended),
         Head(pended).group # "rx"
  PROVE  RxOnWay => RxOnWay'
  <1>1. /\ Len(pended) \in Nat \ {0} /\ Len(pended') = Len(pended) - 1
        /\ Head(pended) = pended[1]
        /\ \A i \in 1 .. Len(pended') : pended'[i] = pended[i + 1]
    BY DaemonTakes
  <1>2. \A i \in 1 .. Len(pended) :
          i # 1 => i - 1 \in 1 .. Len(pended') /\ pended'[i - 1] = pended[i]
    BY <1>1
  <1> QED BY <1>1, <1>2 DEF RxOnWay

\* The handler stores the bytes of a request; the last one brings its callback.
LEMMA HandlerWakes ==
  ASSUME DriverInv, RtosType, Sending, Waking, QueueLen >= 2, Interrupt
  PROVE  Expected => Expected'
  <1> USE DEF IrqGoto, rxVars
  <1>1. Irq /\ rxDataSize \in Nat
    BY RequestTypes DEF Interrupt
  <1>2. CASE irqPc # "callback"
    <2>1. pended' = pended /\ ~Interrupting
      BY <1>2 DEF Interrupt, Interrupting
    <2>2. RxOnWay => RxOnWay'
      BY <2>1 DEF RxOnWay
    <2>3. rxDataSize # 0 => rxDataSize' # 0 \/ Interrupting'
      <3>1. CASE IrqRecvUser
        BY <1>1, <3>1 DEF IrqRecvUser, LastRx, Interrupting
      <3>2. CASE ~IrqRecvUser
        BY <1>1, <3>2
        DEF Irq, IrqEnter, IrqRecvRing, IrqRingPut, IrqSend, IrqTxIdle,
            IrqExit, IrqCallback
      <3> QED BY <3>1, <3>2
    <2> QED BY <2>1, <2>2, <2>3 DEF Expected
  <1>3. CASE irqPc = "callback"
    <2>1. Callback(cbStatus)
      BY <1>3 DEF Interrupt
    <2>2. rxDataSize' = rxDataSize
      BY <1>1, <1>3, HandlerEffect
    <2>3. (RxOnWay => RxOnWay') /\ (Interrupting => RxOnWay')
      <3>1. CASE Len(pended) < QueueLen
        BY <2>1, <3>1, PostingWakes DEF Interrupting
      <3>2. CASE ~(Len(pended) < QueueLen)
        BY <2>1, <3>2, PostingWakes, OneForSenders, FullQueueWakes
      <3> QED BY <3>1, <3>2
    <2> QED BY <2>2, <2>3 DEF Expected
  <1> QED BY <1>2, <1>3

\* What leaves the receivers and what they wait for alone.
LEMMA WakingFrame ==
  ASSUME Waking, UNCHANGED <<rpc, rxPc, rxEvent>>, Expected => Expected',
         txSemaphore' \in Senders \cup {NoTask},
         \A t \in Senders :
           spc'[t] \in {"idle", "call", "in driver", "blocked", "woken"}
  PROVE  Waking'
  BY DEF Waking

LEMMA SameExpected ==
  ASSUME UNCHANGED <<rxDataSize, irqPc, cbStatus, pended>>
  PROVE  (Expected => Expected') /\ (Interrupting => Interrupting')
         /\ (RxOnWay => RxOnWay')
  BY DEF Expected, Interrupting, RxOnWay

LEMMA WakingSender ==
  ASSUME Waking, RtosType, NEW s \in Senders, SendTake(s) \/ SendStep(s)
  PROVE  Waking'
  <1>1. UNCHANGED <<pended, rxEvent, rpc>>
    BY DEF SendTake, SendStep, SendStart, SendInDriver, SendWait, SendGive,
           Sender
  <1>2. UNCHANGED <<rxDataSize, rxPc, irqPc, cbStatus>>
    BY SenderStep DEF TxThread, TxGoto, Send, SendSetState, SendReadEnables,
       SendWriteEnables, AbortTxDisable, AbortTxEmpty, AbortTxSize,
       AbortTxState, driverVars, rxVars, irqVars, threadVars
  <1>3. txSemaphore' \in {txSemaphore, s, NoTask}
    BY DEF SendTake, SendStep, SendStart, SendInDriver, SendWait, SendGive
  <1>4. PICK pc \in {"idle", "call", "in driver", "blocked", "woken"} :
          spc' = [spc EXCEPT ![s] = pc]
    BY DEF SendTake, SendStep, SendStart, SendInDriver, SendWait, SendGive,
           Sender, WaitBits
  <1>5. \A t \in Senders :
          spc'[t] \in {"idle", "call", "in driver", "blocked", "woken"}
    BY <1>4 DEF Waking, RtosType, RtosTypeOK
  <1> QED BY <1>1, <1>2, <1>3, <1>5, SameExpected, WakingFrame DEF Waking

LEMMA WakingDaemon ==
  ASSUME Waking, RtosType, Daemon PROVE Waking'
  <1>1. /\ UNCHANGED <<rxDataSize, rxPc, irqPc, cbStatus, txSemaphore>>
        /\ pended # <<>> /\ pended' = Tail(pended)
    BY DEF Daemon, driverVars, rxVars, threadVars, irqVars
  <1>2. Interrupting => Interrupting'
    BY <1>1 DEF Interrupting
  <1>3. CASE /\ Head(pended).group = "rx" /\ UNCHANGED spc
             /\ SetBits(rxEvent, {Head(pended).bit}, rpc)
    <2>1. CASE Blocked(rpc) = {}
      <3>1. UNCHANGED rpc /\ rxEvent' # {}
        BY <1>3, <2>1 DEF SetBits
      <3>2. \A t \in Receivers : rpc[t] # "blocked"
        BY <2>1 DEF Blocked, RtosType, RtosTypeOK
      <3> QED BY <1>1, <1>3, <3>1, <3>2 DEF Waking
    <2>2. ASSUME NEW t \in Receivers, rpc[t] = "blocked",
                 rpc' = [rpc EXCEPT ![t] = "woken"]
          PROVE  Waking'
      <3>1. \A u \in Receivers : rpc'[u] \in {"woken", "idle"}
        BY <2>2, OneReceiver DEF RtosType, RtosTypeOK
      <3> QED BY <1>1, <1>3, <3>1 DEF Waking
    <2>3. CASE Blocked(rpc) # {}
      <3>1. PICK t \in Blocked(rpc) : rpc' = [rpc EXCEPT ![t] = "woken"]
        BY <1>3, <2>3 DEF SetBits
      <3>2. t \in Receivers /\ rpc[t] = "blocked"
        BY DEF Blocked, RtosType, RtosTypeOK
      <3> QED BY <2>2, <3>1, <3>2
    <2> QED BY <2>1, <2>3
  <1>4. CASE /\ Head(pended).group = "tx" /\ UNCHANGED <<rxEvent, rpc>>
             /\ SetBits(txEvent, {Head(pended).bit}, spc)
    <2>1. Expected => Expected'
      BY <1>1, <1>2, <1>4, TakingLeaves DEF Expected
    <2>2. \A t \in Senders :
            spc'[t] \in {"idle", "call", "in driver", "blocked", "woken"}
      BY <1>4 DEF SetBits, Waking, Blocked, RtosType, RtosTypeOK
    <2> QED BY <1>1, <1>4, <2>1, <2>2, WakingFrame DEF Waking
  <1> QED BY <1>3, <1>4 DEF Daemon

\* A receiver starts a request that lacks bytes or calls back itself, and
\* goes to sleep only while the event group is empty.
LEMMA WakingReceiver ==
  ASSUME DriverInv, RtosType, Sending, Waking, QueueLen >= 2,
         NEW t \in Receivers, ReceiveTake(t) \/ ReceiveStep(t)
  PROVE  Waking'
  <1>1. UNCHANGED <<txSemaphore, spc>>
    BY DEF ReceiveTake, ReceiveStep, ReceiveStart, ReceiveCallback, ReceiveWait,
           ReceiveAbort, ReceiveAborted, ReceiveClear, ReceiveDone,
           ReceiveGive, Receiver
  <1>2. PICK pc : rpc' = [rpc EXCEPT ![t] = pc]
    BY DEF ReceiveTake, ReceiveStep, ReceiveStart, ReceiveCallback, ReceiveWait,
           ReceiveAbort, ReceiveAborted, ReceiveClear, ReceiveDone,
           ReceiveGive, Receiver, WaitBits
  <1>3. ASSUME NEW u \in Receivers, u # t PROVE rpc'[u] = "idle"
    <2>1. rpc[t] # "idle" \/ rxSemaphore = NoTask
      BY DEF ReceiveTake, ReceiveStep, ReceiveStart, ReceiveCallback,
             ReceiveWait, ReceiveAbort, ReceiveAborted, ReceiveClear,
             ReceiveDone, ReceiveGive, Receiver, RxSemaphoreFree
    <2>2. rpc[u] = "idle"
      BY <1>3, <2>1, RtosAssumption DEF RtosType, RtosTypeOK
    <2> QED BY <1>2, <1>3, <2>2 DEF RtosType, RtosTypeOK
  <1>4. rpc'[t] = pc
    BY <1>2 DEF RtosType, RtosTypeOK
  <1>5. ASSUME /\ rpc'[t] = "in driver" =>
                    (rxPc = "recv_cb" \/ rxEvent # {} \/ Expected)'
               /\ rpc'[t] = "blocked" => Expected'
        PROVE  Waking'
    BY <1>1, <1>3, <1>5 DEF Waking
  <1>6. CASE ReceiveStart(t)
    <2>1. ASSUME NEW len \in 1 .. MaxLen, RecvFromRing(len)
          PROVE  rxPc' = "recv_cb" \/ rxDataSize' # 0
      BY <2>1, StartEffect
    <2>2. RecvBusy => rxDataSize' # 0
      BY RingIsUsed DEF RecvBusy, driverVars, rxVars
    <2>3. rpc'[t] = "in driver"
      BY <1>6 DEF ReceiveStart, Receiver, RtosType, RtosTypeOK
    <2> QED BY <1>5, <1>6, <2>1, <2>2, <2>3 DEF ReceiveStart, Expected
  <1>7. CASE ReceiveCallback(t)
    <2>1. Callback("RxIdle") /\ rpc'[t] = "in driver"
      BY <1>7 DEF ReceiveCallback, Receiver, RtosType, RtosTypeOK
    <2>2. RxOnWay'
      <3>1. CASE Len(pended) < QueueLen
        BY <2>1, <3>1, PostingWakes
      <3>2. CASE ~(Len(pended) < QueueLen)
        BY <2>1, <3>2, PostingWakes, OneForSenders, FullQueueWakes
      <3> QED BY <3>1, <3>2
    <2> QED BY <1>5, <2>1, <2>2 DEF Expected
  <1>8. CASE ReceiveWait(t)
    <2>1. rpc[t] = "in driver" /\ rxPc = "idle"
          /\ UNCHANGED <<rxDataSize, irqPc, cbStatus, pended>>
      BY <1>8 DEF ReceiveWait, driverVars, rxVars, irqVars
    <2>2. CASE rxEvent = {}
      <3>1. rpc'[t] = "blocked"
        BY <1>8, <2>2 DEF ReceiveWait, WaitBits, RtosType, RtosTypeOK
      <3> QED BY <1>5, <2>1, <2>2, <3>1, SameExpected DEF Waking
    <2>3. CASE rxEvent # {}
      <3>1. rpc'[t] = "woken"
        BY <1>8, <2>3 DEF ReceiveWait, WaitBits, RtosType, RtosTypeOK
      <3> QED BY <1>5, <3>1
    <2> QED BY <2>2, <2>3
  <1>9. CASE \/ ReceiveTake(t) \/ ReceiveAbort(t) \/ ReceiveAborted(t)
             \/ ReceiveClear(t) \/ ReceiveDone(t) \/ ReceiveGive(t)
    <2>1. rpc'[t] \in {"call", "aborting", "clear", "give", "idle"}
      BY <1>9
      DEF ReceiveTake, ReceiveAbort, ReceiveAborted, ReceiveClear, ReceiveDone,
          ReceiveGive, Receiver, RtosType, RtosTypeOK
    <2> QED BY <1>5, <2>1
  <1> QED BY <1>6, <1>7, <1>8, <1>9 DEF ReceiveStep

LEMMA WakingNext ==
  ASSUME DriverInv, RtosType, Sending, Waking, QueueLen >= 2, [RtosNext]_vars
  PROVE  Waking'
  <1>1. CASE Interrupt
    <2>1. UNCHANGED <<rpc, rxPc, rxEvent, spc, txSemaphore>>
      BY <1>1, HandlerEffect DEF Interrupt, tasksVars
    <2> QED BY <1>1, <2>1, HandlerWakes, WakingFrame DEF Waking
  <1>2. CASE Device \/ UNCHANGED vars
    <2>1. UNCHANGED <<rpc, rxPc, rxEvent, spc, txSemaphore, rxDataSize, irqPc,
                      cbStatus, pended>>
      BY <1>2 DEF Device, Hardware, tasksVars, rxVars, threadVars, irqVars,
                  vars, driverVars, rtosVars
    <2> QED BY <2>1, SameExpected, WakingFrame DEF Waking
  <1>3. CASE Daemon
    BY <1>3, WakingDaemon
  <1>4. ASSUME NEW t \in Receivers, ReceiveTake(t) \/ ReceiveStep(t)
        PROVE  Waking'
    BY <1>4, WakingReceiver
  <1>5. ASSUME NEW t \in Senders, SendTake(t) \/ SendStep(t) PROVE Waking'
    BY <1>5, WakingSender
  <1> QED BY <1>1, <1>2, <1>3, <1>4, <1>5 DEF RtosNext

\* A receiver that sleeps has a request open, or a command on its way to it:
\* a queue of two commands may refuse the completion of a request, but then it
\* holds an overrun, because a sender has at most one command in it.  For any
\* tasks, priorities and ring.
THEOREM SleepersAreWoken ==
  ASSUME RingSize <= IndexMod, QueueLen >= 2
  PROVE  RtosSpec => []BlockedReceiverIsWoken
  <1>1. StaticRing
    BY RtosAssumption DEF StaticRing
  <1>2. RtosSpec => []DriverInv
    BY <1>1, WrapperImplementsDriver, RequestInvariant, PTL DEF DriverInv
  <1>3. RtosInit => Waking
    <2> SUFFICES ASSUME RtosInit PROVE Waking
      OBVIOUS
    <2>1. /\ \A t \in Receivers : rpc[t] = "idle"
          /\ \A t \in Senders : spc[t] = "idle"
          /\ txSemaphore = NoTask
      BY DEF RtosInit
    <2> QED BY <2>1 DEF Waking
  <1>4. DriverInv /\ RtosType /\ Sending /\ Waking /\ [RtosNext]_vars => Waking'
    BY WakingNext
  <1>5. RtosType /\ Waking => BlockedReceiverIsWoken
    <2> SUFFICES ASSUME RtosType, Waking, Blocked(rpc) # {}
                 PROVE  \/ rxDataSize # 0
                        \/ irqPc = "callback" /\ cbStatus = "RxIdle"
                        \/ \E i \in DOMAIN pended : pended[i].group = "rx"
      BY DEF BlockedReceiverIsWoken
    <2>1. Expected
      BY DEF Waking, Blocked, RtosType, RtosTypeOK
    <2>2. DOMAIN pended = 1 .. Len(pended)
      BY LenProperties DEF RtosType
    <2> QED BY <2>1, <2>2 DEF Expected, Interrupting, RxOnWay
  <1> QED BY <1>2, <1>3, <1>4, <1>5, SendingInvariant, PTL DEF RtosSpec
=============================================================================
