----------------------------- MODULE UsartRtos -----------------------------
(***************************************************************************)
(* fsl_usart_freertos.c on top of the driver: tasks call USART_RTOS_Send   *)
(* and USART_RTOS_Receive, which serialise on a mutex, start a transfer    *)
(* and wait for an event bit.  The driver's callback does not set the bit: *)
(* xEventGroupSetBitsFromISR posts a command to the queue of the timer     *)
(* daemon, and is refused when that queue is full.                         *)
(*                                                                         *)
(* The ring buffer is always used (USART_RTOS_Init starts it).             *)
(***************************************************************************)
EXTENDS UsartDriver, FiniteSets

CONSTANTS Receivers,       \* tasks that call USART_RTOS_Receive
          Senders,         \* tasks that call USART_RTOS_Send
          NoTask,          \* the mutex is free
          QueueLen,        \* configTIMER_QUEUE_LENGTH
          DaemonPreempts,  \* the daemon has a priority above every task
          MaxCalls         \* bound: calls of each function

ASSUME RtosAssumption ==
  /\ NoTask \notin Receivers \cup Senders
  /\ QueueLen \in Nat \ {0} /\ DaemonPreempts \in BOOLEAN /\ MaxCalls \in Nat
  /\ RingMode = "always"

VARIABLES rxSemaphore, txSemaphore,  \* the task that holds the mutex
          rxEvent, txEvent,          \* bits of the event groups
          pended,                    \* the daemon's command queue
          rpc, spc,                  \* where each task is
          ev,                        \* bits a task's wait returned
          rxTransfer,                \* each receiver's call: where the stream
                                     \* stood, and how much it wants
          made                       \* history: calls of each function

rtosVars == <<rxSemaphore, txSemaphore, rxEvent, txEvent, pended, rpc, spc, ev,
              rxTransfer, made>>
vars == <<driverVars, rtosVars>>

COMPLETE == "RTOS_USART_COMPLETE"
RING_BUFFER_OVERRUN == "RTOS_USART_RING_BUFFER_OVERRUN"
Bits == {COMPLETE, RING_BUFFER_OVERRUN}
Command(group, bit) == [group |-> group, bit |-> bit]
Commands == [group : {"rx", "tx"}, bit : Bits]
Pcs == {"idle", "call", "in driver", "blocked", "woken", "aborting", "clear",
        "give"}

RtosInit ==
  /\ Init
  /\ rxSemaphore = NoTask /\ txSemaphore = NoTask
  /\ rxEvent = {} /\ txEvent = {} /\ pended = <<>>
  /\ rpc = [t \in Receivers |-> "idle"] /\ spc = [t \in Senders |-> "idle"]
  /\ ev = [t \in Receivers \cup Senders |-> {}]
  /\ rxTransfer = [t \in Receivers |-> [start |-> 0, len |-> 0]]
  /\ made = [f \in {"Send", "Receive"} |-> 0]

\* Tasks run when no interrupt does, nor the daemon if it is above them.
TasksRun == Runs /\ (DaemonPreempts => pended = <<>>)

\* Wrong variants of operators below, used by no definition.
CommandForSwapped(status) ==
  CASE status = "RxIdle" -> <<Command("tx", COMPLETE)>>
    [] status = "TxIdle" -> <<Command("rx", COMPLETE)>>
    [] OTHER -> <<>>
RxSemaphoreFreeIgnored == TRUE
ClearedBitsNone == {}

\* USART_RTOS_Callback: the command it posts; RxError posts none.  A command
\* that finds the queue full is lost (xResult is pdFAIL).
CommandFor(status) ==
  CASE status = "RxIdle" -> <<Command("rx", COMPLETE)>>
    [] status = "TxIdle" -> <<Command("tx", COMPLETE)>>
    [] status = "RxRingBufferOverrun" ->
         <<Command("rx", RING_BUFFER_OVERRUN)>>
    [] OTHER -> <<>>

Callback(status) ==
  pended' = IF Len(pended) < QueueLen THEN pended \o CommandFor(status)
                                      ELSE pended

-----------------------------------------------------------------------------
(* The timer daemon (external): vEventGroupSetBitsCallback.  A task that    *)
(* waits gets the bits, and they are cleared, when they are set.            *)

Blocked(pc) == {t \in DOMAIN pc : pc[t] = "blocked"}

SetBits(group, bits, pc) ==
  IF Blocked(pc) = {}
  THEN UNCHANGED <<pc, ev>> /\ group' = group \cup bits
  ELSE \E t \in Blocked(pc) :
         /\ pc' = [pc EXCEPT ![t] = "woken"]
         /\ ev' = [ev EXCEPT ![t] = group \cup bits]
         /\ group' = {}

Daemon ==
  /\ Runs /\ pended # <<>>
  /\ pended' = Tail(pended)
  /\ \/ /\ Head(pended).group = "rx"
        /\ SetBits(rxEvent, {Head(pended).bit}, rpc)
        /\ UNCHANGED <<txEvent, spc>>
     \/ /\ Head(pended).group = "tx"
        /\ SetBits(txEvent, {Head(pended).bit}, spc)
        /\ UNCHANGED <<rxEvent, rpc>>
  /\ UNCHANGED <<driverVars, rxSemaphore, txSemaphore, rxTransfer, made>>

-----------------------------------------------------------------------------
(* USART_RTOS_Receive *)

Receiver(t, from, to) ==
  /\ TasksRun /\ rpc[t] = from /\ rpc' = [rpc EXCEPT ![t] = to]
  /\ UNCHANGED <<txSemaphore, txEvent, spc>>

RxSemaphoreFree == rxSemaphore = NoTask

\* xSemaphoreTake(rxSemaphore, portMAX_DELAY) waits until the mutex is free.
ReceiveTake(t) ==
  /\ RxSemaphoreFree /\ made["Receive"] < MaxCalls
  /\ Receiver(t, "idle", "call")
  /\ rxSemaphore' = t
  /\ made' = [made EXCEPT !["Receive"] = @ + 1]
  /\ UNCHANGED <<driverVars, rxEvent, pended, ev, rxTransfer>>

\* The status of USART_TransferReceiveNonBlocking is not looked at.
ReceiveStart(t) ==
  /\ Receiver(t, "call", "in driver")
  /\ \E len \in 1 .. MaxLen :
       /\ RecvFromRing(len) \/ RecvBusy
       /\ rxTransfer' =
            [rxTransfer EXCEPT ![t] = [start |-> Len(received), len |-> len]]
  /\ UNCHANGED <<rxSemaphore, rxEvent, pended, ev, made>>

\* The callback that ReceiveNonBlocking makes itself.
ReceiveCallback(t) ==
  /\ Receiver(t, "in driver", "in driver")
  /\ RecvCallback /\ Callback("RxIdle")
  /\ UNCHANGED <<rxSemaphore, rxEvent, ev, rxTransfer, made>>

\* xEventGroupWaitBits for either bit, clearing both on exit.
WaitBits(t, group, pc) ==
  IF group = {}
  THEN pc' = [pc EXCEPT ![t] = "blocked"] /\ UNCHANGED <<group, ev>>
  ELSE /\ pc' = [pc EXCEPT ![t] = "woken"]
       /\ ev' = [ev EXCEPT ![t] = group] /\ group' = {}

ReceiveWait(t) ==
  /\ TasksRun /\ rpc[t] = "in driver" /\ rxPc = "idle"
  /\ WaitBits(t, rxEvent, rpc)
  /\ UNCHANGED <<driverVars, rxSemaphore, txSemaphore, txEvent, pended, spc,
                 rxTransfer, made>>

\* On an overrun, AbortReceive and then xEventGroupClearBits.
ReceiveAbort(t) ==
  /\ RING_BUFFER_OVERRUN \in ev[t]
  /\ Receiver(t, "woken", "aborting")
  /\ AbortRxDisable
  /\ UNCHANGED <<rxSemaphore, rxEvent, pended, ev, rxTransfer, made>>

ReceiveAborted(t) ==
  /\ Receiver(t, "aborting", "clear")
  /\ AbortRxEnd
  /\ UNCHANGED <<rxSemaphore, rxEvent, pended, ev, rxTransfer, made>>

ClearedBits == {COMPLETE}

ReceiveClear(t) ==
  /\ Receiver(t, "clear", "give")
  /\ rxEvent' = rxEvent \ ClearedBits
  /\ UNCHANGED <<driverVars, rxSemaphore, pended, ev, rxTransfer, made>>

ReceiveDone(t) ==
  /\ RING_BUFFER_OVERRUN \notin ev[t]
  /\ Receiver(t, "woken", "give")
  /\ UNCHANGED <<driverVars, rxSemaphore, rxEvent, pended, ev, rxTransfer,
                 made>>

ReceiveGive(t) ==
  /\ Receiver(t, "give", "idle")
  /\ rxSemaphore' = NoTask
  /\ ev' = [ev EXCEPT ![t] = {}]
  /\ UNCHANGED <<driverVars, rxEvent, pended, rxTransfer, made>>

-----------------------------------------------------------------------------
(* USART_RTOS_Send *)

Sender(t, from, to) ==
  /\ TasksRun /\ spc[t] = from /\ spc' = [spc EXCEPT ![t] = to]
  /\ UNCHANGED <<rxSemaphore, rxEvent, rpc, pended, rxTransfer>>

\* xSemaphoreTake(txSemaphore, 0): when the mutex is taken the call returns
\* kStatus_Fail and nothing changes.
SendTake(t) ==
  /\ txSemaphore = NoTask /\ made["Send"] < MaxCalls
  /\ Sender(t, "idle", "call")
  /\ txSemaphore' = t
  /\ made' = [made EXCEPT !["Send"] = @ + 1]
  /\ UNCHANGED <<driverVars, txEvent, ev>>

SendStart(t) ==
  /\ Sender(t, "call", "in driver")
  /\ SendBusy \/ \E len \in 1 .. MaxLen : Send(len)
  /\ UNCHANGED <<txSemaphore, txEvent, ev, made>>

SendInDriver(t) ==
  /\ Sender(t, "in driver", "in driver")
  /\ SendSetState \/ SendReadEnables \/ SendWriteEnables
  /\ UNCHANGED <<txSemaphore, txEvent, ev, made>>

SendWait(t) ==
  /\ TasksRun /\ spc[t] = "in driver" /\ txPc = "idle"
  /\ WaitBits(t, txEvent, spc)
  /\ UNCHANGED <<driverVars, rxSemaphore, txSemaphore, rxEvent, pended, rpc,
                 rxTransfer, made>>

SendGive(t) ==
  /\ Sender(t, "woken", "idle")
  /\ txSemaphore' = NoTask
  /\ ev' = [ev EXCEPT ![t] = {}]
  /\ UNCHANGED <<driverVars, txEvent, made>>

-----------------------------------------------------------------------------
(* The handler, with the callback of the wrapper, and the hardware. *)

tasksVars == <<rxSemaphore, txSemaphore, rxEvent, txEvent, rpc, spc, ev,
               rxTransfer, made>>

Interrupt ==
  /\ IF irqPc = "callback" THEN Callback(cbStatus) ELSE UNCHANGED pended
  /\ Irq
  /\ UNCHANGED tasksVars

Device == Hardware /\ UNCHANGED <<tasksVars, pended>>

ReceiveStep(t) ==
  \/ ReceiveStart(t) \/ ReceiveCallback(t) \/ ReceiveWait(t)
  \/ ReceiveAbort(t) \/ ReceiveAborted(t) \/ ReceiveClear(t)
  \/ ReceiveDone(t) \/ ReceiveGive(t)

SendStep(t) ==
  SendStart(t) \/ SendInDriver(t) \/ SendWait(t) \/ SendGive(t)

RtosNext ==
  \/ \E t \in Receivers : ReceiveTake(t) \/ ReceiveStep(t)
  \/ \E t \in Senders : SendTake(t) \/ SendStep(t)
  \/ Daemon \/ Interrupt \/ Device

RtosSpec == RtosInit /\ [][RtosNext]_vars

\* Calls once begun go on when they can; so do the handler, the daemon and
\* the shifter.
RtosFairSpec ==
  /\ RtosSpec
  /\ WF_vars(Interrupt) /\ WF_vars(Daemon)
  /\ WF_vars((Shift \/ ShiftDone) /\ Device)
  /\ \A t \in Receivers : WF_vars(ReceiveStep(t))
  /\ \A t \in Senders : WF_vars(SendStep(t))
=============================================================================
