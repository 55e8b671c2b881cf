---------------------------- MODULE UsartDriver ----------------------------
(***************************************************************************)
(* The transactional interface of fsl_usart.c for one instance: a thread   *)
(* that calls the receive functions, a thread that calls the send          *)
(* functions, and the interrupt handler USART_TransferHandleIRQ.           *)
(*                                                                         *)
(* A thread runs one shared access at a time and only while no interrupt   *)
(* is pending or in service (Runs); the handler runs to its end, with the  *)
(* hardware moving between its steps.  A section under DisableGlobalIRQ is *)
(* one step: the hardware then touches only its FIFOs.                     *)
(***************************************************************************)
EXTENDS UsartHardware, RxRingBuffer

CONSTANTS RingMode,     \* "none": no ring buffer; "always": started once
                        \* before use; "dynamic": started and stopped at will
          RingSize,     \* ringBufferSize given to StartRingBuffer
          RxWatermark,  \* FIFOTRIG.RXLVL, from usart_config_t
          MaxLen,       \* bound: xfer->dataSize
          MaxRecv,      \* bound: accepted receive requests
          MaxSend,      \* bound: accepted send requests
          MaxAbortRx,   \* bound: calls of AbortReceive
          MaxAbortTx    \* bound: calls of AbortSend

ASSUME DriverAssumption ==
  /\ RingMode \in {"none", "always", "dynamic"}
  /\ RingSize \in Nat \ {0}
  /\ RxWatermark \in Nat /\ RxWatermark < FifoSize
  /\ MaxLen \in Nat /\ MaxRecv \in Nat /\ MaxSend \in Nat
  /\ MaxAbortRx \in Nat /\ MaxAbortTx \in Nat

\* The fields of usart_handle_t.  rxData is not kept: the bytes a request
\* gets are those appended to received since it was made.
VARIABLES rxDataSize, rxDataSizeAll, rxState,
          rxRingBuffer,       \* rxRingBuffer # NULL
          rxRingBufferSize, rxRingBufferHead, rxRingBufferTail,
          ringData,           \* the bytes in the caller's ring buffer
          txData,             \* number of the next byte to send
          txDataSize, txDataSizeAll, txState

\* Program counters and locals.
VARIABLES rxPc, rxSnap,       \* receiving thread; FIFOINTENSET as it read it
          txPc, txSnap,       \* sending thread
          irqPc, receiveEnabled, sendEnabled, cbStatus

\* History.
VARIABLES received,   \* bytes stored into the buffers of the requests
          flushed,    \* bytes discarded by EMPTYRX or StopRingBuffer
          overrun,    \* oldest bytes overwritten in the ring
          request,    \* the last accepted receive request
          asked,      \* bytes of all the accepted send requests
          calls,      \* callbacks made, by status
          used        \* requests and aborts made so far

rxVars == <<rxDataSize, rxDataSizeAll, rxState>>
ringVars == <<rxRingBuffer, rxRingBufferSize, rxRingBufferHead,
              rxRingBufferTail, ringData>>
txVars == <<txData, txDataSize, txDataSizeAll, txState>>
irqVars == <<irqPc, receiveEnabled, sendEnabled, cbStatus>>
rxHist == <<received, flushed, overrun, request>>
txHist == <<asked>>
threadVars == <<rxPc, rxSnap, txPc, txSnap>>
driverVars == <<hwVars, rxVars, ringVars, txVars, threadVars, irqVars,
                rxHist, txHist, calls, used>>

Statuses == {"RxIdle", "RxError", "RxRingBufferOverrun", "TxIdle"}
NoStatus == "none"
Kinds == {"recv", "send", "abortRx", "abortTx"}
RxPcs == {"idle", "recv_state", "recv_read", "recv_write", "recv_cb",
          "abort_empty", "abort_end",
          "start_size", "start_head", "start_tail", "start_read",
          "start_write", "stop_ring"}
TxPcs == {"idle", "send_state", "send_read", "send_write",
          "abort_empty", "abort_size", "abort_state"}
IrqPcs == {"off", "recv", "ring", "send", "trig", "callback"}

RingLength ==
  RxRingBufferLength(rxRingBufferHead, rxRingBufferTail, rxRingBufferSize)
RingFull ==
  IsRxRingBufferFull(rxRingBufferHead, rxRingBufferTail, rxRingBufferSize)
InRing ==
  RingContents(ringData, rxRingBufferHead, rxRingBufferTail, rxRingBufferSize)

\* A thread executes: no interrupt is in service and none is waiting.
Runs == irqPc = "off" /\ ~IrqPending

-----------------------------------------------------------------------------
\* USART_Init and USART_TransferCreateHandle have run and, in mode "always",
\* USART_TransferStartRingBuffer too.
Init ==
  /\ HwInit(IF RingMode = "always" THEN {"RXLVL", "RXERR"} ELSE {},
            RxWatermark)
  /\ rxDataSize = 0 /\ rxDataSizeAll = 0 /\ rxState = "idle"
  /\ txData = 1 /\ txDataSize = 0 /\ txDataSizeAll = 0 /\ txState = "idle"
  /\ rxRingBuffer = (RingMode = "always")
  /\ rxRingBufferSize = (IF RingMode = "always" THEN RingSize ELSE 0)
  /\ rxRingBufferHead = 0 /\ rxRingBufferTail = 0
  /\ ringData = [i \in 0 .. RingSize - 1 |-> 0]
  /\ rxPc = "idle" /\ rxSnap = {} /\ txPc = "idle" /\ txSnap = {}
  /\ irqPc = "off" /\ receiveEnabled = FALSE /\ sendEnabled = FALSE
  /\ cbStatus = NoStatus
  /\ received = <<>> /\ flushed = 0 /\ overrun = 0
  /\ request = [start |-> 0, len |-> 0]
  /\ asked = 0
  /\ calls = [s \in Statuses |-> 0]
  /\ used = [k \in Kinds |-> 0]

\* A call of kind k, of which the bound allows so many.
Use(k, bound) == used[k] < bound /\ used' = [used EXCEPT ![k] = @ + 1]

\* handle->callback(base, handle, s, handle->userData).
Notify(s) == calls' = [calls EXCEPT ![s] = @ + 1]

-----------------------------------------------------------------------------
(***************************************************************************)
(* Wrong variants of operators below, used by no definition.  Each is a    *)
(* slip this code could have had; a property that is worth stating fails   *)
(* when one of them takes the place of its original.                       *)
(***************************************************************************)
CopyOnlyIfEnough(len) == IF len <= RingLength THEN len ELSE 0
LastRxEarly == rxDataSize <= 2
LastRxLate == rxDataSize = 0
RingStepSilent == "ring"
LastTxEarly == txDataSize <= 2
LastTxLate == txDataSize = 0
IdleEnableForgotten == txIdleEn
TxIdleDueUnsent == txIdleEn /\ txState = "idle"
TriggerLevelFixed == RxWatermark

-----------------------------------------------------------------------------
(* The receiving thread. *)

hwButEnables == <<fifoVars, txIdleEn, rxTrig, lineVars>>

RxGoto(from, to) ==
  /\ Runs /\ rxPc = from /\ rxPc' = to
  /\ UNCHANGED <<txVars, txPc, txSnap, irqVars, txHist, overrun>>

\* ReceiveNonBlocking, "Return error": kStatus_USART_RxBusy, nothing changes.
RecvBusy == Runs /\ rxPc = "idle" /\ rxState = "busy" /\ UNCHANGED driverVars

\* ReceiveNonBlocking with a ring buffer.  The section under DisableGlobalIRQ
\* copies what the ring has, up to len, and saves a request for the rest.
BytesToCopy(len) == IF len < RingLength THEN len ELSE RingLength

RecvFromRing(len) ==
  LET n == BytesToCopy(len)
      rest == len - n
  IN
  /\ rxState = "idle" /\ rxRingBuffer
  /\ RxGoto("idle", IF rest = 0 THEN "recv_cb" ELSE "idle")
  /\ Use("recv", MaxRecv)
  /\ received' = received \o SubSeq(InRing, 1, n)
  /\ rxRingBufferTail' = Advance(rxRingBufferTail, n, rxRingBufferSize)
  /\ request' = [start |-> Len(received), len |-> len]
  /\ IF rest = 0
     THEN UNCHANGED rxVars
     ELSE rxDataSize' = rest /\ rxDataSizeAll' = rest /\ rxState' = "busy"
  /\ UNCHANGED <<hwVars, rxRingBuffer, rxRingBufferSize, rxRingBufferHead,
                 ringData, rxSnap, flushed, calls>>

\* "Call user callback since all data are received": from the thread, with
\* interrupts enabled again.
RecvCallback ==
  /\ RxGoto("recv_cb", "idle")
  /\ Notify("RxIdle")
  /\ UNCHANGED <<hwVars, rxVars, ringVars, rxSnap, received, flushed, request,
                 used>>

\* ReceiveNonBlocking without a ring buffer: the data and its size ...
RecvDirect(len) ==
  /\ rxState = "idle" /\ ~rxRingBuffer
  /\ RxGoto("idle", "recv_state")
  /\ Use("recv", MaxRecv)
  /\ rxDataSize' = len /\ rxDataSizeAll' = len
  /\ request' = [start |-> Len(received), len |-> len]
  /\ UNCHANGED <<hwVars, rxState, ringVars, rxSnap, received, flushed, calls>>

\* ... then rxState ...
RecvSetState ==
  /\ RxGoto("recv_state", "recv_read")
  /\ rxState' = "busy"
  /\ UNCHANGED <<hwVars, rxDataSize, rxDataSizeAll, ringVars, rxSnap, received,
                 flushed, request, calls, used>>

\* ... then FIFOINTENSET |= RXLVL: a read of the enabled set ...
RxReadEnables(from, to) ==
  /\ RxGoto(from, to)
  /\ rxSnap' = intEn
  /\ UNCHANGED <<hwVars, rxVars, ringVars, received, flushed, request, calls,
                 used>>

\* ... and a write that sets every bit that was read and the new ones.
RxWriteEnables(from, new) ==
  /\ RxGoto(from, "idle")
  /\ intEn' = intEn \cup rxSnap \cup new
  /\ rxSnap' = {}
  /\ UNCHANGED <<hwButEnables, rxVars, ringVars, received, flushed, request,
                 calls, used>>

\* AbortReceive.  Without a ring buffer, disable RXLVL and empty the FIFO.
AbortRxDisable ==
  /\ RxGoto("idle", IF rxRingBuffer THEN "abort_end" ELSE "abort_empty")
  /\ Use("abortRx", MaxAbortRx)
  /\ intEn' = IF rxRingBuffer THEN intEn ELSE intEn \ {"RXLVL"}
  /\ UNCHANGED <<hwButEnables, rxVars, ringVars, rxSnap, received, flushed,
                 request, calls>>

AbortRxEmpty ==
  /\ RxGoto("abort_empty", "abort_end")
  /\ rxFifo' = <<>> /\ flushed' = flushed + Len(rxFifo)
  /\ UNCHANGED <<rxErr, txFifo, txLine, enableVars, lineVars, rxVars,
                 ringVars, rxSnap, received, request, calls, used>>

\* Wrong variant, used by no definition.
AbortRxForgotState ==
  /\ RxGoto("abort_end", "idle")
  /\ rxDataSize' = 0
  /\ UNCHANGED <<hwVars, rxDataSizeAll, rxState, ringVars, rxSnap, received,
                 flushed, request, calls, used>>

\* The handler looks at rxState only when rxDataSize # 0, so that clearing
\* the one and then the other is one step.
AbortRxEnd ==
  /\ RxGoto("abort_end", "idle")
  /\ rxDataSize' = 0 /\ rxState' = "idle"
  /\ UNCHANGED <<hwVars, rxDataSizeAll, ringVars, rxSnap, received, flushed,
                 request, calls, used>>

\* StartRingBuffer sets up a ring, also over one that runs; RXLVL may be enabled
\* by that one or by an open request.  Four stores, then the interrupts; each
\* index is given up with what the handler put into the ring before.
StartRing ==
  /\ RingMode = "dynamic"
  /\ RxGoto("idle", "start_size")
  /\ rxRingBuffer' = TRUE
  /\ UNCHANGED <<hwVars, rxVars, rxRingBufferSize, rxRingBufferHead,
                 rxRingBufferTail, ringData, rxSnap, received, flushed,
                 request, calls, used>>

StartRingSize ==
  /\ RxGoto("start_size", "start_head")
  /\ rxRingBufferSize' = RingSize
  /\ UNCHANGED <<hwVars, rxVars, rxRingBuffer, rxRingBufferHead,
                 rxRingBufferTail, ringData, rxSnap, received, flushed,
                 request, calls, used>>

StartRingHead ==
  /\ RxGoto("start_head", "start_tail")
  /\ rxRingBufferHead' = 0
  /\ flushed' = flushed + RingLength
       - RxRingBufferLength(0, rxRingBufferTail, rxRingBufferSize)
  /\ UNCHANGED <<hwVars, rxVars, rxRingBuffer, rxRingBufferSize,
                 rxRingBufferTail, ringData, rxSnap, received, request, calls,
                 used>>

StartRingTail ==
  /\ RxGoto("start_tail", "start_read")
  /\ rxRingBufferTail' = 0
  /\ flushed' = flushed + RingLength
       - RxRingBufferLength(rxRingBufferHead, 0, rxRingBufferSize)
  /\ UNCHANGED <<hwVars, rxVars, rxRingBuffer, rxRingBufferSize,
                 rxRingBufferHead, ringData, rxSnap, received, request, calls,
                 used>>

\* StopRingBuffer: the interrupts are disabled only when no request is open;
\* the ring is then given up with what it holds.
StopRing ==
  /\ RingMode = "dynamic"
  /\ RxGoto("idle", "stop_ring")
  /\ intEn' = IF rxState = "idle" THEN intEn \ {"RXLVL", "RXERR"} ELSE intEn
  /\ UNCHANGED <<hwButEnables, rxVars, ringVars, rxSnap, received, flushed,
                 request, calls, used>>

\* Once the buffer is NULL the handler looks at none of the other fields, so
\* that clearing them too is one step.
StopRingFields ==
  /\ RxGoto("stop_ring", "idle")
  /\ rxRingBuffer' = FALSE /\ rxRingBufferSize' = 0
  /\ rxRingBufferHead' = 0 /\ rxRingBufferTail' = 0
  /\ flushed' = flushed + RingLength
  /\ UNCHANGED <<hwVars, rxVars, ringData, rxSnap, received, request, calls,
                 used>>

RxThread ==
  \/ \E len \in 1 .. MaxLen : RecvFromRing(len) \/ RecvDirect(len)
  \/ RecvCallback \/ RecvSetState
  \/ RxReadEnables("recv_read", "recv_write")
  \/ RxWriteEnables("recv_write", {"RXLVL"})
  \/ AbortRxDisable \/ AbortRxEmpty \/ AbortRxEnd
  \/ StartRing \/ StartRingSize \/ StartRingHead \/ StartRingTail
  \/ RxReadEnables("start_read", "start_write")
  \/ RxWriteEnables("start_write", {"RXLVL", "RXERR"})
  \/ StopRing \/ StopRingFields

-----------------------------------------------------------------------------
(* The sending thread. *)

TxGoto(from, to) ==
  /\ Runs /\ txPc = from /\ txPc' = to
  /\ UNCHANGED <<rxVars, ringVars, rxPc, rxSnap, irqVars, rxHist, calls>>

\* SendNonBlocking, "Return error if current TX busy".
SendBusy == Runs /\ txPc = "idle" /\ txState = "busy" /\ UNCHANGED driverVars

\* SendNonBlocking: the data and its size ...
Send(len) ==
  /\ txState = "idle"
  /\ TxGoto("idle", "send_state")
  /\ Use("send", MaxSend)
  /\ txData' = asked + 1 /\ txDataSize' = len /\ txDataSizeAll' = len
  /\ asked' = asked + len
  /\ UNCHANGED <<hwVars, txState, txSnap>>

\* ... then txState ...
SendSetState ==
  /\ TxGoto("send_state", "send_read")
  /\ txState' = "busy"
  /\ UNCHANGED <<hwVars, txData, txDataSize, txDataSizeAll, txSnap, txHist,
                 used>>

\* ... then FIFOINTENSET |= TXLVL, a read of the enabled set and a write.
SendReadEnables ==
  /\ TxGoto("send_read", "send_write")
  /\ txSnap' = intEn
  /\ UNCHANGED <<hwVars, txVars, txHist, used>>

SendWriteEnables ==
  /\ TxGoto("send_write", "idle")
  /\ intEn' = intEn \cup txSnap \cup {"TXLVL"}
  /\ txSnap' = {}
  /\ UNCHANGED <<hwButEnables, txVars, txHist, used>>

\* AbortSend: disable TXLVL, empty the FIFO, clear the size, then the state.
AbortTxDisable ==
  /\ TxGoto("idle", "abort_empty")
  /\ Use("abortTx", MaxAbortTx)
  /\ intEn' = intEn \ {"TXLVL"}
  /\ UNCHANGED <<hwButEnables, txVars, txSnap, txHist>>

AbortTxEmpty ==
  /\ TxGoto("abort_empty", "abort_size")
  /\ txFifo' = <<>>
  /\ UNCHANGED <<rxFifo, rxErr, txLine, enableVars, lineVars, txVars, txSnap,
                 txHist, used>>

AbortTxSize ==
  /\ TxGoto("abort_size", "abort_state")
  /\ txDataSize' = 0
  /\ UNCHANGED <<hwVars, txData, txDataSizeAll, txState, txSnap, txHist, used>>

AbortTxState ==
  /\ TxGoto("abort_state", "idle")
  /\ txState' = "idle"
  /\ UNCHANGED <<hwVars, txData, txDataSize, txDataSizeAll, txSnap, txHist,
                 used>>

TxThread ==
  \/ \E len \in 1 .. MaxLen : Send(len)
  \/ SendSetState \/ SendReadEnables \/ SendWriteEnables
  \/ AbortTxDisable \/ AbortTxEmpty \/ AbortTxSize \/ AbortTxState

-----------------------------------------------------------------------------
(* USART_TransferHandleIRQ. *)

IrqGoto(to) == irqPc' = to /\ UNCHANGED <<threadVars, txHist, request, used>>

ReceiveDue == rxDataSize # 0 \/ rxRingBuffer

\* Entry: the two flags are computed once, from the sizes as they are now.
\* "If RX overrun", clear the error, empty the FIFO and notify.
IrqEnter ==
  /\ irqPc = "off" /\ IrqPending
  /\ IrqGoto(IF rxErr THEN "callback" ELSE "recv")
  /\ cbStatus' = (IF rxErr THEN "RxError" ELSE NoStatus)
  /\ receiveEnabled' = ReceiveDue
  /\ sendEnabled' = (txDataSize # 0)
  /\ rxErr' = FALSE
  /\ IF rxErr THEN rxFifo' = <<>> /\ flushed' = flushed + Len(rxFifo)
              ELSE UNCHANGED <<rxFifo, flushed>>
  /\ UNCHANGED <<txFifo, txLine, enableVars, lineVars, rxVars, ringVars,
                 txVars, received, overrun, calls>>

\* The loop: a pass receives if it can, then sends if it can; the handler
\* leaves it when it can do neither.
CanReceive == receiveEnabled /\ rxFifo # <<>>
CanSend == sendEnabled /\ TxNotFull
AtReceive == CanReceive /\ (irqPc = "recv" \/ (irqPc = "send" /\ ~CanSend))
AtSend == CanSend /\ (irqPc = "send" \/ (irqPc = "recv" /\ ~CanReceive))
AtLoopEnd == irqPc \in {"recv", "send"} /\ ~CanReceive /\ ~CanSend

LastRx == rxDataSize = 1

\* A byte to the application's buffer; the last one ends the request.
IrqRecvUser ==
  /\ AtReceive /\ rxDataSize # 0
  /\ IrqGoto(IF LastRx THEN "callback" ELSE "send")
  /\ rxFifo' = Tail(rxFifo)
  /\ received' = Append(received, Head(rxFifo))
  /\ rxDataSize' = rxDataSize - 1
  /\ receiveEnabled' = (rxDataSize' # 0 \/ rxRingBuffer)
  /\ IF LastRx THEN rxState' = "idle" /\ cbStatus' = "RxIdle"
               ELSE UNCHANGED <<rxState, cbStatus>>
  /\ intEn' = IF LastRx /\ ~rxRingBuffer THEN intEn \ {"RXLVL", "RXERR"}
                                         ELSE intEn
  /\ UNCHANGED <<rxErr, txFifo, txLine, txIdleEn, rxTrig, lineVars,
                 rxDataSizeAll, ringVars, txVars, sendEnabled, flushed,
                 overrun, calls>>

RingStep == IF RingFull THEN "callback" ELSE "ring"

\* No request is open: the byte goes to the ring, after the overrun callback
\* when the ring is full.
IrqRecvRing ==
  /\ AtReceive /\ rxDataSize = 0 /\ rxRingBuffer
  /\ IrqGoto(RingStep)
  /\ cbStatus' = IF RingStep = "callback" THEN "RxRingBufferOverrun" ELSE NoStatus
  /\ UNCHANGED <<hwVars, rxVars, ringVars, txVars, receiveEnabled,
                 sendEnabled, received, flushed, overrun, calls>>

\* Store at the head; a ring still full first gives up its oldest byte.
IrqRingPut ==
  /\ irqPc = "ring"
  /\ IrqGoto("send")
  /\ IF RingFull
     THEN /\ rxRingBufferTail' = NextIndex(rxRingBufferTail, rxRingBufferSize)
          /\ overrun' = overrun + 1
     ELSE UNCHANGED <<rxRingBufferTail, overrun>>
  /\ rxFifo' = Tail(rxFifo)
  /\ ringData' = [ringData EXCEPT ![rxRingBufferHead] = Head(rxFifo)]
  /\ rxRingBufferHead' = NextIndex(rxRingBufferHead, rxRingBufferSize)
  /\ UNCHANGED <<rxErr, txFifo, txLine, enableVars, lineVars, rxVars,
                 rxRingBuffer, rxRingBufferSize, txVars, receiveEnabled,
                 sendEnabled, cbStatus, received, flushed, calls>>

LastTx == txDataSize = 1

\* base->INTENSET |= TXIDLEEN after the last byte.
IdleEnable == txIdleEn \/ LastTx

\* A byte to the TX FIFO; after the last one TXLVL is off and TXIDLE on.
IrqSend ==
  /\ AtSend
  /\ IrqGoto("recv")
  /\ txFifo' = Append(txFifo, txData)
  /\ txData' = txData + 1 /\ txDataSize' = txDataSize - 1
  /\ sendEnabled' = (txDataSize' # 0)
  /\ IF LastTx THEN intEn' = intEn \ {"TXLVL"} /\ txState' = "idle"
               ELSE UNCHANGED <<intEn, txState>>
  /\ txIdleEn' = IdleEnable
  /\ UNCHANGED <<rxFifo, rxErr, txLine, rxTrig, lineVars, rxVars, ringVars,
                 txDataSizeAll, receiveEnabled, cbStatus, received, flushed,
                 overrun, calls>>

\* "Tx idle and the interrupt is enabled".
TxIdleDue == txIdleEn /\ TxIdle /\ txState = "idle"

\* After the loop, disable TXIDLEEN and notify when that is due.
IrqTxIdle ==
  /\ AtLoopEnd
  /\ IrqGoto(IF TxIdleDue THEN "callback" ELSE "trig")
  /\ txIdleEn' = (txIdleEn /\ ~TxIdleDue)
  /\ cbStatus' = IF TxIdleDue THEN "TxIdle" ELSE NoStatus
  /\ UNCHANGED <<fifoVars, intEn, rxTrig, lineVars, rxVars, ringVars, txVars,
                 receiveEnabled, sendEnabled, received, flushed, overrun,
                 calls>>

\* Without a ring buffer the trigger level follows a request that is shorter
\* than it and is restored when no request is open.
TriggerLevel ==
  IF rxRingBuffer THEN rxTrig
  ELSE IF rxDataSize = 0 THEN RxWatermark
  ELSE IF rxDataSize < rxTrig + 1 THEN rxDataSize - 1
  ELSE rxTrig

IrqExit ==
  /\ irqPc = "trig"
  /\ IrqGoto("off")
  /\ rxTrig' = TriggerLevel
  /\ receiveEnabled' = FALSE /\ sendEnabled' = FALSE
  /\ UNCHANGED <<fifoVars, intEn, txIdleEn, lineVars, rxVars, ringVars,
                 txVars, cbStatus, received, flushed, overrun, calls>>

\* Where the handler goes on after the callback for a status.
AfterCallback ==
  [RxError |-> "recv", RxIdle |-> "send", RxRingBufferOverrun |-> "ring",
   TxIdle |-> "trig"]

IrqCallback ==
  /\ irqPc = "callback"
  /\ IrqGoto(AfterCallback[cbStatus])
  /\ Notify(cbStatus)
  /\ cbStatus' = NoStatus
  /\ UNCHANGED <<hwVars, rxVars, ringVars, txVars, receiveEnabled,
                 sendEnabled, received, flushed, overrun>>

Irq ==
  \/ IrqEnter \/ IrqRecvUser \/ IrqRecvRing \/ IrqRingPut \/ IrqSend
  \/ IrqTxIdle \/ IrqExit \/ IrqCallback

Hardware == HwNext /\ UNCHANGED <<rxVars, ringVars, txVars, threadVars,
                                  irqVars, rxHist, txHist, calls, used>>

Next == RxThread \/ TxThread \/ Irq \/ Hardware

Spec == Init /\ [][Next]_driverVars
=============================================================================
