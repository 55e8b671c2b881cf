------------------------ MODULE UsartRtosProperties ------------------------
(* What the FreeRTOS wrapper of the USART driver guarantees to its tasks. *)
EXTENDS UsartRtos, UsartProperties

\* The wrapper's own state has its type, and a mutex is held exactly by the
\* task that is inside its function.
RtosTypeOK ==
  /\ rxEvent \in SUBSET Bits /\ txEvent \in SUBSET {COMPLETE}
  /\ pended \in Seq(Commands) /\ Len(pended) <= QueueLen
  /\ rpc \in [Receivers -> Pcs] /\ spc \in [Senders -> Pcs]
  /\ ev \in [Receivers \cup Senders -> SUBSET Bits]
  /\ \A t \in Receivers : rpc[t] # "idle" <=> rxSemaphore = t
  /\ \A t \in Senders : spc[t] # "idle" <=> txSemaphore = t

\* kStatus_Success from USART_RTOS_Receive means that the caller's buffer was
\* filled by this call ("Prevent false indication of successful transfer in
\* next call of USART_RTOS_Receive").
SuccessMeansData ==
  \A t \in Receivers :
    rpc[t] = "give" /\ RING_BUFFER_OVERRUN \notin ev[t] =>
      Len(received) = rxTransfer[t].start + rxTransfer[t].len

\* USART_RTOS_Send returns only when every byte of the call is out.
SendReturnsSent ==
  \A t \in Senders : spc[t] = "woken" => Len(sent) = asked

\* A call leaves no transfer behind: with the mutex free the receiver is idle,
\* so that nothing is stored into the buffer of a call that has returned.
NoRequestLeftBehind == rxSemaphore = NoTask => rxState = "idle"

\* A receiver that sleeps has a request open, or a bit on its way.
BlockedReceiverIsWoken ==
  Blocked(rpc) # {} =>
    \/ rxDataSize # 0
    \/ irqPc = "callback" /\ cbStatus = "RxIdle"
    \/ \E i \in DOMAIN pended : pended[i].group = "rx"

\* Every call of USART_RTOS_Send comes to its end, unless the handler keeps
\* the processor for good (NoInterruptStorm).
SendReturns == []<>Runs => \A t \in Senders : spc[t] # "idle" ~> spc[t] = "idle"

\* A blocked receiver whose missing bytes are in the FIFO returns, unless the
\* FIFO overflows before they are read.
ReceiveReturns ==
  \A t \in Receivers :
    rpc[t] = "blocked" /\ Len(rxFifo) >= rxDataSize ~>
      rpc[t] = "idle" \/ (irqPc = "callback" /\ cbStatus = "RxError")
=============================================================================
