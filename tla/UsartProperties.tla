-------------------------- MODULE UsartProperties --------------------------
(***************************************************************************)
(* What the USART driver of UsartDriver guarantees: its type, its safety   *)
(* and liveness properties, and the byte streams both directions implement.*)
(***************************************************************************)
EXTENDS UsartDriver

-----------------------------------------------------------------------------
(* Type invariant *)

RingIndices == 0 .. RingSize - 1

RxTypeOK ==
  /\ rxDataSize \in 0 .. MaxLen /\ rxDataSizeAll \in 0 .. MaxLen
  /\ rxState \in {"idle", "busy"}
  /\ received \in Seq(0 .. MaxIn)
  /\ flushed \in Nat /\ overrun \in Nat
  /\ request \in [start : Nat, len : 0 .. MaxLen]

RingTypeOK ==
  /\ rxRingBuffer \in BOOLEAN /\ rxRingBufferSize \in {0, RingSize}
  /\ rxRingBufferHead \in RingIndices /\ rxRingBufferTail \in RingIndices
  /\ ringData \in [RingIndices -> 0 .. MaxIn]

TxTypeOK ==
  /\ txDataSize \in 0 .. MaxLen /\ txDataSizeAll \in 0 .. MaxLen
  /\ txData \in Nat /\ asked \in Nat
  /\ txState \in {"idle", "busy"}

ControlTypeOK ==
  /\ rxPc \in RxPcs /\ txPc \in TxPcs /\ irqPc \in IrqPcs
  /\ rxSnap \in SUBSET Interrupts /\ txSnap \in SUBSET Interrupts
  /\ receiveEnabled \in BOOLEAN /\ sendEnabled \in BOOLEAN
  /\ cbStatus \in Statuses \cup {NoStatus}
  /\ calls \in [Statuses -> Nat] /\ used \in [Kinds -> Nat]

\* Every field of the handle, register and local holds a value of its type;
\* the ring indices stay inside the ring buffer.
TypeOK == HwTypeOK /\ RxTypeOK /\ RingTypeOK /\ TxTypeOK /\ ControlTypeOK

-----------------------------------------------------------------------------
(* Safety of the receiving direction *)

Increasing(s) == \A i \in 1 .. Len(s) - 1 : s[i] < s[i + 1]

\* What the thread could read from the ring: nothing from one it has not set
\* up to the last index.
Readable ==
  IF rxPc \in {"start_size", "start_head", "start_tail"} THEN <<>> ELSE InRing

\* Bytes reach the application in the order of the line, each once: what was
\* delivered, what the ring holds for it and what the FIFO holds follow each
\* other, however requests served from the ring, by the handler, or by both
\* mix, and also when the handler stores into a ring while it is set up.
StreamOrder == Increasing(received \o Readable \o rxFifo)

\* Every byte that arrived is with the application, in the ring, in the FIFO,
\* or counted by one of the ways of losing it.
NothingVanishes ==
  nIn = Len(received) + RingLength + Len(rxFifo) + hwLost + flushed + overrun

\* A byte lost in the ring was announced by its own RxRingBufferOverrun
\* callback, before it was overwritten; a byte lost in the FIFO by RXERR,
\* which is pending or was announced by RxError.
LossIsNotified ==
  /\ overrun <= calls["RxRingBufferOverrun"]
  /\ calls["RxRingBufferOverrun"] <= overrun + 1
  /\ hwLost > 0 => \/ rxErr \/ calls["RxError"] > 0
                   \/ irqPc = "callback" /\ cbStatus = "RxError"

\* When RxIdle is passed to the callback, from the handler or from the thread
\* itself, the request got exactly the bytes it asked for.
RxIdleMeansComplete ==
  \/ irqPc = "callback" /\ cbStatus = "RxIdle"
  \/ rxPc = "recv_cb"
  => Len(received) = request.start + request.len

\* An open request and buffered bytes exclude each other: bytes handed over
\* directly never overtake bytes in the ring.
DirectOnlyWhenRingEmpty ==
  rxRingBuffer /\ rxDataSize # 0 => rxRingBufferHead = rxRingBufferTail

\* kStatus_USART_RxBusy is "Previous receive request is not finished": between
\* calls the state is busy only while the request lacks bytes.
RxBusyMeansUnfinished ==
  rxPc = "idle" /\ irqPc = "off" /\ rxState = "busy" => rxDataSize # 0

-----------------------------------------------------------------------------
(* Safety of the sending direction *)

\* Until a send is aborted, the bytes asked for are those shifted out, those
\* in the FIFO and those not yet written, in this order.
TxConserved ==
  used["abortTx"] = 0 =>
    /\ sent \o txFifo = [i \in 1 .. txData - 1 |-> i]
    /\ txData + txDataSize = asked + 1

\* TxIdle is passed to the callback only when all that was asked for is out
\* on the line, also when transfers follow each other closely.
TxIdleMeansSent ==
  irqPc = "callback" /\ cbStatus = "TxIdle" /\ used["abortTx"] = 0
  => Len(sent) = asked /\ ~txLine

-----------------------------------------------------------------------------
(* The streams the two directions implement *)

RxStream == INSTANCE ByteStream
  WITH MaxBurst <- MaxLen,
       produced <- nIn, transit <- InRing \o rxFifo, delivered <- received

\* The driver delivers the bytes of the line in order, each at most once.
RxImplementsStream == RxStream!StreamSpec

TxStream == INSTANCE ByteStream
  WITH MaxBurst <- MaxLen,
       produced <- asked,
       transit <- txFifo \o [i \in 1 .. txDataSize |-> txData + i - 1],
       delivered <- sent

\* The line carries the bytes asked for in order, each at most once.
TxImplementsStream == TxStream!StreamSpec

-----------------------------------------------------------------------------
(* Liveness *)

\* A call once begun is continued when the processor is free for it, the
\* handler runs when it is due, and the shifter shifts.  No byte need arrive
\* and nobody need call.
RxContinue == RxThread /\ rxPc # "idle"
TxContinue == TxThread /\ txPc # "idle"
Transmit == (Shift \/ ShiftDone)
  /\ UNCHANGED <<rxVars, ringVars, txVars, threadVars, irqVars, rxHist,
                 txHist, calls, used>>

Fairness ==
  /\ WF_driverVars(Irq) /\ WF_driverVars(Transmit)
  /\ WF_driverVars(RxContinue) /\ WF_driverVars(TxContinue)

FairSpec == Spec /\ Fairness

\* The threads are never shut out for good by an interrupt that nothing
\* clears.
NoInterruptStorm == []<>Runs

\* A request for bytes that are in the FIFO is served, unless the FIFO
\* overflows before and RxError says so.  A request shorter than the trigger
\* level would wait; only the tail of this one may be shorter, and the handler
\* then lowers the level.
LongRequestServed ==
  /\ rxState = "busy" /\ Len(rxFifo) >= rxDataSize
  /\ request.len > RxWatermark
  ~> \/ rxState = "idle"
     \/ irqPc = "callback" /\ cbStatus = "RxError"
=============================================================================
