-------------------------- MODULE UsartSafetyProofs --------------------------
(***************************************************************************)
(* The safety of the driver of UsartDriver in the static modes, for every  *)
(* size of the FIFO and of the ring buffer and for all bounds: no byte     *)
(* vanishes, a loss is announced, a request ends when it is complete, and  *)
(* what is sent is what was asked for.                                     *)
(***************************************************************************)
EXTENDS UsartTypeProofs

-----------------------------------------------------------------------------
(* What an action on the ring does to its length *)

\* Taking n bytes from the ring makes it n bytes shorter; taking all of them
\* makes it empty.
LEMMA TakeLength ==
  ASSUME TypeInv, rxRingBuffer, NEW n \in 0 .. RingLength
  PROVE  /\ RxRingBufferLength(rxRingBufferHead,
              Advance(rxRingBufferTail, n, rxRingBufferSize),
              rxRingBufferSize) = RingLength - n
         /\ n = RingLength =>
              Advance(rxRingBufferTail, n, rxRingBufferSize) = rxRingBufferHead
  <1>1. /\ rxRingBufferHead \in Nat /\ rxRingBufferTail \in Nat
        /\ rxRingBufferSize \in Nat
        /\ rxRingBufferHead < rxRingBufferSize
        /\ rxRingBufferTail < rxRingBufferSize
    BY DriverAssumption
       DEF TypeInv, TypeOK, RingTypeOK, RingShape, RingIndices
  <1> QED
    BY <1>1, RingArithmetic DEF RingLength

\* The handler's put makes the ring one byte longer, or drops its oldest byte.
LEMMA PutEffect ==
  ASSUME TypeInv, IrqRingPut
  PROVE  /\ RingLength' = RingLength + (IF RingFull THEN 0 ELSE 1)
         /\ overrun' = overrun + (IF RingFull THEN 1 ELSE 0)
  <1>1. /\ rxRingBufferHead \in Nat /\ rxRingBufferTail \in Nat
        /\ rxRingBufferSize \in Nat /\ rxRingBufferSize <= IndexMod
        /\ rxRingBufferHead < rxRingBufferSize
        /\ rxRingBufferTail < rxRingBufferSize
    BY DriverAssumption
       DEF IrqRingPut, TypeInv, TypeOK, RingTypeOK, RingShape, RingIndices,
           StaticRing, PutReady, BeforePut
  <1>2. /\ rxRingBufferSize' = rxRingBufferSize
        /\ rxRingBufferHead' = NextIndex(rxRingBufferHead, rxRingBufferSize)
        /\ rxRingBufferTail' =
             IF RingFull THEN NextIndex(rxRingBufferTail, rxRingBufferSize)
             ELSE rxRingBufferTail
        /\ overrun' = overrun + (IF RingFull THEN 1 ELSE 0)
    BY DEF IrqRingPut, TypeInv, TypeOK, RxTypeOK
  <1>3. IF RingFull
        THEN RxRingBufferLength(NextIndex(rxRingBufferHead, rxRingBufferSize),
                                NextIndex(rxRingBufferTail, rxRingBufferSize),
                                rxRingBufferSize) = RingLength
        ELSE RxRingBufferLength(NextIndex(rxRingBufferHead, rxRingBufferSize),
                                rxRingBufferTail, rxRingBufferSize)
               = RingLength + 1
    BY <1>1, PutLength DEF RingLength, RingFull
  <1>4. RingLength \in Nat
    BY <1>1, RingArithmetic DEF RingLength
  <1> QED
    BY <1>2, <1>3, <1>4 DEF RingLength

-----------------------------------------------------------------------------
(* No byte vanishes *)

countVars == <<nIn, received, rxRingBufferHead, rxRingBufferTail,
               rxRingBufferSize, ringData, rxFifo, hwLost, flushed,
               overrun>>

\* The actions that neither move nor count a received byte.
LEMMA CountFrame ==
  ASSUME TypeInv, [Next]_driverVars
  PROVE  \/ \E len \in 1 .. MaxLen : RecvFromRing(len)
         \/ AbortRxEmpty \/ IrqEnter \/ IrqRecvUser \/ IrqRingPut
         \/ Hardware /\ Arrive
         \/ UNCHANGED countVars
  <1> USE DEF countVars, hwVars, fifoVars, enableVars, lineVars, ringVars,
              rxHist, hwButEnables
  <1>1. CASE UNCHANGED driverVars
    BY <1>1 DEF driverVars
  <1>2. CASE RxThread
    <2> USE DEF RxGoto
    <2>1. \A len \in 1 .. MaxLen : RecvDirect(len) => UNCHANGED countVars
      BY DEF RecvDirect
    <2>2. /\ RecvCallback => UNCHANGED countVars
          /\ RecvSetState => UNCHANGED countVars
          /\ AbortRxDisable => UNCHANGED countVars
          /\ AbortRxEnd => UNCHANGED countVars
      BY DEF RecvCallback, RecvSetState, AbortRxDisable, AbortRxEnd
    <2>3. /\ RxReadEnables("recv_read", "recv_write") => UNCHANGED countVars
          /\ RxWriteEnables("recv_write", {"RXLVL"}) => UNCHANGED countVars
      BY DEF RxReadEnables, RxWriteEnables
    <2> QED
      BY <1>2, <2>1, <2>2, <2>3, StaticRxThread
  <1>3. CASE TxThread
    BY <1>3 DEF TxThread, TxGoto, Send, SendSetState, SendReadEnables,
       SendWriteEnables, AbortTxDisable, AbortTxEmpty, AbortTxSize,
       AbortTxState
  <1>4. CASE Irq
    BY <1>4 DEF Irq, IrqRecvRing, IrqSend, IrqTxIdle, IrqExit, IrqCallback,
       IrqGoto
  <1>5. CASE Hardware
    BY <1>5 DEF Hardware, HwNext, Shift, ShiftDone
  <1> QED
    BY <1>1, <1>2, <1>3, <1>4, <1>5 DEF Next
LEMMA VanishStep ==
  TypeInv /\ NothingVanishes /\ [Next]_driverVars => NothingVanishes'
  <1> SUFFICES ASSUME TypeInv, NothingVanishes, [Next]_driverVars
               PROVE  NothingVanishes'
    OBVIOUS
  <1> USE DEF NothingVanishes
  <1>0. received \in Seq(0 .. MaxIn)
    BY DEF TypeInv, TypeOK, RxTypeOK
  <1>1. /\ nIn \in Nat /\ hwLost \in Nat /\ flushed \in Nat /\ overrun \in Nat
        /\ Len(received) \in Nat /\ Len(rxFifo) \in Nat /\ RingLength \in Nat
    <2>1. /\ nIn \in Nat /\ hwLost \in Nat /\ flushed \in Nat /\ overrun \in Nat
      BY FifoAssumption DEF TypeInv, TypeOK, HwTypeOK, RxTypeOK
    <2>2. Len(received) \in Nat
      BY <1>0, LenProperties
    <2>3. Len(rxFifo) \in Nat
      BY RxFifoFacts DEF TypeInv, TypeOK
    <2>4. RingLength \in Nat
      BY RingFacts
    <2> QED BY <2>1, <2>2, <2>3, <2>4
  <1>2. rxFifo # <<>> => /\ Head(rxFifo) \in 0 .. MaxIn
                         /\ Len(Tail(rxFifo)) = Len(rxFifo) - 1
    BY RxFifoFacts DEF TypeInv, TypeOK
  <1>3. ASSUME NEW len \in 1 .. MaxLen, RecvFromRing(len)
        PROVE  NothingVanishes'
    <2>1. BytesToCopy(len) \in 0 .. RingLength
      BY <1>1 DEF BytesToCopy
    <2>2. Len(received') = Len(received) + BytesToCopy(len)
      <3>1. /\ InRing \in Seq(0 .. MaxIn) /\ Len(InRing) = RingLength
        BY RingFacts
      <3>2. /\ SubSeq(InRing, 1, BytesToCopy(len)) \in Seq(0 .. MaxIn)
            /\ Len(SubSeq(InRing, 1, BytesToCopy(len))) = BytesToCopy(len)
        BY <2>1, <3>1, Prefix
      <3> QED
        BY <1>0, <1>3, <3>2, ConcatProperties DEF RecvFromRing
    <2>3. RingLength' = RingLength - BytesToCopy(len)
      BY <1>3, <2>1, TakeLength DEF RecvFromRing, RingLength
    <2>4. UNCHANGED <<nIn, rxFifo, hwLost, flushed, overrun>>
      BY <1>3 DEF RecvFromRing, RxGoto, hwVars, fifoVars, lineVars
    <2>5. BytesToCopy(len) \in Int /\ Len(rxFifo') = Len(rxFifo)
      BY <1>1, <2>1, <2>4
    <2>6. Len(received') + RingLength' = Len(received) + RingLength
      BY <1>1, <2>2, <2>3, <2>5
    <2>7. Len(received') \in Int /\ RingLength' \in Int
      BY <1>1, <2>2, <2>3, <2>5
    <2> QED
      BY <1>1, <2>4, <2>5, <2>6, <2>7
  <1>4. CASE AbortRxEmpty
    <2>1. Len(rxFifo') = 0
      BY <1>4, EmptySeq DEF AbortRxEmpty
    <2> QED
      BY <1>1, <1>4, <2>1
         DEF AbortRxEmpty, RxGoto, RingLength, lineVars, ringVars
  <1>5. CASE IrqEnter
    <2>1. /\ RingLength' = RingLength
          /\ UNCHANGED <<nIn, received, hwLost, overrun>>
      BY <1>5 DEF IrqEnter, RingLength, lineVars, ringVars
    <2>2. CASE rxErr
      <3>1. Len(rxFifo') = 0 /\ flushed' = flushed + Len(rxFifo)
        BY <1>5, <2>2, EmptySeq DEF IrqEnter
      <3> QED
        BY <1>1, <2>1, <3>1
    <2>3. CASE ~rxErr
      <3>1. UNCHANGED <<rxFifo, flushed>>
        BY <1>5, <2>3 DEF IrqEnter
      <3> QED
        BY <1>1, <2>1, <3>1
    <2> QED
      BY <2>2, <2>3
  <1>6. CASE IrqRecvUser
    <2>1. /\ rxFifo # <<>> /\ rxFifo' = Tail(rxFifo)
          /\ received' = Append(received, Head(rxFifo))
      BY <1>6 DEF IrqRecvUser, AtReceive, CanReceive
    <2>2. Len(received') = Len(received) + 1
      BY <1>0, <1>2, <2>1, AppendProperties
    <2>3. Len(rxFifo') = Len(rxFifo) - 1
      BY <1>2, <2>1
    <2>4. /\ RingLength' = RingLength
          /\ UNCHANGED <<nIn, hwLost, flushed, overrun>>
      BY <1>6 DEF IrqRecvUser, RingLength, lineVars, ringVars
    <2> QED
      BY <1>1, <2>2, <2>3, <2>4
  <1>7. CASE IrqRingPut
    <2>1. rxFifo # <<>> /\ rxFifo' = Tail(rxFifo)
      BY <1>7 DEF IrqRingPut, TypeInv, PutReady, BeforePut
    <2>2. Len(rxFifo') = Len(rxFifo) - 1
      BY <1>2, <2>1
    <2>3. /\ nIn' = nIn /\ hwLost' = hwLost /\ flushed' = flushed
          /\ Len(received') = Len(received)
      BY <1>7 DEF IrqRingPut, lineVars
    <2>4. CASE RingFull
      <3>1. RingLength' = RingLength + 0 /\ overrun' = overrun + 1
        BY <1>7, <2>4, PutEffect
      <3> QED
        BY <1>1, <2>2, <2>3, <3>1
    <2>5. CASE ~RingFull
      <3>1. RingLength' = RingLength + 1 /\ overrun' = overrun + 0
        BY <1>7, <2>5, PutEffect
      <3> QED
        BY <1>1, <2>2, <2>3, <3>1
    <2> QED
      BY <2>4, <2>5
  <1>8. CASE Hardware /\ Arrive
    <2>1. RingLength' = RingLength /\ UNCHANGED <<received, flushed, overrun>>
      BY <1>8 DEF Hardware, RingLength, ringVars, rxHist
    <2>2. nIn < MaxIn => Len(Append(rxFifo, nIn + 1)) = Len(rxFifo) + 1
      BY RxFifoFacts DEF TypeInv, TypeOK
    <2>3. /\ nIn < MaxIn /\ nIn' = nIn + 1
          /\ \/ rxFifo' = Append(rxFifo, nIn + 1) /\ hwLost' = hwLost
             \/ rxFifo' = rxFifo /\ hwLost' = hwLost + 1
      BY <1>8 DEF Arrive
    <2>4. CASE rxFifo' = Append(rxFifo, nIn + 1) /\ hwLost' = hwLost
      BY <1>1, <2>1, <2>2, <2>3, <2>4
    <2>5. CASE rxFifo' = rxFifo /\ hwLost' = hwLost + 1
      BY <1>1, <2>1, <2>3, <2>5
    <2> QED
      BY <2>3, <2>4, <2>5
  <1>9. CASE UNCHANGED countVars
    BY <1>9 DEF countVars, RingLength
  <1> QED
    BY <1>3, <1>4, <1>5, <1>6, <1>7, <1>8, <1>9, CountFrame

\* Every byte that arrived is with the application, in the ring, in the FIFO,
\* or was lost in one of the ways that are counted.
THEOREM Conservation == Spec /\ StaticRing => []NothingVanishes
  <1>1. Init /\ StaticRing => TypeInv /\ NothingVanishes
    <2>1. Init => NothingVanishes
      BY EmptySeq
         DEF Init, HwInit, NothingVanishes, RingLength, RxRingBufferLength
    <2> QED
      BY <2>1, TypeInit
  <1>2. TypeInv /\ NothingVanishes /\ [Next]_driverVars
          => (TypeInv /\ NothingVanishes)'
    BY TypeStep, VanishStep
  <1> QED
    BY <1>1, <1>2, PTL DEF Spec
-----------------------------------------------------------------------------
(* A loss is announced *)

\* Overrun callbacks are one ahead of the bytes dropped from the ring exactly
\* when the handler has announced an overrun it has not yet made room for.
Announced ==
  /\ calls["RxRingBufferOverrun"]
       = overrun + (IF irqPc = "ring" /\ RingFull THEN 1 ELSE 0)
  /\ irqPc = "callback" /\ cbStatus = "RxRingBufferOverrun" => RingFull
  /\ hwLost > 0 => \/ rxErr \/ calls["RxError"] > 0
                   \/ irqPc = "callback" /\ cbStatus = "RxError"

\* The threads run while the handler does not, and announce no loss.
LEMMA ThreadQuiet ==
  ASSUME TypeInv, RxThread \/ TxThread
  PROVE  /\ irqPc = "off"
         /\ UNCHANGED <<irqPc, cbStatus, overrun, hwLost, rxErr>>
         /\ calls'["RxRingBufferOverrun"] = calls["RxRingBufferOverrun"]
         /\ calls'["RxError"] = calls["RxError"]
  <1> USE DEF hwVars, fifoVars, enableVars, lineVars, irqVars, hwButEnables,
              Runs
  <1>1. calls \in [Statuses -> Nat]
    BY DEF TypeInv, TypeOK, ControlTypeOK
  <1>2. CASE RxThread
    <2> USE DEF RxGoto
    <2>1. ASSUME RecvCallback
          PROVE  /\ calls'["RxRingBufferOverrun"] = calls["RxRingBufferOverrun"]
                 /\ calls'["RxError"] = calls["RxError"]
      BY <1>1, <2>1 DEF RecvCallback, Notify, Statuses
    <2>2. \/ RecvCallback \/ UNCHANGED calls
      BY <1>2, StaticRxThread
         DEF RecvFromRing, RecvDirect, RecvSetState, RxReadEnables,
             RxWriteEnables, AbortRxDisable, AbortRxEmpty, AbortRxEnd
    <2>3. irqPc = "off" /\ UNCHANGED <<irqPc, cbStatus, overrun>>
      BY <1>2, StaticRxThread
         DEF RecvFromRing, RecvDirect, RecvCallback, RecvSetState,
             RxReadEnables, RxWriteEnables, AbortRxDisable, AbortRxEmpty,
             AbortRxEnd
    <2>4. UNCHANGED <<hwLost, rxErr>>
      BY <1>2, StaticRxThread
         DEF RecvFromRing, RecvDirect, RecvCallback, RecvSetState,
             RxReadEnables, RxWriteEnables, AbortRxDisable, AbortRxEmpty,
             AbortRxEnd
    <2> QED
      BY <2>1, <2>2, <2>3, <2>4
  <1>3. CASE TxThread
    BY <1>3 DEF TxThread, TxGoto, rxHist, Send, SendSetState, SendReadEnables,
       SendWriteEnables, AbortTxDisable, AbortTxEmpty, AbortTxSize,
       AbortTxState
  <1> QED
    BY <1>2, <1>3

LEMMA AnnouncedStep == TypeInv /\ Announced /\ [Next]_driverVars => Announced'
  <1> SUFFICES ASSUME TypeInv, Announced, [Next]_driverVars
               PROVE  Announced'
    OBVIOUS
  <1> USE DEF Announced
  <1>1. /\ calls \in [Statuses -> Nat] /\ cbStatus \in Statuses \cup {NoStatus}
        /\ overrun \in Nat /\ hwLost \in Nat
        /\ (irqPc = "callback") <=> (cbStatus # NoStatus)
    BY FifoAssumption DEF TypeInv, TypeOK, ControlTypeOK, RxTypeOK, HwTypeOK, PutReady
  <1>2. CASE UNCHANGED driverVars
    BY <1>2 DEF driverVars, irqVars, hwVars, fifoVars, lineVars, rxHist,
       ringVars, RingFull
  <1>3. CASE RxThread \/ TxThread
    BY <1>1, <1>3, ThreadQuiet
  <1>4. CASE Hardware
    <2>1. UNCHANGED <<irqPc, cbStatus, overrun, calls>> /\ RingFull' = RingFull
      BY <1>4 DEF Hardware, irqVars, rxHist, ringVars, RingFull
    <2>2. hwLost' # hwLost \/ rxErr' # rxErr => rxErr' = TRUE
      BY <1>4 DEF Hardware, HwNext, Arrive, Shift, ShiftDone, lineVars
    <2> QED
      BY <1>1, <2>1, <2>2
  <1>5. CASE Irq
    <2> USE DEF IrqGoto, lineVars, fifoVars, ringVars, rxVars
    <2>1. CASE IrqEnter
      BY <1>1, <2>1 DEF IrqEnter
    <2>2. CASE IrqRecvUser
      BY <1>1, <2>2 DEF IrqRecvUser, AtReceive, NoStatus
    <2>3. CASE IrqRecvRing
      BY <1>1, <2>3 DEF IrqRecvRing, RingStep, RingFull, AtReceive, hwVars
    <2>4. CASE IrqRingPut
      BY <1>1, <2>4, PutEffect DEF IrqRingPut
    <2>5. CASE IrqSend
      BY <1>1, <2>5 DEF IrqSend, AtSend
    <2>6. CASE IrqTxIdle
      BY <1>1, <2>6 DEF IrqTxIdle, AtLoopEnd
    <2>7. CASE IrqExit
      BY <1>1, <2>7 DEF IrqExit
    <2>8. CASE IrqCallback
      <3>1. calls' = [calls EXCEPT ![cbStatus] = @ + 1] /\ cbStatus \in Statuses
        BY <1>1, <2>8 DEF IrqCallback, Notify
      <3>2. /\ irqPc' = "ring" <=> cbStatus = "RxRingBufferOverrun"
            /\ irqPc' # "callback"
        BY <2>8, <3>1 DEF IrqCallback, AfterCallback, Statuses
      <3>3. RingFull' = RingFull /\ UNCHANGED <<overrun, hwLost, rxErr>>
        BY <2>8 DEF IrqCallback, RingFull, hwVars
      <3> QED
        BY <1>1, <2>8, <3>1, <3>2, <3>3 DEF IrqCallback, Statuses
    <2> QED
      BY <1>5, <2>1, <2>2, <2>3, <2>4, <2>5, <2>6, <2>7, <2>8 DEF Irq
  <1> QED
    BY <1>2, <1>3, <1>4, <1>5 DEF Next

\* A byte dropped from the ring had its overrun callback before it was
\* overwritten, and a byte lost in the FIFO raised an error that is pending
\* or was reported.
THEOREM Notification == Spec /\ StaticRing => []LossIsNotified
  <1>1. Init /\ StaticRing => TypeInv /\ Announced
    <2>1. Init => Announced
      BY DEF Init, HwInit, Announced, Statuses
    <2> QED
      BY <2>1, TypeInit
  <1>2. TypeInv /\ Announced /\ [Next]_driverVars => (TypeInv /\ Announced)'
    BY TypeStep, AnnouncedStep
  <1>3. TypeInv /\ Announced => LossIsNotified
    BY DEF TypeInv, TypeOK, RxTypeOK, Announced, LossIsNotified
  <1> QED
    BY <1>1, <1>2, <1>3, PTL DEF Spec
-----------------------------------------------------------------------------
(* A request ends when it is complete *)

\* An open request lacks exactly rxDataSize bytes.  With a ring buffer it is
\* open only while the ring is empty, and busy exactly while it is open.
OpenRequest ==
  /\ rxDataSize # 0 => Len(received) + rxDataSize = request.start + request.len
  /\ rxPc = "recv_cb" => rxDataSize = 0
  /\ rxRingBuffer => (rxState = "busy" <=> rxDataSize # 0)

Requests == OpenRequest /\ RxIdleMeansComplete /\ DirectOnlyWhenRingEmpty

requestVars == <<rxDataSize, rxState, rxRingBuffer, rxRingBufferHead,
                 rxRingBufferTail, received, request>>

\* The actions that neither serve a request nor touch the ring: they make no
\* callback of a completed request due.
LEMMA RequestFrame ==
  ASSUME TypeInv, [Next]_driverVars
  PROVE  \/ \E len \in 1 .. MaxLen : RecvFromRing(len) \/ RecvDirect(len)
         \/ RecvSetState \/ AbortRxEnd \/ IrqRecvUser \/ IrqRingPut
         \/ /\ UNCHANGED requestVars
            /\ rxPc' = "recv_cb" => rxPc = "recv_cb"
            /\ irqPc' = "callback" /\ cbStatus' = "RxIdle"
                 => irqPc = "callback" /\ cbStatus = "RxIdle"
  <1> USE DEF requestVars, rxVars, ringVars, rxHist, irqVars, threadVars
  <1>1. CASE UNCHANGED driverVars
    BY <1>1 DEF driverVars
  <1>2. CASE RxThread
    BY <1>2, StaticRxThread
       DEF RxGoto, RecvCallback, RxReadEnables, RxWriteEnables,
           AbortRxDisable, AbortRxEmpty
  <1>3. CASE TxThread
    BY <1>3 DEF TxThread, TxGoto, Send, SendSetState, SendReadEnables,
       SendWriteEnables, AbortTxDisable, AbortTxEmpty, AbortTxSize,
       AbortTxState
  <1>4. CASE Irq
    <2> USE DEF IrqGoto
    <2>1. CASE IrqCallback
      <3>1. cbStatus \in Statuses
        BY <2>1 DEF IrqCallback, TypeInv, TypeOK, ControlTypeOK, PutReady
      <3>2. irqPc' # "callback"
        BY <2>1, <3>1 DEF IrqCallback, AfterCallback, Statuses
      <3> QED
        BY <2>1, <3>2 DEF IrqCallback
    <2>2. CASE IrqEnter \/ IrqRecvRing \/ IrqSend \/ IrqTxIdle \/ IrqExit
      BY <2>2 DEF IrqEnter, IrqRecvRing, IrqSend, IrqTxIdle, IrqExit
    <2> QED
      BY <1>4, <2>1, <2>2 DEF Irq
  <1>5. CASE Hardware
    BY <1>5 DEF Hardware
  <1> QED
    BY <1>1, <1>2, <1>3, <1>4, <1>5 DEF Next

LEMMA RequestStep == TypeInv /\ Requests /\ [Next]_driverVars => Requests'
  <1> SUFFICES ASSUME TypeInv, Requests, [Next]_driverVars
               PROVE  Requests'
    OBVIOUS
  <1> USE DEF Requests, OpenRequest, RxIdleMeansComplete,
              DirectOnlyWhenRingEmpty
  <1>1. /\ rxDataSize \in Nat /\ rxState \in {"idle", "busy"}
        /\ received \in Seq(0 .. MaxIn) /\ Len(received) \in Nat
        /\ request.start \in Nat /\ request.len \in Nat
        /\ RingLength \in Nat /\ rxRingBuffer \in BOOLEAN
    <2>1. received \in Seq(0 .. MaxIn)
      BY DEF TypeInv, TypeOK, RxTypeOK
    <2> QED
      BY <2>1, LenProperties, RingFacts, DriverAssumption
         DEF TypeInv, TypeOK, RxTypeOK, RingTypeOK
  <1>2. ASSUME NEW len \in 1 .. MaxLen, RecvFromRing(len)
        PROVE  Requests'
    <2> DEFINE n == BytesToCopy(len)
    <2>1. n \in 0 .. RingLength /\ n <= len /\ (n = RingLength \/ n = len)
      BY <1>1 DEF BytesToCopy
    <2>2. Len(received') = Len(received) + n
      <3>1. SubSeq(InRing, 1, n) \in Seq(0 .. MaxIn)
            /\ Len(SubSeq(InRing, 1, n)) = n
        BY <2>1, RingFacts, Prefix
      <3> QED
        BY <1>1, <1>2, <3>1, ConcatProperties DEF RecvFromRing
    <2>3. n = RingLength => rxRingBufferTail' = rxRingBufferHead
      BY <1>2, <2>1, TakeLength DEF RecvFromRing
    <2>4. /\ rxState = "idle" /\ rxRingBuffer /\ irqPc' = "off"
          /\ request' = [start |-> Len(received), len |-> len]
          /\ UNCHANGED <<rxRingBuffer, rxRingBufferHead>>
          /\ IF len - n = 0
             THEN rxPc' = "recv_cb" /\ UNCHANGED rxVars
             ELSE /\ rxPc' = "idle"
                  /\ rxDataSize' = len - n /\ rxState' = "busy"
      BY <1>2 DEF RecvFromRing, RxGoto, Runs, irqVars
    <2>5. rxDataSize = 0
      BY <1>1, <2>4
    <2> HIDE DEF n
    <2> QED
      BY <1>1, <2>1, <2>2, <2>3, <2>4, <2>5 DEF rxVars
  <1>3. ASSUME NEW len \in 1 .. MaxLen, RecvDirect(len)
        PROVE  Requests'
    BY <1>1, <1>3 DEF RecvDirect, RxGoto, Runs, irqVars, ringVars
  <1>4. CASE RecvSetState
    <2>1. ~rxRingBuffer
      BY <1>4 DEF RecvSetState, RxGoto, TypeInv, RingShape
    <2> QED
      BY <1>1, <1>4, <2>1 DEF RecvSetState, RxGoto, Runs, irqVars, ringVars
  <1>5. CASE AbortRxEnd
    BY <1>1, <1>5 DEF AbortRxEnd, RxGoto, Runs, irqVars, ringVars
  <1>6. CASE IrqRecvUser
    <2>1. Len(received') = Len(received) + 1
      <3>1. Head(rxFifo) \in 0 .. MaxIn
        BY <1>6, RxFifoFacts
           DEF IrqRecvUser, AtReceive, CanReceive, TypeInv, TypeOK
      <3> QED
        BY <1>1, <1>6, <3>1, AppendProperties DEF IrqRecvUser
    <2>2. /\ irqPc # "callback" /\ cbStatus = NoStatus
          /\ rxPc # "recv_cb"
      BY <1>6 DEF IrqRecvUser, AtReceive, TypeInv, PutReady
    <2> QED
      BY <1>1, <1>6, <2>1, <2>2
         DEF IrqRecvUser, IrqGoto, LastRx, threadVars, ringVars, NoStatus
  <1>7. CASE IrqRingPut
    <2>1. rxDataSize = 0 /\ irqPc' = "send" /\ rxDataSize' = 0
      BY <1>7 DEF IrqRingPut, IrqGoto, rxVars, TypeInv, PutReady, BeforePut
    <2> QED
      BY <1>1, <1>7, <2>1 DEF IrqRingPut, IrqGoto, rxVars, threadVars
  <1>8. CASE /\ UNCHANGED requestVars
             /\ rxPc' = "recv_cb" => rxPc = "recv_cb"
             /\ irqPc' = "callback" /\ cbStatus' = "RxIdle"
                  => irqPc = "callback" /\ cbStatus = "RxIdle"
    BY <1>8 DEF requestVars
  <1> QED
    BY <1>2, <1>3, <1>4, <1>5, <1>6, <1>7, <1>8, RequestFrame

LEMMA RequestInvariant == Spec /\ StaticRing => [](TypeInv /\ Requests)
  <1>1. Init /\ StaticRing => TypeInv /\ Requests
    <2>1. Init => Requests
      BY DEF Init, Requests, OpenRequest, RxIdleMeansComplete,
             DirectOnlyWhenRingEmpty
    <2> QED
      BY <2>1, TypeInit
  <1>2. TypeInv /\ Requests /\ [Next]_driverVars => (TypeInv /\ Requests)'
    BY TypeStep, RequestStep
  <1> QED
    BY <1>1, <1>2, PTL DEF Spec

\* RxIdle is reported, by the handler or by the receiving thread, only when
\* the request has got exactly the bytes it asked for.
THEOREM Completion == Spec /\ StaticRing => []RxIdleMeansComplete
  BY RequestInvariant, PTL DEF Requests

\* While a request takes bytes from the handler the ring is empty, so that no
\* byte overtakes another.
THEOREM RingFirst == Spec /\ StaticRing => []DirectOnlyWhenRingEmpty
  BY RequestInvariant, PTL DEF Requests

\* With a ring buffer a finished receive request never leaves the driver busy.
\* (Without one it can: the run UsartSendStorm shows the same for a send.)
THEOREM BusyWithRing ==
  Spec /\ StaticRing /\ RingMode = "always" => []RxBusyMeansUnfinished
  <1>1. TypeInv /\ Requests /\ RingMode = "always" => RxBusyMeansUnfinished
    BY DEF TypeInv, RingShape, Requests, OpenRequest, RxBusyMeansUnfinished
  <1>2. CASE RingMode = "always"
    <2>1. TypeInv /\ Requests => RxBusyMeansUnfinished
      BY <1>1, <1>2
    <2> QED
      BY <2>1, RequestInvariant, PTL
  <1>3. CASE RingMode # "always"
    BY <1>3
  <1> QED
    BY <1>2, <1>3

-----------------------------------------------------------------------------
(* What is sent is what was asked for *)

\* The numbers from 1 to n: the first n bytes the application asked to send.
FirstBytes(n) == [i \in 1 .. n |-> i]

LEMMA FirstBytesAppend ==
  ASSUME NEW n \in Nat
  PROVE  /\ FirstBytes(n) \in Seq(Nat) /\ Len(FirstBytes(n)) = n
         /\ Append(FirstBytes(n), n + 1) = FirstBytes(n + 1)
  <1>1. FirstBytes(n) \in [1 .. n -> Nat]
    BY DEF FirstBytes
  <1>2. FirstBytes(n) \in Seq(Nat) /\ Len(FirstBytes(n)) = n
    BY <1>1, FunctionIsSeq
  <1>3. FirstBytes(n + 1) \in [1 .. n + 1 -> Nat]
    BY DEF FirstBytes
  <1>4. FirstBytes(n + 1) \in Seq(Nat) /\ Len(FirstBytes(n + 1)) = n + 1
    BY <1>3, FunctionIsSeq
  <1>5. /\ Append(FirstBytes(n), n + 1) \in Seq(Nat)
        /\ Len(Append(FirstBytes(n), n + 1)) = n + 1
        /\ \A i \in 1 .. n : Append(FirstBytes(n), n + 1)[i] = FirstBytes(n)[i]
        /\ Append(FirstBytes(n), n + 1)[n + 1] = n + 1
    BY <1>2, AppendProperties
  <1>6. \A i \in 1 .. n + 1 :
          Append(FirstBytes(n), n + 1)[i] = FirstBytes(n + 1)[i]
    BY <1>5 DEF FirstBytes
  <1> QED
    BY <1>2, <1>4, <1>5, <1>6, SeqEqual

\* Shifting a byte out, or writing one, does not reorder the bytes.
LEMMA ShiftConcat ==
  ASSUME NEW s \in Seq(Nat), NEW f \in Seq(Nat), f # <<>>
  PROVE  Append(s, Head(f)) \o Tail(f) = s \o f
  <1>1. /\ Head(f) \in Nat /\ Tail(f) \in Seq(Nat)
        /\ Len(Tail(f)) = Len(f) - 1 /\ Len(f) \in Nat
        /\ \A i \in 1 .. Len(Tail(f)) : Tail(f)[i] = f[i + 1]
        /\ Head(f) = f[1]
    BY HeadTailProperties, LenProperties
  <1>2. <<Head(f)>> \in Seq(Nat) /\ Len(<<Head(f)>>) = 1
    BY <1>1
  <1>3. f = <<Head(f)>> \o Tail(f)
    <2> DEFINE g == <<Head(f)>> \o Tail(f)
    <2>1. /\ g \in Seq(Nat) /\ Len(g) = 1 + Len(Tail(f))
          /\ \A i \in 1 .. 1 + Len(Tail(f)) :
               g[i] = IF i <= 1 THEN <<Head(f)>>[i] ELSE Tail(f)[i - 1]
      BY <1>1, <1>2, ConcatProperties
    <2>2. <<Head(f)>>[1] = f[1]
      BY <1>1
    <2> HIDE DEF g
    <2>3. ASSUME NEW i \in 1 .. Len(f)
          PROVE  f[i] = g[i]
      <3>1. CASE i = 1
        BY <1>1, <2>1, <2>2, <3>1
      <3>2. CASE i > 1
        <4>1. /\ i - 1 \in 1 .. Len(Tail(f)) /\ i \in 1 .. 1 + Len(Tail(f))
              /\ (i - 1) + 1 = i
          BY <1>1, <3>2
        <4>2. g[i] = Tail(f)[i - 1]
          BY <2>1, <3>2, <4>1
        <4>3. Tail(f)[i - 1] = f[(i - 1) + 1]
          BY <1>1, <4>1
        <4> QED
          BY <4>1, <4>2, <4>3
      <3> QED
        BY <1>1, <3>1, <3>2
    <2> QED
      BY <1>1, <2>1, <2>3, SeqEqual DEF g
  <1>4. Append(s, Head(f)) = s \o <<Head(f)>>
    BY <1>1, AppendIsConcat
  <1>5. (s \o <<Head(f)>>) \o Tail(f) = s \o (<<Head(f)>> \o Tail(f))
    <2>1. <<Head(f)>> \in Seq(Nat) /\ Tail(f) \in Seq(Nat)
      BY <1>1, <1>2
    <2> QED
      BY <2>1, ConcatAssociative, SMTT(30)
  <1> QED
    BY <1>3, <1>4, <1>5

LEMMA AppendConcat ==
  ASSUME NEW s \in Seq(Nat), NEW f \in Seq(Nat), NEW b \in Nat
  PROVE  s \o Append(f, b) = Append(s \o f, b)
  <1>1. s \o f \in Seq(Nat) /\ <<b>> \in Seq(Nat)
    BY ConcatProperties
  <1>2. Append(f, b) = f \o <<b>> /\ Append(s \o f, b) = (s \o f) \o <<b>>
    BY <1>1, AppendIsConcat
  <1> QED
    BY <1>1, <1>2, ConcatAssociative
\* As long as no send was aborted, the bytes written are those asked for less
\* those of the open transfer; nothing is open when the driver is idle.
Sends ==
  used["abortTx"] = 0 =>
    /\ TxConserved
    /\ txData \in Nat \ {0}
    /\ txPc \in {"idle", "send_state", "send_read", "send_write"}
    /\ txPc # "send_state" /\ txState = "idle" => txDataSize = 0
    /\ irqPc = "callback" /\ cbStatus = "TxIdle"
         => txFifo = <<>> /\ ~txLine /\ Len(sent) = asked

sendVars == <<txVars, asked, sent, txFifo, txLine, used["abortTx"]>>

\* The actions that neither begin a send nor move a byte to send: they make
\* no TxIdle callback due.
LEMMA SendFrame ==
  ASSUME TypeInv, [Next]_driverVars
  PROVE  \/ \E len \in 1 .. MaxLen : Send(len)
         \/ SendSetState \/ AbortTxDisable \/ AbortTxEmpty \/ AbortTxSize
         \/ AbortTxState \/ IrqSend \/ IrqTxIdle
         \/ Hardware /\ (Shift \/ ShiftDone)
         \/ /\ UNCHANGED sendVars
            /\ txPc' # txPc => txPc' \in {"idle", "send_write"}
                               /\ txPc \in {"send_read", "send_write"}
            /\ irqPc' = "callback" /\ cbStatus' = "TxIdle"
                 => irqPc = "callback" /\ cbStatus = "TxIdle"
  <1> USE DEF sendVars, txVars, txHist, irqVars, hwVars, fifoVars, lineVars,
              hwButEnables, threadVars
  <1>1. CASE UNCHANGED driverVars
    BY <1>1 DEF driverVars
  <1>2. CASE RxThread
    <2> USE DEF RxGoto
    <2>1. used'["abortTx"] = used["abortTx"]
      <3>1. used \in [Kinds -> Nat]
        BY DEF TypeInv, TypeOK, ControlTypeOK
      <3> QED
        BY <1>2, <3>1, StaticRxThread
           DEF RecvFromRing, RecvDirect, RecvCallback, RecvSetState,
               RxReadEnables, RxWriteEnables, AbortRxDisable, AbortRxEmpty,
               AbortRxEnd, Use, Kinds
    <2> QED
      BY <1>2, <2>1, StaticRxThread
         DEF RecvFromRing, RecvDirect, RecvCallback, RecvSetState,
             RxReadEnables, RxWriteEnables, AbortRxDisable, AbortRxEmpty,
             AbortRxEnd
  <1>3. CASE TxThread
    BY <1>3 DEF TxThread, TxGoto, SendReadEnables, SendWriteEnables
  <1>4. CASE Irq
    <2> USE DEF IrqGoto
    <2>1. CASE IrqCallback
      <3>1. cbStatus \in Statuses
        BY <2>1 DEF IrqCallback, TypeInv, TypeOK, ControlTypeOK, PutReady
      <3>2. irqPc' # "callback"
        BY <2>1, <3>1 DEF IrqCallback, AfterCallback, Statuses
      <3> QED
        BY <2>1, <3>2 DEF IrqCallback
    <2>2. CASE \/ IrqEnter \/ IrqRecvUser \/ IrqRecvRing \/ IrqRingPut
               \/ IrqExit
      BY <2>2 DEF IrqEnter, IrqRecvUser, IrqRecvRing, IrqRingPut, IrqExit,
         AtReceive, TypeInv, PutReady
    <2> QED
      BY <1>4, <2>1, <2>2 DEF Irq
  <1>5. CASE Hardware /\ Arrive
    BY <1>5 DEF Hardware, Arrive
  <1> QED
    BY <1>1, <1>2, <1>3, <1>4, <1>5 DEF Next, Hardware, HwNext
LEMMA SendsStep == TypeInv /\ Sends /\ [Next]_driverVars => Sends'
  <1> SUFFICES ASSUME TypeInv, Sends, [Next]_driverVars, used'["abortTx"] = 0
               PROVE  /\ TxConserved'
                      /\ txData' \in Nat \ {0}
                      /\ txPc' \in {"idle", "send_state", "send_read",
                                    "send_write"}
                      /\ txPc' # "send_state" /\ txState' = "idle"
                           => txDataSize' = 0
                      /\ irqPc' = "callback" /\ cbStatus' = "TxIdle"
                           => txFifo' = <<>> /\ ~txLine' /\ Len(sent') = asked'
    BY DEF Sends
  <1> DEFINE Goal == /\ TxConserved'
                     /\ txData' \in Nat \ {0}
                     /\ txPc' \in {"idle", "send_state", "send_read",
                                   "send_write"}
                     /\ txPc' # "send_state" /\ txState' = "idle"
                          => txDataSize' = 0
                     /\ irqPc' = "callback" /\ cbStatus' = "TxIdle"
                          => txFifo' = <<>> /\ ~txLine' /\ Len(sent') = asked'
  <1>1. /\ used \in [Kinds -> Nat] /\ used["abortTx"] \in Nat
        /\ txDataSize \in Nat /\ asked \in Nat /\ txState \in {"idle", "busy"}
        /\ txFifo \in Seq(Nat) /\ sent \in Seq(Nat) /\ txLine \in BOOLEAN
        /\ irqPc = "callback" <=> cbStatus # NoStatus
    BY DriverAssumption
       DEF TypeInv, TypeOK, ControlTypeOK, TxTypeOK, HwTypeOK, Kinds, PutReady
  <1>2. ~AbortTxDisable
    BY <1>1 DEF AbortTxDisable, Use, Kinds
  <1>3. used["abortTx"] = 0 =>
          /\ sent \o txFifo = FirstBytes(txData - 1)
          /\ txData + txDataSize = asked + 1
          /\ txData \in Nat \ {0}
          /\ txPc \in {"idle", "send_state", "send_read", "send_write"}
          /\ txPc # "send_state" /\ txState = "idle" => txDataSize = 0
          /\ irqPc = "callback" /\ cbStatus = "TxIdle"
               => txFifo = <<>> /\ ~txLine /\ Len(sent) = asked
    BY DEF Sends, TxConserved, FirstBytes
  <1>4. /\ sent' \o txFifo' = FirstBytes(txData' - 1)
        /\ txData' + txDataSize' = asked' + 1
        => TxConserved'
    BY DEF TxConserved, FirstBytes
  <1> USE DEF txVars, txHist, hwVars, fifoVars, lineVars, irqVars, threadVars
  <1>5. ASSUME NEW len \in 1 .. MaxLen, Send(len)
        PROVE  Goal
    <2>1. used["abortTx"] = 0
      BY <1>1, <1>5 DEF Send, Use, Kinds
    <2>2. /\ txPc = "idle" /\ txState = "idle" /\ txPc' = "send_state"
          /\ irqPc' = "off" /\ len \in Nat
          /\ txData' = asked + 1 /\ txDataSize' = len /\ asked' = asked + len
          /\ UNCHANGED <<sent, txFifo>>
      BY <1>5, DriverAssumption DEF Send, TxGoto, Runs
    <2>3. txData = asked + 1
      BY <1>1, <1>3, <2>1, <2>2
    <2>4. txData' = txData /\ txData' + txDataSize' = asked' + 1
      BY <1>1, <2>2, <2>3
    <2> QED
      BY <1>3, <1>4, <2>1, <2>2, <2>4
  <1>6. CASE SendSetState
    <2>1. /\ used["abortTx"] = 0 /\ txPc' = "send_read" /\ txState' = "busy"
          /\ irqPc' = "off"
          /\ UNCHANGED <<sent, txFifo, txData, txDataSize, asked>>
      BY <1>6 DEF SendSetState, TxGoto, Runs
    <2> QED
      BY <1>3, <1>4, <2>1
  <1>7. CASE AbortTxEmpty \/ AbortTxSize \/ AbortTxState
    <2>1. /\ txPc \in {"abort_empty", "abort_size", "abort_state"}
          /\ used["abortTx"] = 0
      BY <1>7 DEF AbortTxEmpty, AbortTxSize, AbortTxState, TxGoto
    <2> QED
      BY <1>3, <2>1
  <1>8. CASE IrqSend
    <2>1. /\ used["abortTx"] = 0 /\ txDataSize # 0 /\ irqPc' = "recv"
          /\ txFifo' = Append(txFifo, txData) /\ txData' = txData + 1
          /\ txDataSize' = txDataSize - 1
          /\ txState' = IF txDataSize = 1 THEN "idle" ELSE txState
          /\ UNCHANGED <<sent, asked, txPc>>
      BY <1>8 DEF IrqSend, AtSend, CanSend, LastTx, IrqGoto, TypeInv,
         HandlerFlags
    <2>2. sent \o Append(txFifo, txData) = Append(sent \o txFifo, txData)
      BY <1>1, <1>3, <2>1, AppendConcat
    <2>3. Append(FirstBytes(txData - 1), txData) = FirstBytes(txData)
      <3>1. txData - 1 \in Nat /\ (txData - 1) + 1 = txData
        BY <1>3, <2>1
      <3> QED
        BY <3>1, FirstBytesAppend
    <2>4. txData' - 1 = txData /\ txData' \in Nat \ {0}
          /\ txData' + txDataSize' = asked' + 1
      <3>1. /\ txData \in Nat \ {0} /\ txDataSize \in Nat
            /\ txData + txDataSize = asked + 1
        BY <1>1, <1>3, <2>1
      <3>2. /\ txData' = txData + 1 /\ txDataSize' = txDataSize - 1
            /\ asked' = asked
        BY <2>1
      <3> QED
        BY <3>1, <3>2
    <2>5. sent' \o txFifo' = FirstBytes(txData' - 1)
      BY <1>3, <2>1, <2>2, <2>3, <2>4
    <2>6. txPc' # "send_state" /\ txState' = "idle" => txDataSize' = 0
      BY <1>1, <1>3, <2>1
    <2> QED
      BY <1>3, <1>4, <2>1, <2>4, <2>5, <2>6
  <1>9. CASE IrqTxIdle
    <2>1. /\ used["abortTx"] = 0 /\ irqPc \in {"recv", "send"} /\ ~CanSend
          /\ irqPc' = "callback" /\ cbStatus' = "TxIdle"
               => TxIdle /\ txState = "idle"
          /\ UNCHANGED <<sent, txFifo, txLine, txData, txDataSize, txState,
                         asked, txPc>>
      BY <1>9 DEF IrqTxIdle, AtLoopEnd, IrqGoto, TxIdleDue, NoStatus
    <2>2. ASSUME irqPc' = "callback", cbStatus' = "TxIdle"
          PROVE  txFifo = <<>> /\ ~txLine /\ Len(sent) = asked
      <3>1. txFifo = <<>> /\ ~txLine
        BY <2>1, <2>2 DEF TxIdle
      <3>2. txDataSize = 0
        <4>1. TxNotFull
          BY <3>1, EmptySeq, FifoAssumption DEF TxNotFull
        <4> QED
          BY <2>1, <4>1 DEF CanSend, TypeInv, HandlerFlags
      <3>3. sent = FirstBytes(txData - 1) /\ txData - 1 \in Nat
        BY <1>1, <1>3, <2>1, <3>1, ConcatEmptySeq
      <3>4. Len(sent) = txData - 1
        BY <3>3, FirstBytesAppend
      <3> QED
        BY <1>1, <1>3, <2>1, <3>1, <3>2, <3>4
    <2> QED
      BY <1>3, <1>4, <2>1, <2>2
  <1>10. CASE Hardware /\ Shift
    <2>1. /\ used["abortTx"] = 0 /\ txFifo # <<>>
          /\ sent' = Append(sent, Head(txFifo)) /\ txFifo' = Tail(txFifo)
          /\ UNCHANGED <<txData, txDataSize, txState, asked, txPc, irqPc,
                         cbStatus>>
      BY <1>10 DEF Hardware, Shift
    <2>2. sent' \o txFifo' = sent \o txFifo
      BY <1>1, <2>1, ShiftConcat
    <2> QED
      BY <1>3, <1>4, <2>1, <2>2
  <1>11. CASE Hardware /\ ShiftDone
    <2>1. /\ used["abortTx"] = 0 /\ ~txLine'
          /\ UNCHANGED <<sent, txFifo, txData, txDataSize, txState, asked,
                         txPc, irqPc, cbStatus>>
      BY <1>11 DEF Hardware, ShiftDone
    <2> QED
      BY <1>3, <1>4, <2>1
  <1>12. CASE /\ UNCHANGED sendVars
              /\ txPc' # txPc => txPc' \in {"idle", "send_write"}
                                 /\ txPc \in {"send_read", "send_write"}
              /\ irqPc' = "callback" /\ cbStatus' = "TxIdle"
                   => irqPc = "callback" /\ cbStatus = "TxIdle"
    BY <1>3, <1>4, <1>12 DEF sendVars
  <1>13. CASE \E len \in 1 .. MaxLen : Send(len)
    BY <1>5, <1>13
  <1> QED
    BY <1>2, <1>6, <1>7, <1>8, <1>9, <1>10, <1>11, <1>12, <1>13, SendFrame,
       Zenon

LEMMA SendInvariant == Spec /\ StaticRing => [](TypeInv /\ Sends)
  <1>1. Init /\ StaticRing => TypeInv /\ Sends
    <2>1. ASSUME Init
          PROVE  Sends
      <3>1. FirstBytes(0) = <<>>
        BY FirstBytesAppend
      <3>2. /\ sent = <<>> /\ txFifo = <<>> /\ txData = 1 /\ txDataSize = 0
            /\ asked = 0 /\ txPc = "idle" /\ irqPc = "off"
        BY <2>1 DEF Init, HwInit
      <3>3. <<>> \o <<>> = <<>>
        OBVIOUS
      <3> QED
        BY <3>1, <3>2, <3>3 DEF Sends, TxConserved, FirstBytes
    <2> QED
      BY <2>1, TypeInit
  <1>2. TypeInv /\ Sends /\ [Next]_driverVars => (TypeInv /\ Sends)'
    BY TypeStep, SendsStep
  <1> QED
    BY <1>1, <1>2, PTL DEF Spec

\* The bytes on the line and in the FIFO are the first ones asked for, in
\* order and none twice, and the others are still to be written.
THEOREM SendsInOrder == Spec /\ StaticRing => []TxConserved
  <1>1. TypeInv /\ Sends => TxConserved
    BY DEF Sends, TxConserved
  <1> QED
    BY <1>1, SendInvariant, PTL

\* TxIdle is reported only when all that was asked for is out on the line.
THEOREM IdleAfterSend == Spec /\ StaticRing => []TxIdleMeansSent
  <1>1. TypeInv /\ Sends => TxIdleMeansSent
    BY DEF Sends, TxIdleMeansSent
  <1> QED
    BY <1>1, SendInvariant, PTL
=============================================================================
