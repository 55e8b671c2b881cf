--------------------------- MODULE UsartTypeProofs ---------------------------
(***************************************************************************)
(* Type correctness of the driver of UsartDriver, for every size of the    *)
(* FIFO and of the ring buffer and for all bounds, and the facts about the *)
(* ring and the FIFOs that the proofs of its safety rest on.  The theorems *)
(* are about the static modes: the ring buffer is started before use or    *)
(* never, and its size fits the uint16_t indices (StaticRing).             *)
(***************************************************************************)
EXTENDS UsartProperties, SequenceTheorems, TLAPS

\* What the caller of the driver has to respect for the theorems below.
StaticRing == RingMode \in {"none", "always"} /\ RingSize <= IndexMod

-----------------------------------------------------------------------------
(* The inductive invariant *)

\* The ring buffer is there from the start or never.
RingShape ==
  /\ rxRingBuffer = (RingMode = "always")
  /\ rxRingBufferSize = (IF rxRingBuffer THEN RingSize ELSE 0)
  /\ ~rxRingBuffer => rxRingBufferHead = 0 /\ rxRingBufferTail = 0
  /\ rxPc \in {"idle", "recv_state", "recv_read", "recv_write", "recv_cb",
               "abort_empty", "abort_end"}
  /\ rxPc = "recv_cb" => rxRingBuffer
  /\ rxPc \in {"recv_state", "recv_read", "recv_write", "abort_empty"}
       => ~rxRingBuffer

\* The flags the handler computed once still say what they said then: the
\* threads stand still while it runs.
HandlerFlags ==
  /\ sendEnabled <=> irqPc # "off" /\ txDataSize # 0
  /\ receiveEnabled => irqPc # "off" /\ (rxDataSize # 0 \/ rxRingBuffer)

\* The byte the handler is about to put into the ring is there and nobody
\* asked for it.
BeforePut ==
  \/ irqPc = "ring"
  \/ irqPc = "callback" /\ cbStatus = "RxRingBufferOverrun"

PutReady ==
  /\ irqPc = "callback" <=> cbStatus # NoStatus
  /\ BeforePut => rxRingBuffer /\ rxFifo # <<>> /\ rxDataSize = 0

TypeInv == StaticRing /\ TypeOK /\ RingShape /\ HandlerFlags /\ PutReady

-----------------------------------------------------------------------------
(* The arithmetic of the ring *)

\* A ring of size slots whose indices are head and tail.
LEMMA RingArithmetic ==
  ASSUME NEW size \in Nat, NEW head \in Nat, NEW tail \in Nat,
         head < size, tail < size
  PROVE  /\ RxRingBufferLength(head, tail, size) \in 0 .. size - 1
         /\ RxRingBufferLength(head, tail, size) = 0 <=> head = tail
         /\ \A n \in 0 .. RxRingBufferLength(head, tail, size) :
              Advance(tail, n, size) \in 0 .. size - 1
         /\ Advance(tail, RxRingBufferLength(head, tail, size), size) = head
         /\ \A n \in 0 .. RxRingBufferLength(head, tail, size) :
              RxRingBufferLength(head, Advance(tail, n, size), size)
                = RxRingBufferLength(head, tail, size) - n
  BY DEF RxRingBufferLength, Advance

\* An index that is incremented stays in the ring.
LEMMA NextIndexType ==
  ASSUME NEW size \in Nat, size <= IndexMod, NEW i \in Nat, i < size
  PROVE  /\ NextIndex(i, size) \in 0 .. size - 1
         /\ NextIndex(i, size) = IF i + 1 = size THEN 0 ELSE i + 1
  <1>1. CASE i + 1 = size
    BY <1>1 DEF NextIndex
  <1>2. CASE i + 1 # size
    <2>1. i + 1 \in 0 .. IndexMod - 1
      BY <1>2, IndexModAssumption
    <2>2. (i + 1) % IndexMod = i + 1
      BY <2>1, IndexModAssumption
    <2> QED
      BY <1>2, <2>2 DEF NextIndex
  <1> QED
    BY <1>1, <1>2

\* Storing a byte makes the ring one byte longer, unless it was full.
LEMMA PutLength ==
  ASSUME NEW size \in Nat, size <= IndexMod,
         NEW head \in Nat, NEW tail \in Nat, head < size, tail < size
  PROVE  IF IsRxRingBufferFull(head, tail, size)
         THEN RxRingBufferLength(NextIndex(head, size),
                                 NextIndex(tail, size), size)
                = RxRingBufferLength(head, tail, size)
         ELSE RxRingBufferLength(NextIndex(head, size), tail, size)
                = RxRingBufferLength(head, tail, size) + 1
  BY NextIndexType DEF IsRxRingBufferFull, RxRingBufferLength

\* A function on 1 .. n is a sequence of length n.
LEMMA FunctionIsSeq ==
  ASSUME NEW S, NEW n \in Nat, NEW c \in [1 .. n -> S]
  PROVE  c \in Seq(S) /\ Len(c) = n
  OBVIOUS

\* What the ring holds is as long as its length says and consists of its data.
LEMMA ContentsType ==
  ASSUME NEW size \in Nat,
         NEW data \in [0 .. RingSize - 1 -> 0 .. MaxIn],
         NEW head \in Nat, NEW tail \in Nat,
         \/ head < size /\ tail < size /\ size = RingSize
         \/ head = tail /\ size = 0
  PROVE  /\ RingContents(data, head, tail, size) \in Seq(0 .. MaxIn)
         /\ Len(RingContents(data, head, tail, size))
              = RxRingBufferLength(head, tail, size)
  <1> DEFINE n == RxRingBufferLength(head, tail, size)
             c == RingContents(data, head, tail, size)
  <1>1. n \in Nat
    BY DEF RxRingBufferLength
  <1>2. ASSUME NEW i \in 1 .. n
        PROVE  data[Advance(tail, i - 1, size)] \in 0 .. MaxIn
    <2>1. head < size /\ tail < size /\ size = RingSize
      BY <1>2 DEF RxRingBufferLength
    <2>2. n \in 0 .. size - 1
      BY <2>1, RingArithmetic
    <2>3. Advance(tail, i - 1, size) \in 0 .. RingSize - 1
      BY <2>1, <2>2 DEF Advance
    <2> QED
      BY <2>3
  <1>3. c = [i \in 1 .. n |-> data[Advance(tail, i - 1, size)]]
    BY DEF RingContents
  <1> HIDE DEF n
  <1>4. c \in [1 .. n -> 0 .. MaxIn]
    BY <1>2, <1>3
  <1> QED
    BY <1>1, <1>4, FunctionIsSeq DEF n

\* A sequence appended to another.
LEMMA ConcatType ==
  ASSUME NEW S, NEW s \in Seq(S), NEW t \in Seq(S)
  PROVE  s \o t \in Seq(S)
  OBVIOUS

\* A prefix of a sequence.
LEMMA Prefix ==
  ASSUME NEW S, NEW s \in Seq(S), NEW m \in 0 .. Len(s)
  PROVE  /\ SubSeq(s, 1, m) \in Seq(S)
         /\ Len(SubSeq(s, 1, m)) = m
  <1>1. \A i \in 1 .. m : s[i] \in S
    BY ElementOfSeq
  <1>2. m \in Nat
    OBVIOUS
  <1> QED
    BY <1>1, <1>2, SubSeqProperties

-----------------------------------------------------------------------------
(* Type correctness *)

LEMMA TypeInit == Init /\ StaticRing => TypeInv
  <1> SUFFICES ASSUME Init, StaticRing
               PROVE  TypeInv
    OBVIOUS
  <1> USE DriverAssumption, FifoAssumption
  <1>1. HwTypeOK
    <2>1. intEn \in SUBSET Interrupts
      BY DEF Init, HwInit, Interrupts
    <2>2. rxFifo \in Seq(1 .. MaxIn) /\ txFifo \in Seq(Nat) /\ sent \in Seq(Nat)
      BY DEF Init, HwInit
    <2>3. Len(rxFifo) = 0 /\ Len(txFifo) = 0
      BY DEF Init, HwInit
    <2>4. /\ rxTrig \in 0 .. FifoSize - 1
          /\ nIn \in 0 .. MaxIn /\ hwLost \in 0 .. nIn
      BY DEF Init, HwInit
    <2>5. rxErr \in BOOLEAN /\ txLine \in BOOLEAN /\ txIdleEn \in BOOLEAN
      BY DEF Init, HwInit
    <2> QED
      BY <2>1, <2>2, <2>3, <2>4, <2>5 DEF HwTypeOK
  <1>2. RxTypeOK /\ RingTypeOK /\ TxTypeOK
    BY DEF Init, RxTypeOK, RingTypeOK, TxTypeOK, RingIndices
  <1>3. ControlTypeOK
    BY DEF Init, ControlTypeOK, RxPcs, TxPcs, IrqPcs, NoStatus
  <1>4. RingShape /\ HandlerFlags /\ PutReady
    BY DEF Init, StaticRing, RingShape, HandlerFlags, PutReady, BeforePut,
           NoStatus
  <1> QED
    BY <1>1, <1>2, <1>3, <1>4 DEF TypeInv, TypeOK

\* Counting a call or a callback.
LEMMA UseType ==
  ASSUME used \in [Kinds -> Nat], NEW k \in Kinds, NEW bound, Use(k, bound)
  PROVE  used' \in [Kinds -> Nat]
  BY DEF Use

LEMMA NotifyType ==
  ASSUME calls \in [Statuses -> Nat], NEW s \in Statuses, Notify(s)
  PROVE  calls' \in [Statuses -> Nat]
  BY DEF Notify

\* A step changes no conjunct of TypeInv whose variables it leaves alone.
LEMMA TypeFrame ==
  ASSUME TypeInv
  PROVE  /\ UNCHANGED hwVars => HwTypeOK'
         /\ UNCHANGED <<rxVars, received, flushed, overrun, request>>
              => RxTypeOK'
         /\ UNCHANGED ringVars => RingTypeOK'
         /\ UNCHANGED <<txVars, txHist>> => TxTypeOK'
         /\ UNCHANGED <<rxPc, rxRingBuffer, rxRingBufferSize,
                        rxRingBufferHead, rxRingBufferTail>> => RingShape'
         /\ UNCHANGED <<irqVars, txDataSize, rxDataSize, rxRingBuffer>>
              => HandlerFlags'
         /\ UNCHANGED <<irqVars, rxFifo, rxDataSize, rxRingBuffer>>
              => PutReady'
  <1> USE DEF TypeInv, TypeOK
  <1>1. UNCHANGED hwVars => HwTypeOK'
    BY DEF HwTypeOK, hwVars, fifoVars, enableVars, lineVars
  <1>2. UNCHANGED <<rxVars, received, flushed, overrun, request>> => RxTypeOK'
    BY DEF RxTypeOK, rxVars
  <1>3. UNCHANGED ringVars => RingTypeOK'
    BY DEF RingTypeOK, ringVars
  <1>4. UNCHANGED <<txVars, txHist>> => TxTypeOK'
    BY DEF TxTypeOK, txVars, txHist
  <1>5. UNCHANGED <<rxPc, rxRingBuffer, rxRingBufferSize, rxRingBufferHead,
                    rxRingBufferTail>> => RingShape'
    BY DEF RingShape
  <1>6. /\ UNCHANGED <<irqVars, txDataSize, rxDataSize, rxRingBuffer>>
             => HandlerFlags'
        /\ UNCHANGED <<irqVars, rxFifo, rxDataSize, rxRingBuffer>>
             => PutReady'
    BY DEF HandlerFlags, PutReady, BeforePut, irqVars
  <1> QED
    BY <1>1, <1>2, <1>3, <1>4, <1>5, <1>6
\* In every state of TypeInv the indices are those of a ring or of no ring.
LEMMA RingFacts ==
  ASSUME TypeInv
  PROVE  /\ RingLength \in Nat /\ Len(InRing) = RingLength
         /\ InRing \in Seq(0 .. MaxIn)
         /\ ~rxRingBuffer => RingLength = 0
         /\ rxRingBuffer =>
              /\ rxRingBufferSize = RingSize /\ RingSize <= IndexMod
              /\ RingLength \in 0 .. RingSize - 1
              /\ \A n \in 0 .. RingLength :
                   Advance(rxRingBufferTail, n, RingSize) \in RingIndices
  <1> DEFINE head == rxRingBufferHead
             tail == rxRingBufferTail
             size == rxRingBufferSize
  <1>1. /\ head \in Nat /\ tail \in Nat /\ size \in Nat
        /\ rxRingBuffer => head < size /\ tail < size /\ size = RingSize
        /\ ~rxRingBuffer => head = 0 /\ tail = 0 /\ size = 0
    BY DriverAssumption
       DEF TypeInv, TypeOK, RingTypeOK, RingShape, RingIndices
  <1>2. ringData \in [0 .. RingSize - 1 -> 0 .. MaxIn]
    BY DEF TypeInv, TypeOK, RingTypeOK, RingIndices
  <1>3. rxRingBuffer \in BOOLEAN /\ RingSize <= IndexMod
    BY DEF TypeInv, TypeOK, RingTypeOK, StaticRing
  <1> HIDE DEF head, tail, size
  <1>4. /\ RingContents(ringData, head, tail, size) \in Seq(0 .. MaxIn)
        /\ Len(RingContents(ringData, head, tail, size))
             = RxRingBufferLength(head, tail, size)
    <2>1. CASE rxRingBuffer
      BY <1>1, <1>2, <2>1, ContentsType
    <2>2. CASE ~rxRingBuffer
      BY <1>1, <1>2, <2>2, ContentsType
    <2> QED
      BY <2>1, <2>2
  <1>5. ~rxRingBuffer => RxRingBufferLength(head, tail, size) = 0
    BY <1>1 DEF RxRingBufferLength
  <1>6. rxRingBuffer => RxRingBufferLength(head, tail, size) \in 0 .. size - 1
    BY <1>1, RingArithmetic
  <1>7. rxRingBuffer =>
          \A n \in 0 .. RxRingBufferLength(head, tail, size) :
            Advance(tail, n, size) \in 0 .. size - 1
    <2> SUFFICES ASSUME rxRingBuffer
                 PROVE  \A n \in 0 .. RxRingBufferLength(head, tail, size) :
                          Advance(tail, n, size) \in 0 .. size - 1
      OBVIOUS
    <2>1. head < size /\ tail < size
      BY <1>1
    <2> QED
      BY <1>1, <2>1, RingArithmetic
  <1> QED
    BY <1>1, <1>3, <1>4, <1>5, <1>6, <1>7
       DEF head, tail, size, RingLength, InRing, RingIndices

\* In the static modes the ring buffer is neither started nor stopped.
LEMMA StaticRxThread ==
  ASSUME TypeInv, RxThread
  PROVE  \/ \E len \in 1 .. MaxLen : RecvFromRing(len) \/ RecvDirect(len)
         \/ RecvCallback \/ RecvSetState
         \/ RxReadEnables("recv_read", "recv_write")
         \/ RxWriteEnables("recv_write", {"RXLVL"})
         \/ AbortRxDisable \/ AbortRxEmpty \/ AbortRxEnd
  <1> USE DEF TypeInv, RingShape, StaticRing, RxGoto
  <1>1. ~StartRing /\ ~StartRingSize /\ ~StartRingHead /\ ~StartRingTail
        /\ ~StopRing /\ ~StopRingFields
    BY DEF StartRing, StartRingSize, StartRingHead, StartRingTail, StopRing,
           StopRingFields
  <1>2. /\ ~RxReadEnables("start_read", "start_write")
        /\ ~RxWriteEnables("start_write", {"RXLVL", "RXERR"})
    BY DEF RxReadEnables, RxWriteEnables
  <1> QED
    BY <1>1, <1>2 DEF RxThread

\* Type correctness of the steps of the receiving thread.
LEMMA TypeRxThread == TypeInv /\ RxThread => TypeInv'
  <1> SUFFICES ASSUME TypeInv, RxThread
               PROVE  TypeInv'
    OBVIOUS
  <1> USE TypeFrame DEF TypeInv, TypeOK, RxGoto, Runs
  <1> USE DEF rxVars, ringVars, txVars, txHist, irqVars, hwVars, fifoVars,
              enableVars, lineVars
  <1>1. ASSUME NEW len \in 1 .. MaxLen, RecvFromRing(len)
        PROVE  TypeInv'
    <2> USE <1>1 DEF RecvFromRing
    <2>1. BytesToCopy(len) \in 0 .. RingLength /\ BytesToCopy(len) <= len
      BY RingFacts DEF BytesToCopy
    <2>2. SubSeq(InRing, 1, BytesToCopy(len)) \in Seq(0 .. MaxIn)
      <3>1. /\ InRing \in Seq(0 .. MaxIn) /\ Len(InRing) = RingLength
            /\ RingLength \in Nat
        BY RingFacts
      <3> QED
        BY <2>1, <3>1, Prefix
    <2>3. Advance(rxRingBufferTail, BytesToCopy(len), rxRingBufferSize)
            \in RingIndices
      BY <2>1, RingFacts
    <2>4. len - BytesToCopy(len) \in 0 .. MaxLen
      BY <2>1, RingFacts, DriverAssumption
    <2>5. RxTypeOK'
      <3> USE DEF RxTypeOK
      <3>1. received' \in Seq(0 .. MaxIn)
        BY <2>2, ConcatType
      <3>2. /\ rxDataSize' \in 0 .. MaxLen /\ rxDataSizeAll' \in 0 .. MaxLen
            /\ rxState' \in {"idle", "busy"}
        BY <2>4
      <3>3. request' \in [start : Nat, len : 0 .. MaxLen]
        <4>1. Len(received) \in Nat /\ len \in 0 .. MaxLen
          OBVIOUS
        <4> QED
          BY <4>1
      <3> QED
        BY <3>1, <3>2, <3>3
    <2>6. RingTypeOK' /\ RingShape'
      BY <2>3 DEF RingTypeOK, RingShape
    <2>7. ControlTypeOK'
      BY UseType DEF ControlTypeOK, RxPcs, Kinds
    <2>8. HandlerFlags' /\ PutReady'
      BY DEF HandlerFlags, PutReady, BeforePut
    <2> QED
      BY <2>5, <2>6, <2>7, <2>8
  <1>2. ASSUME NEW len \in 1 .. MaxLen, RecvDirect(len)
        PROVE  TypeInv'
    <2> USE <1>2 DEF RecvDirect
    <2>1. RxTypeOK'
      BY DriverAssumption DEF RxTypeOK
    <2>2. ControlTypeOK'
      BY UseType DEF ControlTypeOK, RxPcs, Kinds
    <2>3. RingShape' /\ HandlerFlags' /\ PutReady'
      BY DEF RingShape, HandlerFlags, PutReady, BeforePut
    <2> QED
      BY <2>1, <2>2, <2>3
  <1>3. ASSUME RecvCallback
        PROVE  TypeInv'
    <2>1. ControlTypeOK' /\ RingShape'
      BY <1>3, NotifyType
         DEF RecvCallback, ControlTypeOK, RxPcs, Statuses, RingShape
    <2> QED
      BY <1>3, <2>1 DEF RecvCallback
  <1>4. ASSUME RecvSetState
        PROVE  TypeInv'
    <2>1. RxTypeOK' /\ ControlTypeOK' /\ RingShape'
      BY <1>4 DEF RecvSetState, RxTypeOK, ControlTypeOK, RxPcs, RingShape
    <2> QED
      BY <1>4, <2>1 DEF RecvSetState
  <1>5. ASSUME RxReadEnables("recv_read", "recv_write")
        PROVE  TypeInv'
    <2>1. ControlTypeOK' /\ RingShape'
      BY <1>5 DEF RxReadEnables, ControlTypeOK, RxPcs, RingShape, HwTypeOK
    <2> QED
      BY <1>5, <2>1 DEF RxReadEnables
  <1>6. ASSUME RxWriteEnables("recv_write", {"RXLVL"})
        PROVE  TypeInv'
    <2> USE <1>6 DEF RxWriteEnables, hwButEnables
    <2>1. HwTypeOK'
      BY DEF HwTypeOK, ControlTypeOK, Interrupts
    <2>2. ControlTypeOK' /\ RingShape' /\ PutReady'
      BY DEF ControlTypeOK, RxPcs, RingShape, PutReady, BeforePut
    <2> QED
      BY <2>1, <2>2
  <1>7. ASSUME AbortRxDisable
        PROVE  TypeInv'
    <2> USE <1>7 DEF AbortRxDisable, hwButEnables
    <2>1. HwTypeOK'
      BY DEF HwTypeOK
    <2>2. ControlTypeOK'
      BY UseType DEF ControlTypeOK, RxPcs, Kinds
    <2>3. RingShape' /\ PutReady'
      BY DEF RingShape, PutReady, BeforePut
    <2> QED
      BY <2>1, <2>2, <2>3
  <1>8. ASSUME AbortRxEmpty
        PROVE  TypeInv'
    <2> USE <1>8 DEF AbortRxEmpty
    <2>1. HwTypeOK' /\ RxTypeOK'
      <3>1. Len(rxFifo) \in Nat /\ rxFifo' \in Seq(1 .. MaxIn)
            /\ Len(rxFifo') = 0
        BY LenProperties, EmptySeq DEF HwTypeOK
      <3>2. HwTypeOK'
        BY <3>1, FifoAssumption DEF HwTypeOK
      <3>3. RxTypeOK'
        BY <3>1 DEF RxTypeOK
      <3> QED
        BY <3>2, <3>3
    <2>2. ControlTypeOK' /\ RingShape' /\ PutReady'
      BY DEF ControlTypeOK, RxPcs, RingShape, PutReady, BeforePut
    <2> QED
      BY <2>1, <2>2
  <1>9. ASSUME AbortRxEnd
        PROVE  TypeInv'
    <2> USE <1>9 DEF AbortRxEnd
    <2>1. RxTypeOK' /\ ControlTypeOK'
      BY DriverAssumption DEF RxTypeOK, ControlTypeOK, RxPcs
    <2>2. RingShape' /\ HandlerFlags' /\ PutReady'
      BY DEF RingShape, HandlerFlags, PutReady, BeforePut
    <2> QED
      BY <2>1, <2>2
  <1> QED
    BY <1>1, <1>2, <1>3, <1>4, <1>5, <1>6, <1>7, <1>8, <1>9, StaticRxThread
\* Type correctness of the steps of the sending thread.
LEMMA TypeTxThread == TypeInv /\ TxThread => TypeInv'
  <1> SUFFICES ASSUME TypeInv, TxThread
               PROVE  TypeInv'
    OBVIOUS
  <1> USE TypeFrame DEF TypeInv, TypeOK, TxGoto, Runs
  <1> USE DEF rxVars, ringVars, txVars, txHist, rxHist, irqVars, hwVars,
              fifoVars, enableVars, lineVars
  <1>1. ASSUME NEW len \in 1 .. MaxLen, Send(len)
        PROVE  TypeInv'
    <2> USE <1>1 DEF Send
    <2>1. TxTypeOK'
      BY DriverAssumption DEF TxTypeOK
    <2>2. ControlTypeOK'
      BY UseType DEF ControlTypeOK, TxPcs, Kinds
    <2>3. HandlerFlags'
      BY DEF HandlerFlags
    <2> QED
      BY <2>1, <2>2, <2>3
  <1>2. ASSUME SendSetState
        PROVE  TypeInv'
    <2>1. TxTypeOK' /\ ControlTypeOK'
      BY <1>2 DEF SendSetState, TxTypeOK, ControlTypeOK, TxPcs
    <2> QED
      BY <1>2, <2>1 DEF SendSetState
  <1>3. ASSUME SendReadEnables
        PROVE  TypeInv'
    <2>1. ControlTypeOK'
      BY <1>3 DEF SendReadEnables, ControlTypeOK, TxPcs, HwTypeOK
    <2> QED
      BY <1>3, <2>1 DEF SendReadEnables
  <1>4. ASSUME SendWriteEnables
        PROVE  TypeInv'
    <2> USE <1>4 DEF SendWriteEnables, hwButEnables
    <2>1. HwTypeOK'
      BY DEF HwTypeOK, ControlTypeOK, Interrupts
    <2>2. ControlTypeOK' /\ PutReady'
      BY DEF ControlTypeOK, TxPcs, PutReady, BeforePut
    <2> QED
      BY <2>1, <2>2
  <1>5. ASSUME AbortTxDisable
        PROVE  TypeInv'
    <2> USE <1>5 DEF AbortTxDisable, hwButEnables
    <2>1. HwTypeOK' /\ PutReady'
      BY DEF HwTypeOK, PutReady, BeforePut
    <2>2. ControlTypeOK'
      BY UseType DEF ControlTypeOK, TxPcs, Kinds
    <2> QED
      BY <2>1, <2>2
  <1>6. ASSUME AbortTxEmpty
        PROVE  TypeInv'
    <2> USE <1>6 DEF AbortTxEmpty
    <2>1. HwTypeOK' /\ PutReady'
      BY FifoAssumption DEF HwTypeOK, PutReady, BeforePut
    <2>2. ControlTypeOK'
      BY DEF ControlTypeOK, TxPcs
    <2> QED
      BY <2>1, <2>2
  <1>7. ASSUME AbortTxSize
        PROVE  TypeInv'
    <2> USE <1>7 DEF AbortTxSize
    <2>1. TxTypeOK' /\ ControlTypeOK'
      BY DriverAssumption DEF TxTypeOK, ControlTypeOK, TxPcs
    <2>2. HandlerFlags'
      BY DEF HandlerFlags
    <2> QED
      BY <2>1, <2>2
  <1>8. ASSUME AbortTxState
        PROVE  TypeInv'
    <2>1. TxTypeOK' /\ ControlTypeOK'
      BY <1>8 DEF AbortTxState, TxTypeOK, ControlTypeOK, TxPcs
    <2> QED
      BY <1>8, <2>1 DEF AbortTxState
  <1> QED
    BY <1>1, <1>2, <1>3, <1>4, <1>5, <1>6, <1>7, <1>8 DEF TxThread

\* Reading and writing the FIFOs.
LEMMA RxFifoFacts ==
  ASSUME HwTypeOK
  PROVE  /\ Len(rxFifo) \in 0 .. FifoSize
         /\ rxFifo # <<>> => /\ Head(rxFifo) \in 0 .. MaxIn
                             /\ Tail(rxFifo) \in Seq(1 .. MaxIn)
                             /\ Len(Tail(rxFifo)) <= FifoSize
                             /\ Len(Tail(rxFifo)) = Len(rxFifo) - 1
         /\ nIn < MaxIn => /\ Append(rxFifo, nIn + 1) \in Seq(1 .. MaxIn)
                           /\ Len(Append(rxFifo, nIn + 1)) = Len(rxFifo) + 1
  <1>1. /\ rxFifo \in Seq(1 .. MaxIn) /\ Len(rxFifo) <= FifoSize
        /\ nIn < MaxIn => nIn + 1 \in 1 .. MaxIn
    BY FifoAssumption DEF HwTypeOK
  <1>2. rxFifo # <<>> => /\ Head(rxFifo) \in 1 .. MaxIn
                         /\ Tail(rxFifo) \in Seq(1 .. MaxIn)
                         /\ Len(Tail(rxFifo)) = Len(rxFifo) - 1
    BY <1>1, HeadTailProperties
  <1>3. nIn < MaxIn => /\ Append(rxFifo, nIn + 1) \in Seq(1 .. MaxIn)
                       /\ Len(Append(rxFifo, nIn + 1)) = Len(rxFifo) + 1
    BY <1>1, AppendProperties
  <1>4. Len(rxFifo) \in Nat
    BY <1>1, LenProperties
  <1>5. \A i \in 1 .. MaxIn : i \in 0 .. MaxIn
    BY FifoAssumption
  <1> QED
    BY <1>1, <1>2, <1>3, <1>4, <1>5, FifoAssumption

LEMMA TxFifoFacts ==
  ASSUME HwTypeOK, NEW b \in Nat
  PROVE  /\ Len(txFifo) \in 0 .. FifoSize /\ Len(sent) \in Nat
         /\ txFifo # <<>> => /\ Head(txFifo) \in Nat
                             /\ Tail(txFifo) \in Seq(Nat)
                             /\ Len(Tail(txFifo)) = Len(txFifo) - 1
         /\ Append(txFifo, b) \in Seq(Nat)
         /\ Len(Append(txFifo, b)) = Len(txFifo) + 1
         /\ Append(sent, b) \in Seq(Nat)
         /\ Len(Append(sent, b)) = Len(sent) + 1
  <1>1. txFifo \in Seq(Nat) /\ sent \in Seq(Nat) /\ Len(txFifo) <= FifoSize
    BY DEF HwTypeOK
  <1>2. txFifo # <<>> => /\ Head(txFifo) \in Nat
                         /\ Tail(txFifo) \in Seq(Nat)
                         /\ Len(Tail(txFifo)) = Len(txFifo) - 1
    BY <1>1, HeadTailProperties
  <1>3. /\ Append(txFifo, b) \in Seq(Nat)
        /\ Len(Append(txFifo, b)) = Len(txFifo) + 1
        /\ Append(sent, b) \in Seq(Nat)
        /\ Len(Append(sent, b)) = Len(sent) + 1
    BY <1>1, AppendProperties
  <1>4. Len(txFifo) \in Nat /\ Len(sent) \in Nat
    BY <1>1, LenProperties
  <1> QED
    BY <1>1, <1>2, <1>3, <1>4, FifoAssumption

\* Type correctness of the steps of the hardware.
LEMMA TypeHardware == TypeInv /\ Hardware => TypeInv'
  <1> SUFFICES ASSUME TypeInv, Hardware
               PROVE  TypeInv'
    OBVIOUS
  <1> USE DEF TypeInv, TypeOK, Hardware
  <1>1. /\ RxTypeOK' /\ RingTypeOK' /\ TxTypeOK'
        /\ RingShape' /\ HandlerFlags'
    BY TypeFrame DEF rxHist, threadVars, rxVars, ringVars, txVars, irqVars
  <1>2. ControlTypeOK'
    BY DEF ControlTypeOK, threadVars, irqVars
  <1> USE DEF enableVars
  <1>3. CASE Arrive
    <2>1. HwTypeOK'
      <3>1. nIn + 1 \in 0 .. MaxIn /\ hwLost \in 0 .. nIn + 1
            /\ hwLost + 1 \in 0 .. nIn + 1
        BY <1>3, FifoAssumption DEF Arrive, HwTypeOK
      <3>2. rxFifo' \in Seq(1 .. MaxIn) /\ Len(rxFifo') <= FifoSize
        <4>1. CASE rxFifo' = rxFifo
          BY <4>1 DEF HwTypeOK
        <4>2. CASE Len(rxFifo) < FifoSize /\ rxFifo' = Append(rxFifo, nIn + 1)
          BY <1>3, <4>2, RxFifoFacts, FifoAssumption DEF Arrive
        <4> QED
          BY <1>3, <4>1, <4>2 DEF Arrive
      <3> QED
        BY <1>3, <3>1, <3>2, FifoAssumption DEF Arrive, HwTypeOK
    <2>2. PutReady'
      BY <1>3
         DEF Arrive, PutReady, BeforePut, HwTypeOK, irqVars, rxVars, ringVars
    <2> QED
      BY <1>1, <1>2, <2>1, <2>2
  <1>4. CASE Shift
    <2>1. HwTypeOK'
      <3>1. /\ Tail(txFifo) \in Seq(Nat) /\ Len(Tail(txFifo)) <= FifoSize
            /\ Head(txFifo) \in Nat
        BY <1>4, TxFifoFacts, FifoAssumption DEF Shift
      <3>2. Append(sent, Head(txFifo)) \in Seq(Nat)
        BY <3>1, TxFifoFacts
      <3> QED
        BY <1>4, <3>1, <3>2 DEF Shift, HwTypeOK
    <2>2. PutReady'
      BY <1>4 DEF Shift, PutReady, BeforePut, irqVars, rxVars, ringVars
    <2> QED
      BY <1>1, <1>2, <2>1, <2>2
  <1>5. CASE ShiftDone
    BY <1>1, <1>2, <1>5 DEF ShiftDone, HwTypeOK, PutReady, BeforePut, irqVars,
       rxVars, ringVars, lineVars
  <1> QED
    BY <1>3, <1>4, <1>5 DEF HwNext

\* Type correctness of the steps of the interrupt handler.
LEMMA TypeIrq == TypeInv /\ Irq => TypeInv'
  <1> SUFFICES ASSUME TypeInv, Irq
               PROVE  TypeInv'
    OBVIOUS
  <1>0. rxFifo # <<>> => /\ Head(rxFifo) \in 0 .. MaxIn
                         /\ Tail(rxFifo) \in Seq(1 .. MaxIn)
                         /\ Len(Tail(rxFifo)) <= FifoSize
    BY RxFifoFacts DEF TypeInv, TypeOK
  <1> USE TypeFrame DEF TypeInv, TypeOK, IrqGoto
  <1> USE DEF rxVars, ringVars, txVars, txHist, irqVars, hwVars, fifoVars,
              enableVars, lineVars, threadVars
  <1>1. ASSUME IrqEnter
        PROVE  TypeInv'
    <2> USE <1>1 DEF IrqEnter
    <2>1. HwTypeOK'
      <3>1. rxFifo' \in {<<>>, rxFifo} /\ rxErr' \in BOOLEAN
        OBVIOUS
      <3>2. <<>> \in Seq(1 .. MaxIn) /\ Len(<<>>) = 0
        BY EmptySeq
      <3>3. rxFifo' \in Seq(1 .. MaxIn) /\ Len(rxFifo') <= FifoSize
        <4>1. CASE rxFifo' = <<>>
          BY <3>2, <4>1, FifoAssumption
        <4>2. CASE rxFifo' = rxFifo
          BY <4>2 DEF HwTypeOK
        <4> QED
          BY <3>1, <4>1, <4>2
      <3> QED
        BY <3>1, <3>3 DEF HwTypeOK
    <2>2. RxTypeOK'
      BY RxFifoFacts DEF RxTypeOK
    <2>3. ControlTypeOK'
      BY DEF ControlTypeOK, IrqPcs, Statuses, NoStatus, ReceiveDue, RingTypeOK
    <2>4. HandlerFlags' /\ PutReady'
      BY DEF HandlerFlags, PutReady, BeforePut, ReceiveDue, NoStatus
    <2> QED
      BY <2>1, <2>2, <2>3, <2>4
  <1>2. ASSUME IrqRecvUser
        PROVE  TypeInv'
    <2> USE <1>2 DEF IrqRecvUser, AtReceive, CanReceive, LastRx
    <2>1. /\ Head(rxFifo) \in 0 .. MaxIn
          /\ Tail(rxFifo) \in Seq(1 .. MaxIn)
          /\ Len(Tail(rxFifo)) <= FifoSize
      BY <1>0
    <2>2. HwTypeOK'
      BY <2>1 DEF HwTypeOK
    <2>3. RxTypeOK'
      <3>1. Append(received, Head(rxFifo)) \in Seq(0 .. MaxIn)
        BY <2>1, AppendProperties DEF RxTypeOK
      <3>2. rxDataSize - 1 \in 0 .. MaxLen
        BY DriverAssumption DEF RxTypeOK
      <3> QED
        BY <3>1, <3>2 DEF RxTypeOK
    <2>4. ControlTypeOK'
      BY DEF ControlTypeOK, IrqPcs, Statuses, RingTypeOK
    <2>5. HandlerFlags' /\ PutReady'
      BY DEF HandlerFlags, PutReady, BeforePut, NoStatus
    <2> QED
      BY <2>2, <2>3, <2>4, <2>5
  <1>3. ASSUME IrqRecvRing
        PROVE  TypeInv'
    <2> USE <1>3 DEF IrqRecvRing, AtReceive, CanReceive, RingStep
    <2>1. ControlTypeOK'
      BY DEF ControlTypeOK, IrqPcs, Statuses
    <2>2. HandlerFlags' /\ PutReady'
      BY DEF HandlerFlags, PutReady, BeforePut, NoStatus
    <2> QED
      BY <2>1, <2>2
  <1>4. ASSUME IrqRingPut
        PROVE  TypeInv'
    <2> USE <1>4 DEF IrqRingPut
    <2>1. rxFifo # <<>> /\ rxRingBuffer /\ rxRingBufferSize = RingSize
          /\ RingSize <= IndexMod
      BY DEF PutReady, BeforePut, RingShape, StaticRing
    <2>2. /\ Head(rxFifo) \in 0 .. MaxIn
          /\ Tail(rxFifo) \in Seq(1 .. MaxIn)
          /\ Len(Tail(rxFifo)) <= FifoSize
      BY <1>0, <2>1
    <2>3. HwTypeOK' /\ RxTypeOK'
      <3>1. HwTypeOK'
        BY <2>2 DEF HwTypeOK
      <3>2. RxTypeOK'
        BY DEF RxTypeOK
      <3> QED BY <3>1, <3>2
    <2>4. ASSUME NEW i \in RingIndices
          PROVE  NextIndex(i, RingSize) \in RingIndices
      <3>1. RingSize \in Nat /\ RingSize # 0
        BY <2>1, DriverAssumption
      <3>2. i \in Nat /\ i < RingSize
        BY <3>1 DEF RingIndices
      <3>3. NextIndex(i, RingSize) \in 0 .. RingSize - 1
        BY <2>1, <3>1, <3>2, NextIndexType
      <3> QED BY <3>3 DEF RingIndices
    <2>5. RingTypeOK' /\ RingShape'
      BY <2>1, <2>2, <2>4 DEF RingTypeOK, RingShape
    <2>6. ControlTypeOK' /\ HandlerFlags' /\ PutReady'
      BY DEF ControlTypeOK, IrqPcs, HandlerFlags, PutReady, BeforePut
    <2> QED
      BY <2>3, <2>5, <2>6
  <1>5. ASSUME IrqSend
        PROVE  TypeInv'
    <2> USE <1>5 DEF IrqSend, AtSend, CanSend, TxNotFull, LastTx
    <2>1. txDataSize - 1 \in 0 .. MaxLen /\ TxTypeOK'
      BY DriverAssumption DEF TxTypeOK, HandlerFlags
    <2>2. HwTypeOK'
      <3>1. txData \in Nat
        BY DEF TxTypeOK
      <3>2. /\ Append(txFifo, txData) \in Seq(Nat)
            /\ Len(Append(txFifo, txData)) <= FifoSize
        BY <3>1, TxFifoFacts, FifoAssumption
      <3> QED
        BY <3>2 DEF HwTypeOK, IdleEnable
    <2>3. ControlTypeOK' /\ HandlerFlags' /\ PutReady'
      BY DEF ControlTypeOK, IrqPcs, HandlerFlags, PutReady, BeforePut
    <2> QED
      BY <2>1, <2>2, <2>3
  <1>6. ASSUME IrqTxIdle
        PROVE  TypeInv'
    <2> USE <1>6 DEF IrqTxIdle, AtLoopEnd
    <2>1. HwTypeOK'
      BY DEF HwTypeOK, TxIdleDue
    <2>2. ControlTypeOK' /\ HandlerFlags' /\ PutReady'
      BY DEF ControlTypeOK, IrqPcs, Statuses, HandlerFlags, PutReady, BeforePut,
             NoStatus
    <2> QED
      BY <2>1, <2>2
  <1>7. ASSUME IrqExit
        PROVE  TypeInv'
    <2> USE <1>7 DEF IrqExit
    <2>1. HwTypeOK'
      <3>1. TriggerLevel \in 0 .. FifoSize - 1
        BY DriverAssumption, FifoAssumption
           DEF HwTypeOK, TriggerLevel, RxTypeOK
      <3> QED
        BY <3>1 DEF HwTypeOK
    <2>2. ControlTypeOK' /\ HandlerFlags' /\ PutReady'
      BY DEF ControlTypeOK, IrqPcs, HandlerFlags, PutReady, BeforePut
    <2> QED
      BY <2>1, <2>2
  <1>8. ASSUME IrqCallback
        PROVE  TypeInv'
    <2> USE <1>8 DEF IrqCallback
    <2>1. cbStatus \in Statuses
      BY DEF PutReady, ControlTypeOK
    <2>2. /\ AfterCallback[cbStatus] \in IrqPcs \ {"off", "callback"}
          /\ AfterCallback[cbStatus] = "ring"
               => cbStatus = "RxRingBufferOverrun"
      BY <2>1 DEF AfterCallback, Statuses, IrqPcs
    <2>3. ControlTypeOK'
      BY <2>1, <2>2, NotifyType DEF ControlTypeOK
    <2>4. HandlerFlags' /\ PutReady'
      BY <2>2 DEF HandlerFlags, PutReady, BeforePut
    <2> QED
      BY <2>3, <2>4
  <1> QED
    BY <1>1, <1>2, <1>3, <1>4, <1>5, <1>6, <1>7, <1>8 DEF Irq

LEMMA TypeStep == TypeInv /\ [Next]_driverVars => TypeInv'
  <1>1. TypeInv /\ UNCHANGED driverVars => TypeInv'
    <2> SUFFICES ASSUME TypeInv, UNCHANGED driverVars
                 PROVE  TypeInv'
      OBVIOUS
    <2>1. ControlTypeOK'
      BY DEF TypeInv, TypeOK, ControlTypeOK, driverVars, threadVars, irqVars
    <2> QED
      BY <2>1, TypeFrame
         DEF TypeInv, TypeOK, driverVars, hwVars, fifoVars, rxHist,
             threadVars, rxVars, ringVars, txVars, irqVars
  <1> QED
    BY <1>1, TypeRxThread, TypeTxThread, TypeIrq, TypeHardware DEF Next

\* The driver keeps its handle, its registers and its program counters in
\* their types; in particular the ring indices never leave the ring buffer.
THEOREM TypeCorrect == Spec /\ StaticRing => []TypeOK
  <1>1. Init /\ StaticRing => TypeInv
    BY TypeInit
  <1>2. TypeInv /\ [Next]_driverVars => TypeInv'
    BY TypeStep
  <1>3. TypeInv => TypeOK
    BY DEF TypeInv
  <1> QED
    BY <1>1, <1>2, <1>3, PTL DEF Spec
=============================================================================
