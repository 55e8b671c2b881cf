------------------------- MODULE UsartStreamProofs -------------------------
(***************************************************************************)
(* The receiving direction of the driver implements ByteStream, and the    *)
(* order of the bytes follows, for every size of the FIFO and of the ring  *)
(* buffer and for all bounds.                                              *)
(***************************************************************************)
EXTENDS UsartSafetyProofs

-----------------------------------------------------------------------------
(* Sequences *)

\* A sequence of one element.
LEMMA Single ==
  ASSUME NEW x \in Nat
  PROVE  <<x>> \in Seq(Nat) /\ Len(<<x>>) = 1 /\ <<x>>[1] = x
  OBVIOUS

LEMMA Associate ==
  ASSUME NEW s \in Seq(Nat), NEW t \in Seq(Nat), NEW u \in Seq(Nat)
  PROVE  (s \o t) \o u = s \o (t \o u)
  BY ConcatAssociative, SMTT(30)

\* A sequence is what it begins with, followed by the rest.
LEMMA Split ==
  ASSUME NEW s \in Seq(Nat), NEW n \in 0 .. Len(s)
  PROVE  /\ SubSeq(s, 1, n) \in Seq(Nat) /\ SubSeq(s, n + 1, Len(s)) \in Seq(Nat)
         /\ SubSeq(s, 1, n) \o SubSeq(s, n + 1, Len(s)) = s
  <1>1. Len(s) \in Nat /\ \A i \in 1 .. Len(s) : s[i] \in Nat
    BY LenProperties, ElementOfSeq
  <1>2. /\ 1 \in 1 .. Len(s) + 1 /\ n \in 1 - 1 .. Len(s)
        /\ Len(s) \in n .. Len(s) /\ n \in Int /\ n + 1 \in Int
        /\ 1 \in Int /\ Len(s) \in Int
    BY <1>1
  <1>3. SubSeq(s, 1, n) \o SubSeq(s, n + 1, Len(s)) = s
    BY <1>2, ConcatAdjacentSubSeq, SubSeqFull
  <1>4. SubSeq(s, 1, n) \in Seq(Nat)
    BY <1>1, <1>2, SubSeqProperties
  <1>5. SubSeq(s, n + 1, Len(s)) \in Seq(Nat)
    <2>1. \A i \in n + 1 .. Len(s) : s[i] \in Nat
      BY <1>1
    <2> QED BY <1>2, <2>1, SubSeqProperties
  <1> QED BY <1>3, <1>4, <1>5

\* The first elements of a concatenation, and what follows them.
LEMMA FrontOfConcat ==
  ASSUME NEW a \in Seq(Nat), NEW b \in Seq(Nat), NEW n \in 0 .. Len(a)
  PROVE  /\ SubSeq(a \o b, 1, n) = SubSeq(a, 1, n)
         /\ SubSeq(a \o b, n + 1, Len(a \o b)) = SubSeq(a, n + 1, Len(a)) \o b
  <1> DEFINE c == a \o b
             f == SubSeq(a, 1, n)
             r == SubSeq(a, n + 1, Len(a))
             l == SubSeq(c, n + 1, Len(c))
  <1>1. /\ c \in Seq(Nat) /\ n \in 0 .. Len(c)
        /\ Len(a) \in Nat /\ Len(b) \in Nat
    BY ConcatProperties, LenProperties
  <1>2. SubSeq(c, 1, n) = f
    <2>1. CASE n = 0
      BY <2>1, SubSeqEmpty
    <2>2. CASE n # 0
      <3>1. 1 \in 1 .. Len(a) /\ n \in 1 .. Len(a)
        BY <1>1, <2>2
      <3> QED BY <3>1, SubSeqOfConcat1
    <2> QED BY <2>1, <2>2
  <1>3. f \in Seq(Nat) /\ r \in Seq(Nat) /\ f \o r = a
    BY Split
  <1>4. l \in Seq(Nat) /\ f \o l = c
    BY <1>1, <1>2, Split
  <1> HIDE DEF f, r, l
  <1>5. r \o b \in Seq(Nat)
    BY <1>3, ConcatProperties
  <1>6. (f \o r) \o b = f \o (r \o b)
    <2>1. f \in Seq(Nat) /\ r \in Seq(Nat) /\ b \in Seq(Nat)
      BY <1>3
    <2> QED BY <2>1, Associate, SMTT(30)
  <1>7. f \o (r \o b) = c
    BY <1>3, <1>6
  <1> HIDE DEF c
  <1>8. l = r \o b
    <2>1. f \o (r \o b) = f \o l
      BY <1>4, <1>7
    <2> QED BY <1>3, <1>4, <1>5, <2>1, ConcatSimplifications
  <1> QED BY <1>2, <1>8 DEF f, r, l, c

\* The first element alone.
LEMMA FirstElement ==
  ASSUME NEW s \in Seq(Nat), s # <<>>
  PROVE  SubSeq(s, 1, 1) = <<Head(s)>>
  <1>1. /\ Head(s) \in Nat /\ Len(s) \in Nat \ {0} /\ Head(s) = s[1]
    BY HeadTailProperties, LenProperties, EmptySeq
  <1>2. \A i \in 1 .. 1 : s[i] \in Nat
    BY <1>1
  <1>3. /\ SubSeq(s, 1, 1) \in Seq(Nat) /\ Len(SubSeq(s, 1, 1)) = 1
        /\ SubSeq(s, 1, 1)[1] = Head(s)
    BY <1>1, <1>2, SubSeqProperties
  <1>4. /\ <<Head(s)>> \in Seq(Nat) /\ Len(<<Head(s)>>) = 1
        /\ <<Head(s)>>[1] = Head(s)
    BY <1>1, Single
  <1>5. \A i \in 1 .. 1 : SubSeq(s, 1, 1)[i] = <<Head(s)>>[i]
    BY <1>3, <1>4
  <1> QED BY <1>3, <1>4, <1>5, SeqEqual

\* Losing the first element.
LEMMA DropFirst ==
  ASSUME NEW s \in Seq(Nat), s # <<>>
  PROVE  SubSeq(s, 1, 1 - 1) \o SubSeq(s, 1 + 1, Len(s)) = Tail(s)
  <1>1. SubSeq(s, 1, 0) = <<>>
    BY SubSeqEmpty
  <1>2. SubSeq(s, 2, Len(s)) = Tail(s) /\ Tail(s) \in Seq(Nat)
    BY TailIsSubSeq, HeadTailProperties
  <1>3. <<>> \o Tail(s) = Tail(s)
    BY <1>2, ConcatEmptySeq
  <1>4. 1 - 1 = 0 /\ 1 + 1 = 2
    OBVIOUS
  <1> QED BY <1>1, <1>2, <1>3, <1>4

\* Losing the end, or the beginning, of what is on its way.
LEMMA LoseEnd ==
  ASSUME NEW s \in Seq(Nat), NEW t \in Seq(Nat), t # <<>>
  PROVE  \E first, last \in 1 .. Len(s \o t) :
           /\ first <= last
           /\ s = SubSeq(s \o t, 1, first - 1)
                    \o SubSeq(s \o t, last + 1, Len(s \o t))
  <1> DEFINE w == s \o t
             first == Len(s) + 1
  <1>1. /\ w \in Seq(Nat) /\ Len(w) = Len(s) + Len(t)
        /\ Len(w) \in Nat /\ Len(s) \in Nat /\ Len(t) \in Nat \ {0}
    BY ConcatProperties, LenProperties, EmptySeq
  <1>2. SubSeq(w, 1, Len(s)) = s
    <2>1. Len(s) \in 0 .. Len(s)
      BY <1>1
    <2>2. SubSeq(w, 1, Len(s)) = SubSeq(s, 1, Len(s))
      BY <2>1, FrontOfConcat
    <2> QED BY <2>2, SubSeqFull
  <1>3. SubSeq(w, Len(w) + 1, Len(w)) = <<>>
    BY <1>1, SubSeqEmpty
  <1>4. /\ first \in 1 .. Len(w) /\ Len(w) \in 1 .. Len(w)
        /\ first <= Len(w) /\ first - 1 = Len(s)
    BY <1>1
  <1> HIDE DEF w
  <1>5. s = SubSeq(w, 1, first - 1) \o SubSeq(w, Len(w) + 1, Len(w))
    BY <1>2, <1>3, <1>4, ConcatEmptySeq
  <1> HIDE DEF first
  <1> QED BY <1>4, <1>5 DEF w

LEMMA LoseBegin ==
  ASSUME NEW s \in Seq(Nat), NEW t \in Seq(Nat), s # <<>>
  PROVE  \E first, last \in 1 .. Len(s \o t) :
           /\ first <= last
           /\ t = SubSeq(s \o t, 1, first - 1)
                    \o SubSeq(s \o t, last + 1, Len(s \o t))
  <1> DEFINE w == s \o t
             last == Len(s)
  <1>1. /\ w \in Seq(Nat) /\ Len(w) = Len(s) + Len(t)
        /\ Len(w) \in Nat /\ Len(t) \in Nat /\ Len(s) \in Nat \ {0}
    BY ConcatProperties, LenProperties, EmptySeq
  <1>2. SubSeq(w, last + 1, Len(w)) = t
    <2>1. Len(s) \in 0 .. Len(s)
      BY <1>1
    <2>2. SubSeq(w, last + 1, Len(w)) = SubSeq(s, Len(s) + 1, Len(s)) \o t
      BY <2>1, FrontOfConcat
    <2>3. SubSeq(s, Len(s) + 1, Len(s)) = <<>>
      BY <1>1, SubSeqEmpty
    <2> QED BY <2>2, <2>3, ConcatEmptySeq
  <1>3. SubSeq(w, 1, 0) = <<>> /\ 1 - 1 = 0
    <2>1. SubSeq(w, 1, 0) = <<>>
      BY SubSeqEmpty
    <2>2. 1 - 1 = 0
      OBVIOUS
    <2> QED BY <2>1, <2>2
  <1>4. 1 \in 1 .. Len(w) /\ last \in 1 .. Len(w) /\ 1 <= last
    BY <1>1
  <1> HIDE DEF w, last
  <1>5. t = SubSeq(w, 1, 1 - 1) \o SubSeq(w, last + 1, Len(w))
    BY <1>2, <1>3, ConcatEmptySeq
  <1> QED BY <1>4, <1>5 DEF w

-----------------------------------------------------------------------------
(* What the ring holds *)

\* Indices that go round.
LEMMA AdvanceTwice ==
  ASSUME NEW size \in Nat, NEW i \in 0 .. size - 1, NEW n \in Nat, NEW k \in Nat,
         n + k <= size
  PROVE  Advance(Advance(i, n, size), k, size) = Advance(i, n + k, size)
  BY DEF Advance

LEMMA AdvanceOne ==
  ASSUME NEW size \in Nat, size <= IndexMod, NEW i \in 0 .. size - 1
  PROVE  NextIndex(i, size) = Advance(i, 1, size) /\ Advance(i, 0, size) = i
  <1>1. i \in Nat /\ i < size
    OBVIOUS
  <1>2. NextIndex(i, size) = IF i + 1 = size THEN 0 ELSE i + 1
    BY <1>1, NextIndexType
  <1> QED BY <1>1, <1>2 DEF Advance

\* The bytes of the ring are in different slots, none of them the head's.
LEMMA SlotsApart ==
  ASSUME NEW size \in Nat, NEW head \in 0 .. size - 1, NEW tail \in 0 .. size - 1,
         NEW k \in 0 .. RxRingBufferLength(head, tail, size)
  PROVE  /\ Advance(tail, k, size) \in 0 .. size - 1
         /\ Advance(tail, k, size) = head
              <=> k = RxRingBufferLength(head, tail, size)
  BY DEF Advance, RxRingBufferLength

\* The slots of the ring and their order.
LEMMA RingSlots ==
  ASSUME TypeInv, rxRingBuffer
  PROVE  /\ rxRingBufferSize = RingSize /\ RingSize \in Nat \ {0}
         /\ RingSize <= IndexMod
         /\ rxRingBufferHead \in 0 .. RingSize - 1
         /\ rxRingBufferTail \in 0 .. RingSize - 1
         /\ RingLength \in 0 .. RingSize - 1
         /\ RingLength = IF rxRingBufferTail > rxRingBufferHead
                         THEN rxRingBufferHead + RingSize - rxRingBufferTail
                         ELSE rxRingBufferHead - rxRingBufferTail
         /\ InRing = [i \in 1 .. RingLength |->
                        ringData[Advance(rxRingBufferTail, i - 1, RingSize)]]
         /\ ringData \in [0 .. RingSize - 1 -> 0 .. MaxIn]
  BY RingFacts, DriverAssumption
     DEF TypeInv, TypeOK, RingTypeOK, RingShape, RingIndices, StaticRing,
         RingLength, RxRingBufferLength, InRing, RingContents

\* Reading n bytes leaves the others, in their order.
LEMMA TakeContents ==
  ASSUME TypeInv, rxRingBuffer, NEW n \in 0 .. RingLength,
         rxRingBufferTail' = Advance(rxRingBufferTail, n, rxRingBufferSize),
         UNCHANGED <<rxRingBufferHead, rxRingBufferSize, ringData>>
  PROVE  InRing' = SubSeq(InRing, n + 1, RingLength)
  <1>1. RingLength' = RingLength - n
    BY TakeLength DEF RingLength
  <1>2. InRing' = [i \in 1 .. RingLength - n |->
                     ringData[Advance(Advance(rxRingBufferTail, n, RingSize),
                                      i - 1, RingSize)]]
    BY <1>1, RingSlots DEF InRing, RingContents, RingLength
  <1>3. \A i \in 1 .. RingLength - n :
          /\ i + n \in 1 .. RingLength
          /\ Advance(Advance(rxRingBufferTail, n, RingSize), i - 1, RingSize)
               = Advance(rxRingBufferTail, i + n - 1, RingSize)
    <2> SUFFICES ASSUME NEW i \in 1 .. RingLength - n
                 PROVE  /\ i + n \in 1 .. RingLength
                        /\ Advance(Advance(rxRingBufferTail, n, RingSize),
                                   i - 1, RingSize)
                             = Advance(rxRingBufferTail, i + n - 1, RingSize)
      OBVIOUS
    <2>1. /\ RingSize \in Nat /\ n \in Nat /\ i - 1 \in Nat
          /\ n + (i - 1) <= RingSize /\ n + (i - 1) = i + n - 1
          /\ i + n \in 1 .. RingLength
      <3>1. /\ RingSize \in Nat /\ RingLength \in Nat /\ RingLength < RingSize
            /\ n \in Nat /\ n <= RingLength
        BY RingSlots
      <3>2. i \in Nat /\ i >= 1 /\ i <= RingLength - n
        BY <3>1
      <3> QED BY <3>1, <3>2
    <2>2. Advance(Advance(rxRingBufferTail, n, RingSize), i - 1, RingSize)
            = Advance(rxRingBufferTail, n + (i - 1), RingSize)
      BY <2>1, RingSlots, AdvanceTwice
    <2> QED BY <2>1, <2>2
  <1>4. InRing' = [i \in 1 .. RingLength - n |-> InRing[i + n]]
    <2>1. \A i \in 1 .. RingLength :
            InRing[i] = ringData[Advance(rxRingBufferTail, i - 1, RingSize)]
      BY RingSlots
    <2>2. \A i \in 1 .. RingLength - n :
            InRing[i + n]
              = ringData[Advance(Advance(rxRingBufferTail, n, RingSize),
                                 i - 1, RingSize)]
      BY <1>3, <2>1
    <2> QED BY <1>2, <2>2
  <1>5. InRing \in Seq(Nat) /\ Len(InRing) = RingLength /\ RingLength \in Nat
    <2>1. \A k \in 0 .. MaxIn : k \in Nat
      BY FifoAssumption
    <2> QED BY <2>1, RingFacts, SeqMonotonic
  <1> DEFINE s == SubSeq(InRing, n + 1, RingLength)
             f == [i \in 1 .. RingLength - n |-> InRing[i + n]]
  <1>6. /\ s \in Seq(Nat) /\ Len(s) = RingLength - n
        /\ \A i \in 1 .. RingLength - n : s[i] = InRing[i + n]
    <2>1. \A i \in n + 1 .. RingLength : InRing[i] \in Nat
      BY <1>5, ElementOfSeq
    <2>2. n + 1 \in Int /\ RingLength \in Int
      BY <1>5
    <2>3. /\ s \in Seq(Nat)
          /\ Len(s) = IF n + 1 <= RingLength THEN RingLength - (n + 1) + 1 ELSE 0
          /\ \A i \in 1 .. RingLength - (n + 1) + 1 : s[i] = InRing[n + 1 + i - 1]
      BY <2>1, <2>2, SubSeqProperties
    <2> HIDE DEF s
    <2>4. n \in Nat /\ n <= RingLength
      BY <1>5
    <2>5. /\ Len(s) = RingLength - n
          /\ RingLength - (n + 1) + 1 = RingLength - n
      BY <1>5, <2>3, <2>4
    <2>6. \A i \in 1 .. RingLength - n : n + 1 + i - 1 = i + n
      BY <2>4
    <2> QED BY <2>3, <2>5, <2>6
  <1>7. f \in [1 .. RingLength - n -> Nat] /\ RingLength - n \in Nat
    <2>1. \A i \in 1 .. RingLength - n : i + n \in 1 .. Len(InRing)
      BY <1>5
    <2> QED BY <1>5, <2>1, ElementOfSeq
  <1>8. f \in Seq(Nat) /\ Len(f) = RingLength - n
    BY <1>7, FunctionIsSeq
  <1>9. \A i \in 1 .. RingLength - n : f[i] = s[i]
    BY <1>6
  <1> HIDE DEF s, f
  <1>10. f = s
    BY <1>6, <1>8, <1>9, SeqEqual
  <1> QED BY <1>4, <1>10 DEF s, f

\* Putting a byte appends it, to all that the ring holds or, when it is full,
\* to all but the oldest byte; a ring of one slot takes none.
LEMMA PutContents ==
  ASSUME TypeInv, IrqRingPut
  PROVE  /\ rxFifo # <<>> /\ Head(rxFifo) \in Nat
         /\ InRing' = CASE ~RingFull -> Append(InRing, Head(rxFifo))
                        [] RingFull /\ InRing # <<>> ->
                             Append(Tail(InRing), Head(rxFifo))
                        [] OTHER -> <<>>
  <1> DEFINE b == Head(rxFifo)
             drop == IF RingFull THEN 1 ELSE 0
             head == rxRingBufferHead
             tail == rxRingBufferTail
             n == RingLength
             m == n + 1 - drop
  <1>1. rxRingBuffer /\ rxFifo # <<>> /\ b \in Nat /\ b \in 0 .. MaxIn
    BY RxFifoFacts DEF IrqRingPut, TypeInv, TypeOK, PutReady, BeforePut
  <1>2. /\ RingFull <=> n = RingSize - 1
        /\ n \in 0 .. RingSize - 1
    BY <1>1, RingSlots DEF RingFull, RingLength, IsRxRingBufferFull
  <1>3. /\ rxRingBufferSize' = RingSize
        /\ head' = Advance(head, 1, RingSize)
        /\ tail' = Advance(tail, drop, RingSize)
        /\ ringData' = [ringData EXCEPT ![head] = b]
    <2>1. /\ NextIndex(head, RingSize) = Advance(head, 1, RingSize)
          /\ NextIndex(tail, RingSize) = Advance(tail, 1, RingSize)
          /\ Advance(tail, 0, RingSize) = tail
      BY <1>1, RingSlots, AdvanceOne
    <2> QED BY <1>1, <2>1, RingSlots DEF IrqRingPut
  <1>4. RingLength' = m /\ m \in Nat
    BY <1>2, PutEffect
  <1>5. InRing' = [i \in 1 .. m |-> ringData'[Advance(tail', i - 1, RingSize)]]
    BY <1>3, <1>4 DEF InRing, RingContents, RingLength
  <1>6. ASSUME NEW i \in 1 .. m
        PROVE  InRing'[i] = IF i + drop <= n THEN InRing[i + drop] ELSE b
    <2> DEFINE k == i + drop - 1
    <2>1. drop \in 0 .. 1 /\ n \in Nat /\ RingSize \in Nat /\ n < RingSize
      BY <1>1, <1>2, RingSlots
    <2> HIDE DEF drop, n
    <2>2. i \in Nat \ {0} /\ i <= n + 1 - drop
      BY <2>1
    <2>3. /\ k \in 0 .. n /\ drop \in Nat /\ i - 1 \in Nat
          /\ drop + (i - 1) <= RingSize
          /\ drop + (i - 1) = k
          /\ k # n => i + drop \in 1 .. n
      BY <2>1, <2>2
    <2>4. (i + drop <= n) <=> (k # n)
      BY <2>1, <2>2
    <2>5. tail \in 0 .. RingSize - 1 /\ head \in 0 .. RingSize - 1
      BY <1>1, RingSlots
    <2> HIDE DEF k, head, tail
    <2>6. Advance(tail', i - 1, RingSize) = Advance(tail, k, RingSize)
      <3>1. Advance(Advance(tail, drop, RingSize), i - 1, RingSize)
              = Advance(tail, drop + (i - 1), RingSize)
        BY <2>1, <2>3, <2>5, AdvanceTwice
      <3> QED BY <1>3, <2>3, <3>1
    <2>7. n = RxRingBufferLength(head, tail, RingSize)
      BY <1>1, RingSlots DEF RingLength, n, head, tail
    <2>8. Advance(tail, k, RingSize) \in 0 .. RingSize - 1
      BY <2>1, <2>3, <2>5, <2>7, SlotsApart
    <2>9. (Advance(tail, k, RingSize) = head) <=> (k = n)
      BY <2>1, <2>3, <2>5, <2>7, SlotsApart
    <2>10. InRing'[i] = IF k = n THEN b ELSE ringData[Advance(tail, k, RingSize)]
      <3>1. ringData \in [0 .. RingSize - 1 -> 0 .. MaxIn]
        BY <1>1, RingSlots
      <3>2. InRing'[i] = ringData'[Advance(tail, k, RingSize)]
        BY <1>5, <2>6
      <3> QED BY <1>3, <2>8, <2>9, <3>1, <3>2
    <2>11. k # n => InRing[i + drop] = ringData[Advance(tail, k, RingSize)]
      <3>1. InRing = [j \in 1 .. n |-> ringData[Advance(tail, j - 1, RingSize)]]
        BY <1>1, RingSlots DEF n, tail
      <3> QED BY <2>3, <3>1 DEF k
    <2> QED BY <2>4, <2>10, <2>11
  <1>7. /\ InRing \in Seq(Nat) /\ Len(InRing) = n
        /\ InRing' \in Seq(Nat) /\ Len(InRing') = m
    <2>1. \A k \in 0 .. MaxIn : k \in Nat
      BY FifoAssumption
    <2>2. InRing \in Seq(Nat) /\ Len(InRing) = n
      BY <2>1, RingFacts, SeqMonotonic
    <2>3. \A i \in 1 .. m : InRing'[i] \in Nat
      <3> SUFFICES ASSUME NEW i \in 1 .. m PROVE InRing'[i] \in Nat
        OBVIOUS
      <3>1. InRing'[i] = IF i + drop <= n THEN InRing[i + drop] ELSE b
        BY <1>6
      <3>2. i + drop <= n => i + drop \in 1 .. Len(InRing)
        BY <1>2, <2>2
      <3> QED BY <1>1, <2>2, <3>1, <3>2, ElementOfSeq
    <2>4. InRing' \in [1 .. m -> Nat]
      BY <1>5, <2>3
    <2> QED BY <1>4, <2>2, <2>4, FunctionIsSeq
  <1> HIDE DEF b, m
  <1>8. CASE ~RingFull
    <2>1. /\ Append(InRing, b) \in Seq(Nat) /\ Len(Append(InRing, b)) = n + 1
          /\ \A i \in 1 .. n : Append(InRing, b)[i] = InRing[i]
          /\ Append(InRing, b)[n + 1] = b
      BY <1>1, <1>7, AppendProperties
    <2>2. m = n + 1 /\ \A i \in 1 .. m : InRing'[i] = IF i <= n THEN InRing[i] ELSE b
      BY <1>2, <1>6, <1>8 DEF m
    <2>3. \A i \in 1 .. m : InRing'[i] = Append(InRing, b)[i]
      BY <1>2, <2>1, <2>2
    <2>4. InRing' = Append(InRing, b)
      BY <1>7, <2>1, <2>2, <2>3, SeqEqual
    <2> QED BY <1>1, <1>8, <2>4 DEF b
  <1>9. CASE RingFull /\ InRing # <<>>
    <2> DEFINE r == Tail(InRing)
    <2>1. /\ r \in Seq(Nat) /\ Len(r) = n - 1 /\ n \in Nat \ {0}
          /\ \A i \in 1 .. n - 1 : r[i] = InRing[i + 1]
      BY <1>7, <1>9, HeadTailProperties, EmptySeq
    <2> HIDE DEF r
    <2>2. /\ Append(r, b) \in Seq(Nat) /\ Len(Append(r, b)) = n
          /\ \A i \in 1 .. n - 1 : Append(r, b)[i] = r[i]
          /\ Append(r, b)[n] = b
      BY <1>1, <2>1, AppendProperties
    <2>3. m = n /\ \A i \in 1 .. m :
                     InRing'[i] = IF i <= n - 1 THEN InRing[i + 1] ELSE b
      BY <1>2, <1>6, <1>9 DEF m
    <2>4. \A i \in 1 .. m : InRing'[i] = Append(r, b)[i]
      <3> SUFFICES ASSUME NEW i \in 1 .. n PROVE InRing'[i] = Append(r, b)[i]
        BY <2>3
      <3>1. CASE i <= n - 1
        <4>1. i \in 1 .. n - 1
          BY <2>1, <3>1
        <4> QED BY <2>1, <2>2, <2>3, <3>1, <4>1
      <3>2. CASE ~(i <= n - 1)
        <4>1. i = n
          BY <2>1, <3>2
        <4> QED BY <2>2, <2>3, <3>2, <4>1
      <3> QED BY <3>1, <3>2
    <2>5. InRing' = Append(r, b)
      BY <1>7, <2>2, <2>3, <2>4, SeqEqual
    <2> QED BY <1>1, <1>9, <2>5 DEF b, r
  <1>10. CASE RingFull /\ InRing = <<>>
    <2>1. n = 0
      BY <1>7, <1>10, EmptySeq
    <2>2. m = 0
      BY <1>10, <2>1 DEF m
    <2>3. InRing' = <<>>
      BY <1>7, <2>2, EmptySeq
    <2> QED BY <1>1, <1>10, <2>3 DEF b
  <1> QED BY <1>8, <1>9, <1>10

-----------------------------------------------------------------------------
(* The steps of the driver are steps of the stream *)

RxNext == [RxStream!StreamNext]_(RxStream!streamVars)

\* The bytes on their way, as sequences.
LEMMA Transit ==
  ASSUME TypeInv
  PROVE  /\ InRing \in Seq(Nat) /\ rxFifo \in Seq(Nat) /\ received \in Seq(Nat)
         /\ InRing \o rxFifo \in Seq(Nat)
         /\ Len(InRing) = RingLength /\ RingLength \in Nat /\ nIn \in Nat
         /\ ~rxRingBuffer => InRing = <<>>
  <1>1. /\ \A k \in 0 .. MaxIn : k \in Nat
        /\ \A k \in 1 .. MaxIn : k \in Nat
    BY FifoAssumption
  <1>2. /\ InRing \in Seq(0 .. MaxIn) /\ Len(InRing) = RingLength
        /\ ~rxRingBuffer => RingLength = 0 /\ RingLength \in Nat
        /\ RingLength \in Nat
    BY RingFacts
  <1>3. InRing \in Seq(Nat)
    BY <1>1, <1>2, SeqMonotonic
  <1>4. rxFifo \in Seq(Nat) /\ nIn \in Nat
    BY <1>1, SeqMonotonic, FifoAssumption DEF TypeInv, TypeOK, HwTypeOK
  <1>5. received \in Seq(Nat)
    BY <1>1, SeqMonotonic DEF TypeInv, TypeOK, RxTypeOK
  <1>6. ~rxRingBuffer => InRing = <<>>
    BY <1>2, <1>3, EmptySeq
  <1> QED BY <1>2, <1>3, <1>4, <1>5, <1>6, ConcatProperties

\* A request served from the ring delivers what it copies.
LEMMA RingDelivers ==
  ASSUME TypeInv, NEW len \in 1 .. MaxLen, RecvFromRing(len)
  PROVE  RxNext
  <1> DEFINE n == BytesToCopy(len)
  <1>1. RingLength \in Nat /\ len \in Nat /\ len <= MaxLen
    BY Transit, DriverAssumption
  <1>2. n \in 0 .. RingLength /\ n <= len /\ n \in 0 .. MaxLen
    BY <1>1, DriverAssumption DEF BytesToCopy
  <1>3. /\ rxRingBuffer
        /\ received' = received \o SubSeq(InRing, 1, n)
        /\ rxRingBufferTail' = Advance(rxRingBufferTail, n, rxRingBufferSize)
        /\ UNCHANGED <<rxRingBufferHead, rxRingBufferSize, ringData>>
        /\ UNCHANGED <<nIn, rxFifo>>
    BY DEF RecvFromRing, hwVars, lineVars, fifoVars
  <1> HIDE DEF n
  <1>4. InRing' = SubSeq(InRing, n + 1, Len(InRing))
    BY <1>2, <1>3, TakeContents, Transit
  <1>5. /\ SubSeq(InRing \o rxFifo, 1, n) = SubSeq(InRing, 1, n)
        /\ SubSeq(InRing \o rxFifo, n + 1, Len(InRing \o rxFifo))
             = InRing' \o rxFifo
    <2>1. n \in 0 .. Len(InRing)
      BY <1>2, Transit
    <2> QED BY <1>4, <2>1, Transit, FrontOfConcat
  <1>6. CASE n = 0
    <2>1. SubSeq(InRing, 1, n) = <<>>
      BY <1>6, SubSeqEmpty
    <2>2. received' = received
      BY <1>3, <2>1, Transit, ConcatEmptySeq
    <2>3. InRing' = InRing
      BY <1>4, <1>6, Transit, SubSeqFull
    <2> QED BY <1>3, <2>2, <2>3 DEF RxNext, RxStream!streamVars
  <1>7. CASE n # 0
    <2>1. n <= Len(InRing \o rxFifo)
      BY <1>2, Transit, ConcatProperties
    <2>2. RxStream!Deliver(n)
      BY <1>3, <1>5, <2>1 DEF RxStream!Deliver
    <2>3. n \in 1 .. MaxLen
      BY <1>2, <1>7, DriverAssumption
    <2> QED BY <2>2, <2>3 DEF RxNext, RxStream!StreamNext
  <1> QED BY <1>6, <1>7

\* Emptying the FIFO loses the bytes behind those of the ring.
LEMMA EmptyLoses ==
  ASSUME TypeInv, rxFifo' = <<>>, UNCHANGED <<InRing, received, nIn>>
  PROVE  RxNext
  <1>1. (InRing \o rxFifo)' = InRing
    BY Transit, ConcatEmptySeq
  <1>2. CASE rxFifo = <<>>
    <2>1. (InRing \o rxFifo)' = InRing \o rxFifo
      BY <1>2
    <2> QED BY <2>1 DEF RxNext, RxStream!streamVars
  <1>3. CASE rxFifo # <<>>
    <2>1. PICK first \in 1 .. Len(InRing \o rxFifo),
               last \in 1 .. Len(InRing \o rxFifo) :
            /\ first <= last
            /\ InRing = SubSeq(InRing \o rxFifo, 1, first - 1)
                          \o SubSeq(InRing \o rxFifo, last + 1,
                                    Len(InRing \o rxFifo))
      BY <1>3, Transit, LoseEnd
    <2>2. RxStream!Lose(first, last)
      BY <1>1, <2>1 DEF RxStream!Lose
    <2> QED BY <2>2 DEF RxNext, RxStream!StreamNext
  <1> QED BY <1>2, <1>3

\* The handler hands a byte of the FIFO over only when the ring is empty.
LEMMA HandlerDelivers ==
  ASSUME TypeInv, Requests, IrqRecvUser, MaxLen # 0
  PROVE  RxNext
  <1>1. /\ rxFifo # <<>> /\ rxFifo' = Tail(rxFifo)
        /\ received' = Append(received, Head(rxFifo))
        /\ rxDataSize # 0 /\ UNCHANGED <<ringVars, nIn>>
    BY DEF IrqRecvUser, AtReceive, CanReceive, lineVars
  <1>2. InRing = <<>>
    <2>1. CASE rxRingBuffer
      <3>1. rxRingBufferHead = rxRingBufferTail
        BY <1>1, <2>1 DEF Requests, DirectOnlyWhenRingEmpty
      <3>2. RingLength = 0
        BY <2>1, <3>1, RingSlots
      <3> QED BY <3>2, Transit, EmptySeq
    <2>2. CASE ~rxRingBuffer
      BY <2>2, Transit
    <2> QED BY <2>1, <2>2
  <1>3. InRing' = <<>>
    BY <1>1, <1>2 DEF ringVars, InRing
  <1>4. InRing \o rxFifo = rxFifo /\ (InRing \o rxFifo)' = Tail(rxFifo)
    <2>1. Tail(rxFifo) \in Seq(Nat)
      BY <1>1, Transit, HeadTailProperties
    <2> QED BY <1>1, <1>2, <1>3, <2>1, Transit, ConcatEmptySeq
  <1>5. /\ Head(rxFifo) \in Nat /\ Len(rxFifo) \in Nat \ {0}
        /\ Head(rxFifo) = rxFifo[1]
    BY <1>1, Transit, HeadTailProperties, LenProperties, EmptySeq
  <1>6. SubSeq(rxFifo, 1, 1) = <<Head(rxFifo)>>
    BY <1>1, Transit, FirstElement
  <1>7. received' = received \o SubSeq(rxFifo, 1, 1)
    BY <1>1, <1>5, <1>6, Transit, AppendIsConcat
  <1>8. SubSeq(rxFifo, 1 + 1, Len(rxFifo)) = Tail(rxFifo)
    <2>1. SubSeq(rxFifo, 2, Len(rxFifo)) = Tail(rxFifo)
      BY <1>1, Transit, TailIsSubSeq
    <2>2. 1 + 1 = 2
      OBVIOUS
    <2> QED BY <2>1, <2>2
  <1>9. RxStream!Deliver(1)
    <2>1. 1 <= Len(rxFifo)
      BY <1>5
    <2> QED BY <1>1, <1>4, <1>7, <1>8, <2>1 DEF RxStream!Deliver
  <1> QED
    <2>1. 1 \in 1 .. MaxLen
      BY DriverAssumption
    <2> QED BY <1>9, <2>1 DEF RxNext, RxStream!StreamNext

\* The handler moves a byte from the FIFO to the ring; the oldest byte of a
\* full ring is lost.
LEMMA PutKeepsOrLoses ==
  ASSUME TypeInv, IrqRingPut
  PROVE  RxNext
  <1> DEFINE b == Head(rxFifo)
             w == InRing \o rxFifo
  <1>1. UNCHANGED <<nIn, received>> /\ rxFifo' = Tail(rxFifo)
    BY DEF IrqRingPut, lineVars
  <1>2. /\ rxFifo # <<>> /\ b \in Nat
        /\ InRing' = CASE ~RingFull -> Append(InRing, b)
                       [] RingFull /\ InRing # <<>> -> Append(Tail(InRing), b)
                       [] OTHER -> <<>>
    BY PutContents
  <1> HIDE DEF b
  <1>3. Tail(rxFifo) \in Seq(Nat)
    BY <1>2, Transit, HeadTailProperties
  <1>4. CASE ~RingFull
    <2>1. InRing' \o rxFifo' = w
      BY <1>1, <1>2, <1>4, Transit, ShiftConcat DEF b
    <2> QED BY <1>1, <2>1 DEF RxNext, RxStream!streamVars
  <1>5. ASSUME w # <<>>, InRing' \o rxFifo' = Tail(w)
        PROVE  RxNext
    <2>1. w \in Seq(Nat) /\ 1 \in 1 .. Len(w)
      BY <1>5, Transit, LenProperties, EmptySeq
    <2> HIDE DEF w
    <2>2. SubSeq(w, 1, 1 - 1) \o SubSeq(w, 1 + 1, Len(w)) = Tail(w)
      BY <1>5, <2>1, DropFirst
    <2>3. RxStream!Lose(1, 1)
      <3>1. 1 <= 1
        OBVIOUS
      <3>2. InRing' \o rxFifo'
              = SubSeq(w, 1, 1 - 1) \o SubSeq(w, 1 + 1, Len(w))
        BY <1>5, <2>2
      <3> QED BY <1>1, <3>1, <3>2 DEF RxStream!Lose, w
    <2> QED BY <2>1, <2>3 DEF RxNext, RxStream!StreamNext, w
  <1>6. CASE RingFull /\ InRing # <<>>
    <2> DEFINE r == Tail(InRing)
    <2>1. /\ r \in Seq(Nat) /\ Head(InRing) \in Nat
          /\ Len(InRing) \in Nat \ {0}
      BY <1>6, Transit, HeadTailProperties, LenProperties, EmptySeq
    <2>2. InRing' \o rxFifo' = r \o rxFifo
      BY <1>1, <1>2, <1>6, <2>1, Transit, ShiftConcat DEF b
    <2>3. Tail(w) = r \o rxFifo /\ w # <<>>
      <3>1. w \in Seq(Nat) /\ Len(w) = Len(InRing) + Len(rxFifo)
        BY Transit, ConcatProperties
      <3>2. Len(rxFifo) \in Nat
        BY Transit, LenProperties
      <3>3. w # <<>>
        BY <2>1, <3>1, <3>2, EmptySeq
      <3>4. 1 \in 0 .. Len(InRing) /\ 1 + 1 = 2
        BY <2>1
      <3>5. SubSeq(w, 1 + 1, Len(w)) = SubSeq(InRing, 1 + 1, Len(InRing)) \o rxFifo
        BY <3>4, Transit, FrontOfConcat
      <3>6. SubSeq(InRing, 2, Len(InRing)) = r
        BY <1>6, Transit, TailIsSubSeq
      <3> HIDE DEF w, r
      <3>7. SubSeq(w, 2, Len(w)) = Tail(w)
        BY <3>1, <3>3, TailIsSubSeq
      <3> QED BY <3>3, <3>4, <3>5, <3>6, <3>7
    <2> QED BY <1>5, <2>2, <2>3
  <1>7. CASE RingFull /\ InRing = <<>>
    <2>1. w = rxFifo /\ InRing' \o rxFifo' = Tail(rxFifo)
      BY <1>1, <1>2, <1>3, <1>7, Transit, ConcatEmptySeq
    <2> QED BY <1>2, <1>5, <2>1
  <1> QED BY <1>4, <1>6, <1>7

\* A byte from the line enters the FIFO or is lost at once.
LEMMA LineProduces ==
  ASSUME TypeInv, Arrive, UNCHANGED ringVars, UNCHANGED received, MaxLen # 0
  PROVE  RxNext
  <1>1. nIn' = nIn + 1 /\ nIn + 1 \in Nat /\ UNCHANGED InRing
    BY Transit DEF Arrive, ringVars, InRing
  <1>2. CASE rxFifo' = rxFifo
    BY <1>1, <1>2 DEF RxNext, RxStream!StreamNext, RxStream!LoseNew
  <1>3. CASE rxFifo' = Append(rxFifo, nIn + 1)
    <2> DEFINE new == [i \in 1 .. 1 |-> nIn + i]
    <2>1. new = <<nIn + 1>>
      <3>1. new \in [1 .. 1 -> Nat]
        BY Transit
      <3>2. new \in Seq(Nat) /\ Len(new) = 1
        BY <3>1, FunctionIsSeq
      <3>3. /\ <<nIn + 1>> \in Seq(Nat) /\ Len(<<nIn + 1>>) = 1
            /\ <<nIn + 1>>[1] = nIn + 1
        BY <1>1, Single
      <3>4. \A i \in 1 .. 1 : new[i] = <<nIn + 1>>[i]
        BY <3>3
      <3> HIDE DEF new
      <3> QED BY <3>2, <3>3, <3>4, SeqEqual
    <2> HIDE DEF new
    <2>2. InRing' \o rxFifo' = (InRing \o rxFifo) \o new
      <3>1. InRing \o Append(rxFifo, nIn + 1)
              = Append(InRing \o rxFifo, nIn + 1)
        BY <1>1, Transit, AppendConcat
      <3>2. Append(InRing \o rxFifo, nIn + 1) = (InRing \o rxFifo) \o new
        BY <1>1, <2>1, Transit, AppendIsConcat
      <3> QED BY <1>1, <1>3, <3>1, <3>2
    <2>3. RxStream!Produce(1)
      BY <1>1, <2>2 DEF RxStream!Produce, new
    <2>4. 1 \in 1 .. MaxLen
      BY DriverAssumption
    <2> QED BY <2>3, <2>4 DEF RxNext, RxStream!StreamNext
  <1> QED BY <1>2, <1>3 DEF Arrive

LEMMA RxStep ==
  ASSUME TypeInv, Requests, [Next]_driverVars, MaxLen # 0
  PROVE  RxNext
  <1>1. CASE \E len \in 1 .. MaxLen : RecvFromRing(len)
    BY <1>1, RingDelivers
  <1>2. CASE AbortRxEmpty
    BY <1>2, EmptyLoses DEF AbortRxEmpty, RxGoto, lineVars, ringVars, InRing
  <1>3. CASE IrqEnter
    <2>1. UNCHANGED <<InRing, received, nIn>>
      BY <1>3 DEF IrqEnter, lineVars, ringVars, InRing
    <2>2. rxFifo' = <<>> \/ rxFifo' = rxFifo
      BY <1>3 DEF IrqEnter
    <2>3. CASE rxFifo' = <<>>
      BY <2>1, <2>3, EmptyLoses
    <2>4. CASE rxFifo' = rxFifo
      BY <2>1, <2>4 DEF RxNext, RxStream!streamVars
    <2> QED BY <2>2, <2>3, <2>4
  <1>4. CASE IrqRecvUser
    BY <1>4, HandlerDelivers
  <1>5. CASE IrqRingPut
    BY <1>5, PutKeepsOrLoses
  <1>6. CASE Hardware /\ Arrive
    BY <1>6, LineProduces DEF Hardware, rxHist
  <1>7. CASE UNCHANGED countVars
    BY <1>7 DEF countVars, InRing, RxNext, RxStream!streamVars
  <1> QED
    BY <1>1, <1>2, <1>3, <1>4, <1>5, <1>6, <1>7, CountFrame, Zenon

\* The receiving direction of the driver is a byte stream: what reaches the
\* application is what came over the line, in order, each byte at most once,
\* whichever mix of ring, handler and aborts took it there.
THEOREM RxIsStream ==
  Spec /\ StaticRing /\ MaxLen # 0 => RxImplementsStream
  <1>1. Init /\ StaticRing => RxStream!StreamInit
    <2> SUFFICES ASSUME Init, StaticRing PROVE RxStream!StreamInit
      OBVIOUS
    <2>1. nIn = 0 /\ received = <<>> /\ rxFifo = <<>>
      BY DEF Init, HwInit
    <2>2. RingLength = 0
      BY DEF Init, RingLength, RxRingBufferLength
    <2>3. InRing = <<>>
      BY <2>2, TypeInit, Transit, EmptySeq
    <2>4. InRing \o rxFifo = <<>>
      BY <2>1, <2>3
    <2> QED BY <2>1, <2>4 DEF RxStream!StreamInit
  <1>2. TypeInv /\ Requests /\ [Next]_driverVars /\ MaxLen # 0
          => [RxStream!StreamNext]_(RxStream!streamVars)
    BY RxStep DEF RxNext
  <1>3. CASE MaxLen # 0
    <2>1. TypeInv /\ Requests /\ [Next]_driverVars
            => [RxStream!StreamNext]_(RxStream!streamVars)
      BY <1>2, <1>3
    <2> QED
      BY <1>1, <2>1, RequestInvariant, PTL
         DEF Spec, RxImplementsStream, RxStream!StreamSpec
  <1>4. CASE MaxLen = 0
    BY <1>4
  <1> QED BY <1>3, <1>4

-----------------------------------------------------------------------------
(* A stream keeps its order *)

\* The bytes of s rise and are among the first top of the stream.
Ordered(s, top) ==
  /\ \A i, j \in 1 .. Len(s) : i < j => s[i] < s[j]
  /\ \A i \in 1 .. Len(s) : s[i] <= top

LEMMA OrderedConcat ==
  ASSUME NEW s \in Seq(Nat), NEW t \in Seq(Nat), NEW top \in Nat
  PROVE  Ordered(s \o t, top)
           <=> /\ Ordered(s, top) /\ Ordered(t, top)
               /\ \A i \in 1 .. Len(s) : \A j \in 1 .. Len(t) : s[i] < t[j]
  <1> DEFINE w == s \o t
             m == Len(s)
             n == Len(t)
  <1>1. m \in Nat /\ n \in Nat /\ Len(w) = m + n
    BY LenProperties, ConcatProperties
  <1>2. \A i \in 1 .. m : i \in 1 .. Len(w) /\ w[i] = s[i]
    BY <1>1, ConcatProperties
  <1>3. \A j \in 1 .. n : m + j \in 1 .. Len(w) /\ w[m + j] = t[j]
    <2> SUFFICES ASSUME NEW j \in 1 .. n
                 PROVE  m + j \in 1 .. Len(w) /\ w[m + j] = t[j]
      OBVIOUS
    <2>1. m + j \in 1 .. m + n /\ ~(m + j <= m) /\ (m + j) - m = j
      BY <1>1
    <2>2. w[m + j] = t[(m + j) - m]
      BY <2>1, ConcatProperties
    <2> QED BY <1>1, <2>1, <2>2
  <1>4. \A k \in 1 .. Len(w) :
          \/ k \in 1 .. m
          \/ k - m \in 1 .. n /\ k = m + (k - m)
    BY <1>1
  <1>5. /\ \A i \in 1 .. m : s[i] \in Nat
        /\ \A j \in 1 .. n : t[j] \in Nat
    BY ElementOfSeq
  <1> HIDE DEF w, m, n
  <1>6. ASSUME Ordered(w, top)
        PROVE  /\ Ordered(s, top) /\ Ordered(t, top)
               /\ \A i \in 1 .. m : \A j \in 1 .. n : s[i] < t[j]
    <2>1. \A i, j \in 1 .. Len(w) : i < j => w[i] < w[j]
      BY <1>6 DEF Ordered
    <2>2. \A i \in 1 .. Len(w) : w[i] <= top
      BY <1>6 DEF Ordered
    <2>3. Ordered(s, top)
      BY <1>2, <2>1, <2>2 DEF Ordered, m
    <2>4. Ordered(t, top)
      <3>1. \A i, j \in 1 .. n : i < j => t[i] < t[j]
        BY <1>1, <1>3, <2>1
      <3>2. \A i \in 1 .. n : t[i] <= top
        BY <1>3, <2>2
      <3> QED BY <3>1, <3>2 DEF Ordered, n
    <2>5. \A i \in 1 .. m : \A j \in 1 .. n : s[i] < t[j]
      BY <1>1, <1>2, <1>3, <2>1
    <2> QED BY <2>3, <2>4, <2>5
  <1>7. ASSUME Ordered(s, top), Ordered(t, top),
               \A i \in 1 .. m : \A j \in 1 .. n : s[i] < t[j]
        PROVE  Ordered(w, top)
    <2>1. \A i \in 1 .. m : s[i] <= top
      BY <1>7 DEF Ordered, m
    <2>2. \A i \in 1 .. n : t[i] <= top
      BY <1>7 DEF Ordered, n
    <2>3. \A i, j \in 1 .. m : i < j => s[i] < s[j]
      BY <1>7 DEF Ordered, m
    <2>4. \A i, j \in 1 .. n : i < j => t[i] < t[j]
      BY <1>7 DEF Ordered, n
    <2>5. ASSUME NEW k \in 1 .. Len(w) PROVE w[k] <= top
      <3>1. CASE k \in 1 .. m
        BY <1>2, <2>1, <3>1
      <3>2. CASE k - m \in 1 .. n /\ k = m + (k - m)
        BY <1>3, <2>2, <3>2
      <3> QED BY <1>4, <3>1, <3>2
    <2>6. ASSUME NEW k \in 1 .. Len(w), NEW l \in 1 .. Len(w), k < l
          PROVE  w[k] < w[l]
      <3>1. CASE k \in 1 .. m /\ l \in 1 .. m
        BY <1>2, <2>3, <2>6, <3>1
      <3>2. CASE k \in 1 .. m /\ l - m \in 1 .. n /\ l = m + (l - m)
        <4>1. w[k] = s[k] /\ w[l] = t[l - m]
          BY <1>2, <1>3, <3>2
        <4> QED BY <1>7, <3>2, <4>1
      <3>3. CASE /\ k - m \in 1 .. n /\ k = m + (k - m)
                 /\ l - m \in 1 .. n /\ l = m + (l - m)
        <4>1. w[k] = t[k - m] /\ w[l] = t[l - m]
          BY <1>3, <3>3
        <4>2. k - m < l - m
          BY <1>1, <2>6
        <4> QED BY <2>4, <3>3, <4>1, <4>2
      <3>4. ~(k - m \in 1 .. n /\ l \in 1 .. m)
        BY <1>1, <2>6
      <3> QED BY <1>4, <3>1, <3>2, <3>3, <3>4
    <2> QED BY <2>5, <2>6 DEF Ordered
  <1> QED BY <1>6, <1>7 DEF w, m, n

\* New bytes go to the end.
LEMMA OrderedProduce ==
  ASSUME NEW d \in Seq(Nat), NEW t \in Seq(Nat), NEW p \in Nat, NEW n \in Nat,
         Ordered(d \o t, p)
  PROVE  Ordered(d \o (t \o [i \in 1 .. n |-> p + i]), p + n)
  <1> DEFINE new == [i \in 1 .. n |-> p + i]
             w == d \o t
  <1>1. new \in Seq(Nat) /\ Len(new) = n
    <2>1. new \in [1 .. n -> Nat]
      OBVIOUS
    <2> QED BY <2>1, FunctionIsSeq
  <1>2. w \in Seq(Nat) /\ Len(w) \in Nat
    BY ConcatProperties, LenProperties
  <1>3. \A i \in 1 .. Len(w) : w[i] \in Nat /\ w[i] <= p
    BY <1>2, ElementOfSeq DEF Ordered
  <1>4. Ordered(w, p + n)
    <2> HIDE DEF w
    <2>1. \A i \in 1 .. Len(w) : w[i] <= p + n
      BY <1>3
    <2> QED BY <2>1 DEF Ordered, w
  <1>5. \A i \in 1 .. Len(new) : new[i] = p + i
    BY <1>1
  <1> HIDE DEF new, w
  <1>6. Ordered(new, p + n)
    BY <1>1, <1>5 DEF Ordered
  <1>7. \A i \in 1 .. Len(w) : \A j \in 1 .. Len(new) : w[i] < new[j]
    BY <1>1, <1>3, <1>5
  <1>8. Ordered(w \o new, p + n)
    <2>1. p + n \in Nat
      OBVIOUS
    <2> QED BY <1>1, <1>2, <1>4, <1>6, <1>7, <2>1, OrderedConcat
  <1>9. w \o new = d \o (t \o new)
    BY <1>1, Associate DEF w
  <1> QED BY <1>8, <1>9 DEF new

\* What is left of a part of the stream keeps its order.
LEMMA OrderedLose ==
  ASSUME NEW d \in Seq(Nat), NEW t \in Seq(Nat), NEW p \in Nat,
         NEW first \in 1 .. Len(t), NEW last \in 1 .. Len(t), first <= last,
         Ordered(d \o t, p)
  PROVE  Ordered(d \o (SubSeq(t, 1, first - 1) \o SubSeq(t, last + 1, Len(t))), p)
  <1> DEFINE f == SubSeq(t, 1, first - 1)
             l == SubSeq(t, last + 1, Len(t))
             m == first - 1
             n == Len(t) - last
  <1>1. /\ Ordered(d, p) /\ Ordered(t, p)
        /\ \A i \in 1 .. Len(d) : \A j \in 1 .. Len(t) : d[i] < t[j]
    BY OrderedConcat
  <1>2. Len(t) \in Nat /\ \A i \in 1 .. Len(t) : t[i] \in Nat
    BY LenProperties, ElementOfSeq
  <1>3. /\ m \in 0 .. Len(t) /\ m \in Nat /\ n \in Nat /\ last \in 0 .. Len(t)
        /\ \A i \in 1 .. m : i \in 1 .. Len(t) /\ i < last
        /\ \A j \in 1 .. n : last + j \in 1 .. Len(t)
    BY <1>2
  <1>4. f \in Seq(Nat) /\ Len(f) = m /\ \A i \in 1 .. m : f[i] = t[i]
    <2>1. f \in Seq(Nat) /\ Len(f) = m
      BY <1>3, Prefix
    <2>2. /\ \A i \in 1 .. m : t[i] \in Nat
          /\ 1 \in Int /\ m \in Int
      BY <1>2, <1>3
    <2>3. \A i \in 1 .. m - 1 + 1 : f[i] = t[1 + i - 1]
      BY <2>2, SubSeqProperties
    <2>4. m - 1 + 1 = m /\ \A i \in 1 .. m : 1 + i - 1 = i
      BY <1>3
    <2> QED BY <2>1, <2>3, <2>4
  <1>5. l \in Seq(Nat) /\ Len(l) = n /\ \A j \in 1 .. n : l[j] = t[last + j]
    <2>1. /\ \A i \in last + 1 .. Len(t) : t[i] \in Nat
          /\ last + 1 \in Int /\ Len(t) \in Int
      BY <1>2
    <2>2. /\ l \in Seq(Nat)
          /\ Len(l) = IF last + 1 <= Len(t) THEN Len(t) - (last + 1) + 1 ELSE 0
          /\ \A i \in 1 .. Len(t) - (last + 1) + 1 :
               l[i] = t[last + 1 + i - 1]
      BY <2>1, SubSeqProperties
    <2> HIDE DEF l
    <2>3. /\ Len(t) - (last + 1) + 1 = n /\ Len(l) = n
          /\ \A i \in 1 .. n : last + 1 + i - 1 = last + i
      BY <1>2, <2>2
    <2> QED BY <2>2, <2>3
  <1> HIDE DEF f, l, m
  <1>6. Ordered(f, p)
    BY <1>1, <1>3, <1>4 DEF Ordered
  <1>7. Ordered(l, p)
    <2>1. \A i, j \in 1 .. n : i < j => t[last + i] < t[last + j]
      BY <1>1, <1>2, <1>3 DEF Ordered
    <2>2. \A i \in 1 .. n : t[last + i] <= p
      BY <1>1, <1>3 DEF Ordered
    <2> HIDE DEF n
    <2> QED BY <1>5, <2>1, <2>2 DEF Ordered
  <1>8. \A i \in 1 .. m : \A j \in 1 .. n : f[i] < l[j]
    <2> SUFFICES ASSUME NEW i \in 1 .. m, NEW j \in 1 .. n PROVE f[i] < l[j]
      OBVIOUS
    <2>1. i \in 1 .. Len(t) /\ last + j \in 1 .. Len(t) /\ i < last + j
      BY <1>3
    <2>2. t[i] < t[last + j]
      BY <1>1, <2>1 DEF Ordered
    <2> QED BY <1>4, <1>5, <2>2
  <1>9. /\ \A i \in 1 .. Len(d) : \A j \in 1 .. m : d[i] < f[j]
        /\ \A i \in 1 .. Len(d) : \A j \in 1 .. n : d[i] < l[j]
    BY <1>1, <1>3, <1>4, <1>5
  <1> HIDE DEF n
  <1>10. Ordered(f \o l, p) /\ f \o l \in Seq(Nat)
    BY <1>4, <1>5, <1>6, <1>7, <1>8, OrderedConcat, ConcatProperties
  <1>11. Ordered(d \o f, p) /\ d \o f \in Seq(Nat)
    BY <1>1, <1>4, <1>6, <1>9, OrderedConcat, ConcatProperties
  <1>12. \A i \in 1 .. Len(d \o f) : \A j \in 1 .. n : (d \o f)[i] < l[j]
    <2> SUFFICES ASSUME NEW i \in 1 .. Len(d \o f), NEW j \in 1 .. n
                 PROVE  (d \o f)[i] < l[j]
      OBVIOUS
    <2>1. Len(d) \in Nat /\ i \in 1 .. Len(d) + Len(f)
      BY <1>4, ConcatProperties, LenProperties
    <2>2. (d \o f)[i] = IF i <= Len(d) THEN d[i] ELSE f[i - Len(d)]
      BY <1>4, <2>1, ConcatProperties
    <2>3. CASE i <= Len(d)
      BY <1>9, <2>1, <2>3, <2>2
    <2>4. CASE ~(i <= Len(d))
      <3>1. i - Len(d) \in 1 .. m
        BY <1>3, <1>4, <2>1, <2>4
      <3> QED BY <1>8, <2>4, <2>2, <3>1
    <2> QED BY <2>3, <2>4
  <1>13. Ordered((d \o f) \o l, p)
    BY <1>5, <1>7, <1>11, <1>12, OrderedConcat
  <1>14. (d \o f) \o l = d \o (f \o l)
    BY <1>4, <1>5, Associate
  <1> QED BY <1>13, <1>14 DEF f, l

-----------------------------------------------------------------------------
(* The bytes stay in the order of the line *)

InOrder == Ordered(received \o (InRing \o rxFifo), nIn)

LEMMA OrderStep ==
  ASSUME TypeInv, InOrder, RxNext
  PROVE  InOrder'
  <1> DEFINE d == received
             t == InRing \o rxFifo
             p == nIn
  <1>1. d \in Seq(Nat) /\ t \in Seq(Nat) /\ p \in Nat
    BY Transit
  <1>2. Ordered(d \o t, p)
    BY DEF InOrder
  <1> SUFFICES Ordered(d' \o t', p')
    BY DEF InOrder
  <1>3. CASE UNCHANGED RxStream!streamVars
    BY <1>2, <1>3 DEF RxStream!streamVars
  <1>4. ASSUME NEW n \in 1 .. MaxLen, RxStream!Produce(n)
        PROVE  Ordered(d' \o t', p')
    <2>1. n \in Nat
      BY DriverAssumption
    <2>2. p' = p + n /\ d' = d /\ t' = t \o [i \in 1 .. n |-> p + i]
      BY <1>4 DEF RxStream!Produce
    <2> HIDE DEF d, t, p
    <2> QED BY <1>1, <1>2, <2>1, <2>2, OrderedProduce
  <1>5. ASSUME NEW n \in 1 .. MaxLen, RxStream!Deliver(n)
        PROVE  Ordered(d' \o t', p')
    <2>1. /\ n <= Len(t) /\ p' = p
          /\ d' = d \o SubSeq(t, 1, n) /\ t' = SubSeq(t, n + 1, Len(t))
      BY <1>5 DEF RxStream!Deliver
    <2> HIDE DEF d, t, p
    <2>2. n \in 0 .. Len(t)
      BY <1>1, <2>1, DriverAssumption, LenProperties
    <2>3. /\ SubSeq(t, 1, n) \in Seq(Nat) /\ SubSeq(t, n + 1, Len(t)) \in Seq(Nat)
          /\ SubSeq(t, 1, n) \o SubSeq(t, n + 1, Len(t)) = t
      BY <1>1, <2>2, Split
    <2>4. (d \o SubSeq(t, 1, n)) \o SubSeq(t, n + 1, Len(t))
            = d \o (SubSeq(t, 1, n) \o SubSeq(t, n + 1, Len(t)))
      BY <1>1, <2>3, Associate
    <2> QED BY <1>2, <2>1, <2>3, <2>4
  <1>6. ASSUME NEW first \in 1 .. Len(t), NEW last \in 1 .. Len(t),
               RxStream!Lose(first, last)
        PROVE  Ordered(d' \o t', p')
    <2>1. /\ first <= last /\ d' = d /\ p' = p
          /\ t' = SubSeq(t, 1, first - 1) \o SubSeq(t, last + 1, Len(t))
      BY <1>6 DEF RxStream!Lose
    <2> HIDE DEF d, t, p
    <2> QED BY <1>1, <1>2, <2>1, OrderedLose
  <1>7. CASE RxStream!LoseNew
    <2>1. p' = p + 1 /\ d' = d /\ t' = t
      BY <1>7 DEF RxStream!LoseNew
    <2> DEFINE w == d \o t
    <2> HIDE DEF d, t, p
    <2>2. w \in Seq(Nat) /\ \A i \in 1 .. Len(w) : w[i] \in Nat
      BY <1>1, ConcatProperties, ElementOfSeq
    <2>3. Ordered(w, p) /\ d' \o t' = w
      BY <1>2, <2>1
    <2> HIDE DEF w
    <2>4. Ordered(w, p + 1)
      BY <1>1, <2>2, <2>3 DEF Ordered
    <2> QED BY <2>1, <2>3, <2>4
  <1> QED
    BY <1>3, <1>4, <1>5, <1>6, <1>7 DEF RxNext, RxStream!StreamNext

\* What the application has, what the ring holds and what the FIFO holds is
\* one rising sequence of arrivals, in every mix of the ways to receive.
THEOREM BytesStayInOrder ==
  Spec /\ StaticRing /\ MaxLen # 0 => []StreamOrder
  <1>1. Init /\ StaticRing => InOrder
    <2> SUFFICES ASSUME Init, StaticRing PROVE InOrder
      OBVIOUS
    <2>1. received = <<>> /\ rxFifo = <<>>
      BY DEF Init, HwInit
    <2>2. RingLength = 0
      BY DEF Init, RingLength, RxRingBufferLength
    <2>3. InRing = <<>>
      BY <2>2, TypeInit, Transit, EmptySeq
    <2>4. received \o (InRing \o rxFifo) = <<>> /\ Len(<<>>) = 0
      BY <2>1, <2>3
    <2> QED BY <2>4 DEF InOrder, Ordered
  <1>2. TypeInv /\ InOrder => StreamOrder
    <2> SUFFICES ASSUME TypeInv, InOrder PROVE StreamOrder
      OBVIOUS
    <2> DEFINE w == received \o (InRing \o rxFifo)
    <2>1. (received \o InRing) \o rxFifo = w
      BY Transit, Associate
    <2>2. w \in Seq(Nat) /\ Len(w) \in Nat
      BY Transit, ConcatProperties, LenProperties
    <2>3. \A i, j \in 1 .. Len(w) : i < j => w[i] < w[j]
      BY DEF InOrder, Ordered
    <2> HIDE DEF w
    <2>4. Increasing(w)
      BY <2>2, <2>3 DEF Increasing
    <2>5. Readable = InRing
      BY DEF TypeInv, RingShape, Readable
    <2> QED BY <2>1, <2>4, <2>5 DEF StreamOrder
  <1>3. CASE MaxLen # 0
    <2>1. TypeInv /\ Requests /\ InOrder /\ [Next]_driverVars => InOrder'
      BY <1>3, RxStep, OrderStep
    <2> QED
      BY <1>1, <1>2, <2>1, RequestInvariant, PTL DEF Spec
  <1>4. CASE MaxLen = 0
    BY <1>4
  <1> QED BY <1>3, <1>4

-----------------------------------------------------------------------------
(* The sending direction *)

TxNext == [TxStream!StreamNext]_(TxStream!streamVars)

\* The bytes of the open transfer that are not written yet.
Unsent(first, n) == [i \in 1 .. n |-> first + i - 1]

\* Nothing is left to send while the driver takes new requests.
NothingOpen ==
  /\ txPc # "send_state" /\ txState = "idle" => txDataSize = 0
  /\ txPc = "abort_state" => txDataSize = 0

LEMMA UnsentType ==
  ASSUME NEW first \in Nat \ {0}, NEW n \in Nat
  PROVE  /\ Unsent(first, n) \in Seq(Nat) /\ Len(Unsent(first, n)) = n
         /\ n = 0 => Unsent(first, n) = <<>>
         /\ n # 0 => Unsent(first, n) = <<first>> \o Unsent(first + 1, n - 1)
  <1>1. ASSUME NEW f \in Nat \ {0}, NEW k \in Nat
        PROVE  Unsent(f, k) \in Seq(Nat) /\ Len(Unsent(f, k)) = k
    <2>1. Unsent(f, k) \in [1 .. k -> Nat]
      BY DEF Unsent
    <2> QED BY <2>1, FunctionIsSeq
  <1>2. n = 0 => Unsent(first, n) = <<>>
    BY <1>1, EmptySeq
  <1>3. ASSUME n # 0
        PROVE  Unsent(first, n) = <<first>> \o Unsent(first + 1, n - 1)
    <2> DEFINE u == Unsent(first, n)
               r == Unsent(first + 1, n - 1)
               v == <<first>> \o r
    <2>1. first + 1 \in Nat \ {0} /\ n - 1 \in Nat
      BY <1>3
    <2>2. /\ r \in Seq(Nat) /\ Len(r) = n - 1 /\ u \in Seq(Nat) /\ Len(u) = n
          /\ <<first>> \in Seq(Nat) /\ Len(<<first>>) = 1 /\ <<first>>[1] = first
      BY <1>1, <2>1, Single
    <2>3. \A i \in 1 .. n - 1 : r[i] = first + i
      BY DEF Unsent
    <2>4. \A i \in 1 .. n : u[i] = first + i - 1
      BY DEF Unsent
    <2> HIDE DEF r, u
    <2>5. /\ v \in Seq(Nat) /\ Len(v) = n
          /\ \A i \in 1 .. n : v[i] = IF i <= 1 THEN <<first>>[i] ELSE r[i - 1]
      BY <1>3, <2>2, ConcatProperties
    <2> HIDE DEF v
    <2>6. ASSUME NEW i \in 1 .. n PROVE u[i] = v[i]
      <3>1. CASE i = 1
        <4>1. v[1] = first /\ u[1] = first + 1 - 1
          BY <2>2, <2>4, <2>5, <3>1
        <4> QED BY <3>1, <4>1
      <3>2. CASE i # 1
        <4>1. i - 1 \in 1 .. n - 1 /\ ~(i <= 1)
          BY <3>2
        <4>2. v[i] = r[i - 1] /\ r[i - 1] = first + (i - 1)
          BY <2>3, <2>5, <4>1
        <4>3. first + (i - 1) = first + i - 1
          OBVIOUS
        <4> QED BY <2>4, <4>2, <4>3
      <3> QED BY <3>1, <3>2
    <2>7. u = v
      BY <2>2, <2>5, <2>6, SeqEqual
    <2> QED BY <2>7 DEF u, v, r
  <1> QED BY <1>1, <1>2, <1>3

\* The bytes to send, as sequences.
LEMMA Outgoing ==
  ASSUME TypeInv, txData # 0
  PROVE  /\ txFifo \in Seq(Nat) /\ sent \in Seq(Nat)
         /\ txData \in Nat \ {0} /\ txDataSize \in Nat /\ asked \in Nat
         /\ Unsent(txData, txDataSize) \in Seq(Nat)
         /\ Len(Unsent(txData, txDataSize)) = txDataSize
         /\ txFifo \o Unsent(txData, txDataSize) \in Seq(Nat)
  <1>1. /\ txFifo \in Seq(Nat) /\ sent \in Seq(Nat)
        /\ txData \in Nat \ {0} /\ txDataSize \in Nat /\ asked \in Nat
    BY DriverAssumption DEF TypeInv, TypeOK, HwTypeOK, TxTypeOK
  <1>2. /\ Unsent(txData, txDataSize) \in Seq(Nat)
        /\ Len(Unsent(txData, txDataSize)) = txDataSize
    BY <1>1, UnsentType
  <1> QED BY <1>1, <1>2, ConcatProperties

LEMMA OpenStep ==
  ASSUME TypeInv, NothingOpen, txData # 0, [Next]_driverVars
  PROVE  NothingOpen' /\ txData' # 0
  <1> USE DEF NothingOpen, txVars, txHist, hwVars
  <1>1. /\ txDataSize \in Nat /\ txData \in Nat /\ asked \in Nat
    BY DriverAssumption DEF TypeInv, TypeOK, TxTypeOK
  <1>2. CASE \E len \in 1 .. MaxLen : Send(len)
    BY <1>1, <1>2 DEF Send, TxGoto
  <1>3. CASE SendSetState
    BY <1>3 DEF SendSetState, TxGoto
  <1>4. CASE AbortTxDisable \/ AbortTxEmpty \/ AbortTxSize \/ AbortTxState
    BY <1>4 DEF AbortTxDisable, AbortTxEmpty, AbortTxSize, AbortTxState,
       TxGoto
  <1>5. CASE IrqSend
    <2>1. /\ txDataSize # 0 /\ txData' = txData + 1
          /\ txDataSize' = txDataSize - 1 /\ txPc' = txPc
          /\ txState' = IF txDataSize = 1 THEN "idle" ELSE txState
      BY <1>5 DEF IrqSend, AtSend, CanSend, LastTx, IrqGoto, threadVars,
         TypeInv, HandlerFlags
    <2> QED BY <1>1, <2>1
  <1>6. CASE IrqTxIdle
    BY <1>6 DEF IrqTxIdle, IrqGoto, threadVars
  <1>7. CASE Hardware
    BY <1>7 DEF Hardware, threadVars
  <1>8. CASE /\ UNCHANGED sendVars
             /\ txPc' # txPc => txPc' \in {"idle", "send_write"}
                                /\ txPc \in {"send_read", "send_write"}
    BY <1>8 DEF sendVars
  <1> QED
    BY <1>2, <1>3, <1>4, <1>5, <1>6, <1>7, <1>8, SendFrame, Zenon

LEMMA TxStep ==
  ASSUME TypeInv, NothingOpen, txData # 0, [Next]_driverVars, MaxLen # 0
  PROVE  TxNext
  <1> DEFINE rest == Unsent(txData, txDataSize)
             Same == UNCHANGED <<asked, sent, txFifo, txData, txDataSize>>
  <1> USE DEF txVars, txHist, hwVars, fifoVars, lineVars
  <1>1. /\ txFifo \in Seq(Nat) /\ sent \in Seq(Nat)
        /\ txData \in Nat \ {0} /\ txDataSize \in Nat /\ asked \in Nat
        /\ rest \in Seq(Nat) /\ Len(rest) = txDataSize
        /\ txFifo \o rest \in Seq(Nat)
    BY Outgoing
  <1>2. CASE Same
    BY <1>2 DEF TxNext, TxStream!streamVars
  <1>3. ASSUME NEW len \in 1 .. MaxLen, Send(len)
        PROVE  TxNext
    <2>1. /\ txState = "idle" /\ txPc = "idle"
          /\ txData' = asked + 1 /\ txDataSize' = len /\ asked' = asked + len
          /\ UNCHANGED <<sent, txFifo>>
      BY <1>3 DEF Send, TxGoto
    <2>2. rest = <<>>
      BY <1>1, <2>1, UnsentType DEF NothingOpen
    <2>3. [i \in 1 .. txDataSize' |-> txData' + i - 1]
            = [i \in 1 .. len |-> asked + i]
      <3>1. \A i \in 1 .. len : asked + 1 + i - 1 = asked + i
        BY <1>1
      <3> QED BY <2>1, <3>1
    <2>4. txFifo \o rest = txFifo
      BY <1>1, <2>2, ConcatEmptySeq
    <2>5. TxStream!Produce(len)
      BY <2>1, <2>3, <2>4 DEF TxStream!Produce, Unsent
    <2> QED BY <2>5 DEF TxNext, TxStream!StreamNext
  <1>4. CASE SendSetState \/ AbortTxDisable \/ AbortTxState \/ IrqTxIdle
    <2>1. Same
      BY <1>4 DEF SendSetState, AbortTxDisable, AbortTxState, IrqTxIdle,
         TxGoto, IrqGoto, hwButEnables
    <2> QED BY <1>2, <2>1
  <1>5. CASE AbortTxEmpty
    <2>1. /\ txFifo' = <<>>
          /\ UNCHANGED <<asked, sent, txData, txDataSize>>
      BY <1>5 DEF AbortTxEmpty
    <2>2. CASE txFifo = <<>>
      BY <1>2, <2>1, <2>2
    <2>3. CASE txFifo # <<>>
      <3>1. PICK first \in 1 .. Len(txFifo \o rest),
                 last \in 1 .. Len(txFifo \o rest) :
              /\ first <= last
              /\ rest = SubSeq(txFifo \o rest, 1, first - 1)
                          \o SubSeq(txFifo \o rest, last + 1,
                                    Len(txFifo \o rest))
        BY <1>1, <2>3, LoseBegin
      <3>2. txFifo' \o Unsent(txData', txDataSize') = rest
        BY <1>1, <2>1, ConcatEmptySeq
      <3>3. TxStream!Lose(first, last)
        BY <2>1, <3>1, <3>2 DEF TxStream!Lose, Unsent
      <3> QED BY <3>3 DEF TxNext, TxStream!StreamNext, Unsent
    <2> QED BY <2>2, <2>3
  <1>6. CASE AbortTxSize
    <2>1. txDataSize' = 0 /\ UNCHANGED <<asked, sent, txFifo, txData>>
      BY <1>6 DEF AbortTxSize, TxGoto
    <2>2. CASE rest = <<>>
      <3>1. txDataSize = 0
        BY <1>1, <2>2, EmptySeq
      <3> QED BY <1>2, <2>1, <3>1
    <2>3. CASE rest # <<>>
      <3>1. PICK first \in 1 .. Len(txFifo \o rest),
                 last \in 1 .. Len(txFifo \o rest) :
              /\ first <= last
              /\ txFifo = SubSeq(txFifo \o rest, 1, first - 1)
                            \o SubSeq(txFifo \o rest, last + 1,
                                      Len(txFifo \o rest))
        BY <1>1, <2>3, LoseEnd
      <3>2. Unsent(txData, 0) = <<>>
        BY <1>1, UnsentType
      <3>3. txFifo' \o Unsent(txData', txDataSize') = txFifo
        BY <1>1, <2>1, <3>2, ConcatEmptySeq
      <3>4. TxStream!Lose(first, last)
        BY <2>1, <3>1, <3>3 DEF TxStream!Lose, Unsent
      <3> QED BY <3>4 DEF TxNext, TxStream!StreamNext, Unsent
    <2> QED BY <2>2, <2>3
  <1>7. CASE IrqSend
    <2>1. /\ txDataSize # 0 /\ txData' = txData + 1
          /\ txDataSize' = txDataSize - 1 /\ txFifo' = Append(txFifo, txData)
          /\ UNCHANGED <<asked, sent>>
      BY <1>7 DEF IrqSend, AtSend, CanSend, IrqGoto, TypeInv, HandlerFlags
    <2> DEFINE later == Unsent(txData + 1, txDataSize - 1)
    <2>2. /\ rest = <<txData>> \o later /\ later \in Seq(Nat)
          /\ <<txData>> \in Seq(Nat)
      <3>1. txData + 1 \in Nat \ {0} /\ txDataSize - 1 \in Nat
        BY <1>1, <2>1
      <3>2. rest = <<txData>> \o later
        BY <1>1, <2>1, UnsentType
      <3>3. later \in Seq(Nat)
        BY <3>1, UnsentType
      <3> QED BY <1>1, <3>2, <3>3, Single
    <2> HIDE DEF rest, later
    <2>3. txFifo \o rest = (txFifo \o <<txData>>) \o later
      <3>1. (txFifo \o <<txData>>) \o later = txFifo \o (<<txData>> \o later)
        BY <1>1, <2>2, Associate
      <3> QED BY <2>2, <3>1
    <2>4. Append(txFifo, txData) = txFifo \o <<txData>>
      BY <1>1, AppendIsConcat
    <2>5. txFifo' \o Unsent(txData', txDataSize') = txFifo \o rest
      BY <2>1, <2>3, <2>4 DEF later
    <2> QED BY <2>1, <2>5 DEF TxNext, TxStream!streamVars, Unsent, rest
  <1>8. CASE Hardware /\ Shift
    <2>1. /\ txFifo # <<>> /\ sent' = Append(sent, Head(txFifo))
          /\ txFifo' = Tail(txFifo)
          /\ UNCHANGED <<asked, txData, txDataSize>>
      BY <1>8 DEF Hardware, Shift
    <2>2. /\ Head(txFifo) \in Nat /\ Len(txFifo) \in Nat \ {0}
          /\ Head(txFifo) = txFifo[1]
      BY <1>1, <2>1, HeadTailProperties, LenProperties, EmptySeq
    <2>3. SubSeq(txFifo, 1, 1) = <<Head(txFifo)>>
      BY <1>1, <2>1, FirstElement
    <2>4. 1 \in 0 .. Len(txFifo)
      BY <2>2
    <2>5. SubSeq(txFifo, 1 + 1, Len(txFifo)) = Tail(txFifo)
      <3>1. SubSeq(txFifo, 2, Len(txFifo)) = Tail(txFifo)
        BY <1>1, <2>1, TailIsSubSeq
      <3>2. 1 + 1 = 2
        OBVIOUS
      <3> QED BY <3>1, <3>2
    <2> DEFINE w == txFifo \o rest
    <2>6. /\ SubSeq(w, 1, 1) = <<Head(txFifo)>>
          /\ SubSeq(w, 1 + 1, Len(w)) = Tail(txFifo) \o rest
      <3> HIDE DEF rest
      <3>1. /\ SubSeq(w, 1, 1) = SubSeq(txFifo, 1, 1)
            /\ SubSeq(w, 1 + 1, Len(w))
                 = SubSeq(txFifo, 1 + 1, Len(txFifo)) \o rest
        BY <1>1, <2>4, FrontOfConcat
      <3> HIDE DEF w
      <3> QED BY <2>3, <2>5, <3>1
    <2>7. 1 <= Len(w)
      BY <1>1, <2>2, ConcatProperties
    <2>8. sent' = sent \o <<Head(txFifo)>>
      BY <1>1, <2>1, <2>2, AppendIsConcat
    <2>9. txFifo' \o Unsent(txData', txDataSize') = Tail(txFifo) \o rest
      BY <2>1
    <2> HIDE DEF rest
    <2>10. TxStream!Deliver(1)
      BY <2>1, <2>6, <2>7, <2>8, <2>9 DEF TxStream!Deliver, rest, Unsent
    <2>11. 1 \in 1 .. MaxLen
      BY DriverAssumption
    <2> QED BY <2>10, <2>11 DEF TxNext, TxStream!StreamNext
  <1>9. CASE Hardware /\ ShiftDone
    BY <1>2, <1>9 DEF Hardware, ShiftDone
  <1>10. CASE UNCHANGED sendVars
    BY <1>2, <1>10 DEF sendVars
  <1>11. CASE \E len \in 1 .. MaxLen : Send(len)
    BY <1>3, <1>11
  <1> HIDE DEF rest
  <1> QED
    BY <1>4, <1>5, <1>6, <1>7, <1>8, <1>9, <1>10, <1>11, SendFrame, Zenon

\* The sending direction is a byte stream too, aborted sends included: the
\* line carries what was asked for, in order, each byte at most once.
THEOREM TxIsStream ==
  Spec /\ StaticRing /\ MaxLen # 0 => TxImplementsStream
  <1> DEFINE Inv == NothingOpen /\ txData # 0
  <1>1. Init => TxStream!StreamInit /\ Inv
    <2> SUFFICES ASSUME Init PROVE TxStream!StreamInit /\ Inv
      OBVIOUS
    <2>1. /\ asked = 0 /\ sent = <<>> /\ txFifo = <<>> /\ txDataSize = 0
          /\ txData = 1 /\ txPc = "idle"
      BY DEF Init, HwInit
    <2>2. Unsent(1, 0) = <<>>
      <3>1. 1 \in Nat \ {0} /\ 0 \in Nat
        OBVIOUS
      <3> QED BY <3>1, UnsentType
    <2>3. txFifo \o Unsent(txData, txDataSize) = <<>>
      BY <2>1, <2>2
    <2> QED BY <2>1, <2>3 DEF TxStream!StreamInit, NothingOpen, Unsent
  <1>2. CASE MaxLen # 0
    <2>1. TypeInv /\ Inv /\ [Next]_driverVars
            => Inv' /\ [TxStream!StreamNext]_(TxStream!streamVars)
      BY <1>2, OpenStep, TxStep DEF TxNext
    <2>2. Spec /\ StaticRing => []TypeInv
      BY RequestInvariant, PTL
    <2> HIDE DEF Inv
    <2> QED
      BY <1>1, <2>1, <2>2, PTL DEF Spec, TxImplementsStream, TxStream!StreamSpec
  <1>3. CASE MaxLen = 0
    BY <1>3
  <1> QED BY <1>2, <1>3
=============================================================================
