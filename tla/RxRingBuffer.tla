---------------------------- MODULE RxRingBuffer ----------------------------
(***************************************************************************)
(* The index arithmetic of the receive ring buffer of fsl_usart.c.  The    *)
(* ring is full with one slot unused, so head = tail always means empty.   *)
(* The indices are uint16_t in usart_handle_t while the size is a size_t:  *)
(* IndexMod is the number of values an index has (2^16 in the build).      *)
(***************************************************************************)
EXTENDS Integers

CONSTANT IndexMod

ASSUME IndexModAssumption == IndexMod \in Nat \ {0}

\* USART_TransferGetRxRingBufferLength.
RxRingBufferLength(head, tail, size) ==
  IF tail > head THEN head + size - tail ELSE head - tail

\* Wrong variants, used by no definition: every slot filled; no wrap.
FullNoReserve(head, tail, size) == RxRingBufferLength(head, tail, size) = size
NextNoWrap(i, size) == (i + 1) % IndexMod

\* USART_TransferIsRxRingBufferFull.
IsRxRingBufferFull(head, tail, size) ==
  RxRingBufferLength(head, tail, size) = size - 1

\* "Wrap to 0" after the last slot; otherwise the increment of a uint16_t.
NextIndex(i, size) == IF i + 1 = size THEN 0 ELSE (i + 1) % IndexMod

\* The index reached after n increments, for an index below a size that fits.
Advance(i, n, size) == IF i + n >= size THEN i + n - size ELSE i + n

\* What the ring holds, oldest byte first.
RingContents(data, head, tail, size) ==
  [i \in 1 .. RxRingBufferLength(head, tail, size) |->
     data[Advance(tail, i - 1, size)]]
=============================================================================
