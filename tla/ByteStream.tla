----------------------------- MODULE ByteStream -----------------------------
(***************************************************************************)
(* What each direction of the driver promises: a stream of bytes that is   *)
(* delivered in the order in which it was produced, each byte at most      *)
(* once.  Bytes in transit may be lost; they are never reordered,          *)
(* duplicated or invented.  A byte is its place in the stream.             *)
(***************************************************************************)
EXTENDS Integers, Sequences

CONSTANT MaxBurst    \* most bytes produced, or delivered, at once

VARIABLES produced,  \* how many bytes were produced
          transit,   \* those neither delivered nor lost, in order
          delivered  \* those delivered, in order

streamVars == <<produced, transit, delivered>>

StreamInit == produced = 0 /\ transit = <<>> /\ delivered = <<>>

Produce(n) ==
  /\ produced' = produced + n
  /\ transit' = transit \o [i \in 1 .. n |-> produced + i]
  /\ UNCHANGED delivered

Deliver(n) ==
  /\ n <= Len(transit)
  /\ delivered' = delivered \o SubSeq(transit, 1, n)
  /\ transit' = SubSeq(transit, n + 1, Len(transit))
  /\ UNCHANGED produced

\* The bytes at the positions from first to last are lost; a new byte may be
\* lost as it is produced.
Lose(first, last) ==
  /\ first <= last
  /\ transit' = SubSeq(transit, 1, first - 1)
                  \o SubSeq(transit, last + 1, Len(transit))
  /\ UNCHANGED <<produced, delivered>>

LoseNew == produced' = produced + 1 /\ UNCHANGED <<transit, delivered>>

StreamNext ==
  \/ \E n \in 1 .. MaxBurst : Produce(n) \/ Deliver(n)
  \/ \E first, last \in 1 .. Len(transit) : Lose(first, last)
  \/ LoseNew

StreamSpec == StreamInit /\ [][StreamNext]_streamVars
=============================================================================
