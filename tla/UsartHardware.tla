--------------------------- MODULE UsartHardware ---------------------------
(***************************************************************************)
(* The USART block as the driver sees it: the two FIFOs, the transmit      *)
(* shifter, and the interrupt-enable registers.  Not code of the           *)
(* repository: modelled from the register accesses of fsl_usart.c.         *)
(*                                                                         *)
(* A received byte is its arrival number, a transmitted byte its place in  *)
(* the stream of bytes the application asked to send: comparing numbers is *)
(* comparing the order of the streams.                                     *)
(***************************************************************************)
EXTENDS Integers, Sequences

CONSTANTS FifoSize,     \* entries of each FIFO (16 in the part)
          TxWatermark,  \* FIFOTRIG.TXLVL, from usart_config_t
          MaxIn         \* bound: bytes that arrive on the RX line

ASSUME FifoAssumption ==
  /\ FifoSize \in Nat \ {0}
  /\ TxWatermark \in Nat /\ TxWatermark < FifoSize
  /\ MaxIn \in Nat

VARIABLES rxFifo,      \* received bytes not yet read from FIFORD
          rxErr,       \* FIFOSTAT.RXERR
          txFifo,      \* bytes written to FIFOWR, not yet in the shifter
          txLine,      \* a byte is being shifted out
          intEn,       \* FIFOINTENSET as read back
          txIdleEn,    \* INTENSET.TXIDLEEN
          rxTrig,      \* FIFOTRIG.RXLVL
          nIn,         \* history: bytes that arrived on the line
          hwLost,      \* history: bytes dropped because rxFifo was full
          sent         \* history: bytes shifted out, in order

fifoVars == <<rxFifo, rxErr, txFifo, txLine>>
enableVars == <<intEn, txIdleEn, rxTrig>>
lineVars == <<nIn, hwLost, sent>>
hwVars == <<fifoVars, enableVars, lineVars>>

Interrupts == {"RXLVL", "RXERR", "TXLVL"}

HwTypeOK ==
  /\ nIn \in 0 .. MaxIn
  /\ hwLost \in 0 .. nIn
  /\ rxFifo \in Seq(1 .. MaxIn) /\ Len(rxFifo) <= FifoSize
  /\ txFifo \in Seq(Nat) /\ Len(txFifo) <= FifoSize
  /\ sent \in Seq(Nat)
  /\ rxErr \in BOOLEAN /\ txLine \in BOOLEAN /\ txIdleEn \in BOOLEAN
  /\ intEn \in SUBSET Interrupts
  /\ rxTrig \in 0 .. FifoSize - 1

\* STAT.TXIDLE.
TxIdle == txFifo = <<>> /\ ~txLine

\* FIFOSTAT.TXNOTFULL.
TxNotFull == Len(txFifo) < FifoSize

\* Some enabled source of the single interrupt line is active.
IrqPending ==
  \/ "RXLVL" \in intEn /\ Len(rxFifo) > rxTrig
  \/ "RXERR" \in intEn /\ rxErr
  \/ "TXLVL" \in intEn /\ Len(txFifo) <= TxWatermark
  \/ txIdleEn /\ TxIdle

HwInit(enabled, rxLevel) ==
  /\ rxFifo = <<>> /\ rxErr = FALSE /\ txFifo = <<>> /\ txLine = FALSE
  /\ intEn = enabled /\ txIdleEn = FALSE /\ rxTrig = rxLevel
  /\ nIn = 0 /\ hwLost = 0 /\ sent = <<>>

\* A byte arrives; when the FIFO is full it is lost and RXERR is raised.
Arrive ==
  /\ nIn < MaxIn
  /\ nIn' = nIn + 1
  /\ \/ /\ Len(rxFifo) < FifoSize
        /\ rxFifo' = Append(rxFifo, nIn + 1)
        /\ UNCHANGED <<rxErr, hwLost>>
     \/ /\ Len(rxFifo) = FifoSize
        /\ rxErr' = TRUE
        /\ hwLost' = hwLost + 1
        /\ UNCHANGED rxFifo
  /\ UNCHANGED <<txFifo, txLine, enableVars, sent>>

\* The shifter takes the next byte of the TX FIFO.
Shift ==
  /\ txFifo # <<>> /\ ~txLine
  /\ sent' = Append(sent, Head(txFifo))
  /\ txFifo' = Tail(txFifo)
  /\ txLine' = TRUE
  /\ UNCHANGED <<rxFifo, rxErr, enableVars, nIn, hwLost>>

\* The stop bit of the byte in the shifter is out.
ShiftDone ==
  /\ txLine
  /\ txLine' = FALSE
  /\ UNCHANGED <<rxFifo, rxErr, txFifo, enableVars, lineVars>>

HwNext == Arrive \/ Shift \/ ShiftDone
=============================================================================
